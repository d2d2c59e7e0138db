---------------------------- MODULE BackendProofs ---------------------------
(***************************************************************************)
(* What goes through the queues between the session and the server is      *)
(* numbered: fences by what they carry, requests for the clipboard and     *)
(* their answers by their place.  Numbers neither skip nor repeat, from    *)
(* what the server has heard to what it has said; and that is kept by      *)
(* whatever moves a message from the head of a queue to the end of the     *)
(* next.                                                                   *)
(***************************************************************************)
EXTENDS Backend, SequenceTheorems, TLAPS

Of(k, q) == {i \in 1 .. Len(q) : q[i].kind = k}

(* The messages of a kind are numbered from lo + 1 to hi.                  *)
Numbered(q, k, lo, hi, f) ==
    /\ lo <= hi
    /\ \A i \in Of(k, q) : f[i] \in lo + 1 .. hi
    /\ \A i, j \in Of(k, q) : i < j => f[i] < f[j]
    /\ \A n \in lo + 1 .. hi : \E i \in Of(k, q) : f[i] = n

LEMMA NumberNone ==
    ASSUME NEW k, NEW n \in Nat, NEW f
    PROVE  Numbered(<<>>, k, n, n, f)
BY DEF Numbered, Of

LEMMA NumberEnd ==
    ASSUME NEW k, NEW lo \in Nat, NEW hi \in Nat, NEW f, Numbered(<<>>, k, lo, hi, f)
    PROVE  lo = hi
<1>1. Of(k, <<>>) = {}
    BY DEF Of
<1>2. lo <= hi /\ \A n \in lo + 1 .. hi : FALSE
    BY <1>1 DEF Numbered
<1> QED
    BY <1>2

Longer(q, f, n) == [i \in 1 .. Len(q) + 1 |-> IF i <= Len(q) THEN f[i] ELSE n]
LEMMA NumberAppend ==
    ASSUME NEW S, NEW q \in Seq(S), NEW m \in S, NEW k,
           NEW lo \in Nat, NEW hi \in Nat, NEW f, Numbered(q, k, lo, hi, f)
    PROVE  LET g == Longer(q, f, hi + 1) IN
           /\ m.kind # k => Numbered(Append(q, m), k, lo, hi, g)
           /\ m.kind = k => Numbered(Append(q, m), k, lo, hi + 1, g)
<1> DEFINE a == Append(q, m)
           l == Len(q)
           g == Longer(q, f, hi + 1)
<1>1. /\ l \in Nat /\ Len(a) = l + 1
      /\ \A i \in 1 .. l : a[i] = q[i]
      /\ a[l + 1] = m
    BY AppendProperties, LenProperties
<1>2. (\A i \in 1 .. l : g[i] = f[i]) /\ g[l + 1] = hi + 1
    BY <1>1 DEF Longer
<1>3. /\ \A i : i \in Of(k, q) <=> i \in 1 .. l /\ q[i].kind = k
      /\ \A i : i \in Of(k, a) <=> i \in 1 .. l + 1 /\ a[i].kind = k
    BY <1>1 DEF Of
<1> HIDE DEF a, g, l
<1>4. /\ \A i : i \in Of(k, a) <=> i \in Of(k, q) \/ (i = l + 1 /\ m.kind = k)
      /\ \A i \in Of(k, q) : a[i] = q[i] /\ g[i] = f[i] /\ i \in Nat /\ i < l + 1
    BY <1>1, <1>2, <1>3
<1>5. /\ lo <= hi /\ \A i \in Of(k, q) : f[i] \in lo + 1 .. hi
      /\ \A i, j \in Of(k, q) : i < j => f[i] < f[j]
      /\ \A n \in lo + 1 .. hi : \E i \in Of(k, q) : f[i] = n
    BY DEF Numbered
<1>6. ASSUME m.kind # k PROVE Numbered(a, k, lo, hi, g)
    BY <1>4, <1>5, <1>6 DEF Numbered
<1>7. ASSUME m.kind = k PROVE Numbered(a, k, lo, hi + 1, g)
    <2>1. \A i \in Of(k, a) : g[i] \in lo + 1 .. hi + 1
        BY <1>2, <1>4, <1>5
    <2>2. \A i, j \in Of(k, a) : i < j => g[i] < g[j]
        <3> SUFFICES ASSUME NEW i \in Of(k, a), NEW j \in Of(k, a), i < j PROVE g[i] < g[j]
            OBVIOUS
        <3>1. i \in Of(k, q)
            BY <1>1, <1>4
        <3>2. CASE j \in Of(k, q)
            BY <1>4, <1>5, <3>1, <3>2
        <3>3. CASE j = l + 1
            <4>1. f[i] \in lo + 1 .. hi
                BY <1>5, <3>1
            <4> QED
                BY <1>2, <1>4, <3>1, <3>3, <4>1
        <3> QED
            BY <1>4, <3>2, <3>3
    <2>3. \A n \in lo + 1 .. hi + 1 : \E i \in Of(k, a) : g[i] = n
        <3> SUFFICES ASSUME NEW n \in lo + 1 .. hi + 1 PROVE \E i \in Of(k, a) : g[i] = n
            OBVIOUS
        <3>1. CASE n = hi + 1
            BY <1>2, <1>4, <1>7, <3>1
        <3>2. CASE n \in lo + 1 .. hi
            BY <1>4, <1>5, <3>2
        <3> QED
            BY <3>1, <3>2
    <2>4. lo <= hi + 1
        BY <1>5
    <2> QED
        BY <2>1, <2>2, <2>3, <2>4 DEF Numbered
<1> QED
    BY <1>6, <1>7 DEF a, g

(* Where a message of the longer queue is from.                            *)
LEMMA AppendedTo ==
    ASSUME NEW S, NEW q \in Seq(S), NEW m \in S
    PROVE  /\ Len(q) \in Nat /\ Len(Append(q, m)) = Len(q) + 1
           /\ \A i \in 1 .. Len(q) : Append(q, m)[i] = q[i]
           /\ Append(q, m)[Len(q) + 1] = m
BY AppendProperties, LenProperties

Shorter(q, f) == [i \in 1 .. Len(q) - 1 |-> f[i + 1]]
LEMMA NumberTail ==
    ASSUME NEW S, NEW q \in Seq(S), q # <<>>, NEW k,
           NEW lo \in Nat, NEW hi \in Nat, NEW f, Numbered(q, k, lo, hi, f)
    PROVE  LET g == Shorter(q, f) IN
           /\ Head(q).kind # k => Numbered(Tail(q), k, lo, hi, g)
           /\ Head(q).kind = k =>
                /\ 1 \in Of(k, q) /\ f[1] = lo + 1 /\ lo + 1 <= hi
                /\ Numbered(Tail(q), k, lo + 1, hi, g)
           /\ \A i \in Of(k, Tail(q)) :
                i + 1 \in Of(k, q) /\ g[i] = f[i + 1] /\ Tail(q)[i] = q[i + 1]
<1> DEFINE t == Tail(q)
           l == Len(q)
           g == Shorter(q, f)
           h == Head(q)
<1>1. /\ l \in Nat /\ l > 0 /\ Len(t) = l - 1
      /\ \A i \in 1 .. l - 1 : t[i] = q[i + 1]
      /\ h = q[1]
    BY HeadTailProperties, EmptySeq, LenProperties
<1>2. \A i \in 1 .. l - 1 : g[i] = f[i + 1]
    BY <1>1 DEF Shorter
<1>3. /\ \A i : i \in Of(k, q) <=> i \in 1 .. l /\ q[i].kind = k
      /\ \A i : i \in Of(k, t) <=> i \in 1 .. l - 1 /\ t[i].kind = k
    BY <1>1 DEF Of
<1> HIDE DEF t, g, l, h
<1>4. /\ \A i \in Of(k, t) : i \in Nat /\ i > 0 /\ i + 1 \in Of(k, q)
                             /\ g[i] = f[i + 1] /\ t[i] = q[i + 1]
      /\ \A i \in Of(k, q) : i \in Nat /\ (i # 1 => i > 1 /\ i - 1 \in Of(k, t) /\ g[i - 1] = f[i])
      /\ 1 \in Of(k, q) <=> h.kind = k
    <2>1. ASSUME NEW i \in Of(k, t)
          PROVE  i \in Nat /\ i > 0 /\ i + 1 \in Of(k, q) /\ g[i] = f[i + 1] /\ t[i] = q[i + 1]
        <3>1. i \in 1 .. l - 1 /\ t[i].kind = k
            BY <1>3
        <3>2. i \in Nat /\ i > 0 /\ i + 1 \in 1 .. l
            BY <1>1, <3>1
        <3>3. t[i] = q[i + 1] /\ g[i] = f[i + 1]
            BY <1>1, <1>2, <3>1
        <3>4. q[i + 1].kind = k
            BY <3>1, <3>3
        <3> QED
            BY <1>3, <3>2, <3>3, <3>4
    <2>2. ASSUME NEW i \in Of(k, q)
          PROVE  i \in Nat /\ (i # 1 => i > 1 /\ i - 1 \in Of(k, t) /\ g[i - 1] = f[i])
        <3>1. i \in 1 .. l /\ q[i].kind = k
            BY <1>3
        <3>2. CASE i = 1
            BY <3>2
        <3>3. CASE i # 1
            <4>1. i - 1 \in 1 .. l - 1 /\ (i - 1) + 1 = i
                BY <1>1, <3>1, <3>3
            <4>2. t[i - 1] = q[i] /\ g[i - 1] = f[i]
                BY <1>1, <1>2, <4>1
            <4>3. i - 1 \in Of(k, t)
                BY <1>3, <3>1, <4>1, <4>2
            <4>4. i \in Nat /\ i > 1
                BY <1>1, <3>1, <3>3
            <4> QED
                BY <4>2, <4>3, <4>4
        <3> QED
            BY <3>2, <3>3
    <2>3. 1 \in Of(k, q) <=> h.kind = k
        BY <1>1, <1>3
    <2> QED
        BY <2>1, <2>2, <2>3
<1>5. /\ lo <= hi /\ \A i \in Of(k, q) : f[i] \in lo + 1 .. hi
      /\ \A i, j \in Of(k, q) : i < j => f[i] < f[j]
      /\ \A n \in lo + 1 .. hi : \E i \in Of(k, q) : f[i] = n
    BY DEF Numbered
<1>6. \A i, j \in Of(k, t) : i < j => g[i] < g[j]
    <2> SUFFICES ASSUME NEW i \in Of(k, t), NEW j \in Of(k, t), i < j PROVE g[i] < g[j]
        OBVIOUS
    <2>1. i + 1 < j + 1
        BY <1>4
    <2> QED
        BY <1>4, <1>5, <2>1
<1>7. ASSUME h.kind # k PROVE Numbered(t, k, lo, hi, g)
    <2>1. \A i \in Of(k, t) : g[i] \in lo + 1 .. hi
        BY <1>4, <1>5
    <2>2. \A n \in lo + 1 .. hi : \E i \in Of(k, t) : g[i] = n
        <3> SUFFICES ASSUME NEW n \in lo + 1 .. hi PROVE \E i \in Of(k, t) : g[i] = n
            OBVIOUS
        <3>1. PICK i \in Of(k, q) : f[i] = n
            BY <1>5
        <3>2. i # 1
            BY <1>4, <1>7
        <3> QED
            BY <1>4, <3>1, <3>2
    <2> QED
        BY <1>5, <1>6, <2>1, <2>2 DEF Numbered
<1>8. ASSUME h.kind = k
      PROVE  1 \in Of(k, q) /\ f[1] = lo + 1 /\ lo + 1 <= hi /\ Numbered(t, k, lo + 1, hi, g)
    <2>1. 1 \in Of(k, q) /\ f[1] \in lo + 1 .. hi
        BY <1>4, <1>5, <1>8
    <2>2. f[1] = lo + 1
        <3>1. lo + 1 \in lo + 1 .. hi
            BY <2>1
        <3>2. PICK i \in Of(k, q) : f[i] = lo + 1
            BY <1>5, <3>1
        <3>3. i # 1 => f[1] < f[i]
            BY <1>4, <1>5, <2>1
        <3> QED
            BY <2>1, <3>2, <3>3
    <2>3. \A i \in Of(k, t) : g[i] \in lo + 2 .. hi
        <3> SUFFICES ASSUME NEW i \in Of(k, t) PROVE g[i] \in lo + 2 .. hi
            OBVIOUS
        <3>1. i + 1 \in Of(k, q) /\ 1 < i + 1 /\ g[i] = f[i + 1]
            BY <1>4
        <3>2. f[i + 1] \in lo + 1 .. hi /\ f[1] < f[i + 1]
            BY <1>5, <2>1, <3>1
        <3> QED
            BY <2>2, <3>1, <3>2
    <2>4. \A n \in lo + 2 .. hi : \E i \in Of(k, t) : g[i] = n
        <3> SUFFICES ASSUME NEW n \in lo + 2 .. hi PROVE \E i \in Of(k, t) : g[i] = n
            OBVIOUS
        <3>1. PICK i \in Of(k, q) : f[i] = n
            BY <1>5
        <3>2. i # 1
            BY <2>2, <3>1
        <3> QED
            BY <1>4, <3>1, <3>2
    <2>5. lo + 1 <= hi /\ lo + 1 + 1 = lo + 2
        BY <2>1
    <2> QED
        BY <1>6, <2>1, <2>2, <2>3, <2>4, <2>5 DEF Numbered
<1> QED
    BY <1>4, <1>7, <1>8 DEF t, g, h

(* Only the numbers of the kind matter.                                    *)
LEMMA NumberSame ==
    ASSUME NEW q, NEW k, NEW lo, NEW hi, NEW f, NEW g,
           Numbered(q, k, lo, hi, f), \A i \in Of(k, q) : f[i] = g[i]
    PROVE  Numbered(q, k, lo, hi, g)
BY DEF Numbered

-----------------------------------------------------------------------------
(* Fences are numbered by what they carry.                                 *)
Args(q) == [i \in 1 .. Len(q) |-> q[i].arg]
Fenced(q, lo, hi) == Numbered(q, "fence", lo, hi, Args(q))

LEMMA ArgsOf ==
    ASSUME NEW q, NEW k, NEW i \in Of(k, q)
    PROVE  Args(q)[i] = q[i].arg
BY DEF Args, Of

LEMMA FenceNone == ASSUME NEW n \in Nat PROVE Fenced(<<>>, n, n)
BY NumberNone DEF Fenced

LEMMA FenceAppend ==
    ASSUME NEW S, NEW q \in Seq(S), NEW m \in S,
           NEW lo \in Nat, NEW hi \in Nat, Fenced(q, lo, hi)
    PROVE  /\ m.kind # "fence" => Fenced(Append(q, m), lo, hi)
           /\ m.kind = "fence" /\ m.arg = hi + 1 => Fenced(Append(q, m), lo, hi + 1)
<1> DEFINE a == Append(q, m)
           b == Args(q)
           g == Longer(q, b, hi + 1)
<1>1. Numbered(q, "fence", lo, hi, b)
    BY DEF Fenced
<1> HIDE DEF b
<1>2. /\ m.kind # "fence" => Numbered(a, "fence", lo, hi, g)
      /\ m.kind = "fence" => Numbered(a, "fence", lo, hi + 1, g)
      /\ \A i \in Of("fence", a) :
            \/ i \in Of("fence", q) /\ g[i] = b[i] /\ a[i] = q[i]
            \/ g[i] = hi + 1 /\ a[i] = m /\ m.kind = "fence"
    <2>1. /\ m.kind # "fence" => Numbered(Append(q, m), "fence", lo, hi, Longer(q, b, hi + 1))
          /\ m.kind = "fence" => Numbered(Append(q, m), "fence", lo, hi + 1, Longer(q, b, hi + 1))
        BY <1>1, NumberAppend
    <2>2. ASSUME NEW i \in Of("fence", a)
          PROVE  \/ i \in Of("fence", q) /\ g[i] = b[i] /\ a[i] = q[i]
                 \/ g[i] = hi + 1 /\ a[i] = m /\ m.kind = "fence"
        <3> DEFINE l == Len(q)
        <3>1. l \in Nat /\ Len(a) = l + 1 /\ (\A j \in 1 .. l : a[j] = q[j]) /\ a[l + 1] = m
            BY AppendedTo
        <3>2. i \in 1 .. l + 1 /\ a[i].kind = "fence"
            BY <3>1 DEF Of
        <3>3. g[i] = IF i <= l THEN b[i] ELSE hi + 1
            BY <3>2 DEF Longer
        <3> HIDE DEF a, g
        <3>4. CASE i \in 1 .. l
            BY <3>1, <3>2, <3>3, <3>4 DEF Of
        <3>5. CASE i = l + 1
            BY <3>1, <3>2, <3>3, <3>5
        <3> QED
            BY <3>1, <3>2, <3>4, <3>5
    <2> QED
        BY <2>1, <2>2
<1>3. \A i \in Of("fence", q) : b[i] = q[i].arg
    BY ArgsOf DEF b
<1>4. \A i \in Of("fence", a) : Args(a)[i] = a[i].arg
    BY ArgsOf
<1> HIDE DEF a, g
<1>5. m.kind # "fence" \/ m.arg = hi + 1 => \A i \in Of("fence", a) : g[i] = Args(a)[i]
    BY <1>2, <1>3, <1>4
<1>6. /\ m.kind # "fence" => Fenced(a, lo, hi)
      /\ m.kind = "fence" /\ m.arg = hi + 1 => Fenced(a, lo, hi + 1)
    BY <1>2, <1>5, NumberSame DEF Fenced
<1> QED
    BY <1>6 DEF a

LEMMA FenceTail ==
    ASSUME NEW S, NEW q \in Seq(S), q # <<>>,
           NEW lo \in Nat, NEW hi \in Nat, Fenced(q, lo, hi)
    PROVE  /\ Head(q).kind # "fence" => Fenced(Tail(q), lo, hi)
           /\ Head(q).kind = "fence" =>
                Head(q).arg = lo + 1 /\ lo + 1 <= hi /\ Fenced(Tail(q), lo + 1, hi)
<1> DEFINE t == Tail(q)
           h == Head(q)
           g == Shorter(q, Args(q))
<1>1. Numbered(q, "fence", lo, hi, Args(q))
    BY DEF Fenced
<1>2. /\ h.kind # "fence" => Numbered(t, "fence", lo, hi, g)
      /\ h.kind = "fence" =>
            /\ 1 \in Of("fence", q) /\ Args(q)[1] = lo + 1 /\ lo + 1 <= hi
            /\ Numbered(t, "fence", lo + 1, hi, g)
      /\ \A i \in Of("fence", t) :
            i + 1 \in Of("fence", q) /\ g[i] = Args(q)[i + 1] /\ t[i] = q[i + 1]
    BY ZenonT(30), <1>1, NumberTail
<1>3. \A i \in Of("fence", q) : Args(q)[i] = q[i].arg
    BY ArgsOf
<1>4. \A i \in Of("fence", t) : Args(t)[i] = t[i].arg
    BY ArgsOf
<1>5. h = q[1]
    BY HeadTailProperties
<1> HIDE DEF t, g, h
<1>6. \A i \in Of("fence", t) : g[i] = Args(t)[i]
    BY <1>2, <1>3, <1>4
<1>7. /\ h.kind # "fence" => Fenced(t, lo, hi)
      /\ h.kind = "fence" => h.arg = lo + 1 /\ lo + 1 <= hi /\ Fenced(t, lo + 1, hi)
    BY <1>2, <1>3, <1>5, <1>6, NumberSame DEF Fenced
<1> QED
    BY <1>7 DEF t, h

(* The head of one queue goes to the end of the queue before it.           *)
LEMMA FenceMove ==
    ASSUME NEW S, NEW p \in Seq(S), NEW T, NEW q \in Seq(T), q # <<>>, Head(q) \in S,
           NEW lo \in Nat, NEW mid \in Nat, NEW hi \in Nat,
           Fenced(p, lo, mid), Fenced(q, mid, hi)
    PROVE  \E c \in Nat : Fenced(Append(p, Head(q)), lo, c) /\ Fenced(Tail(q), c, hi)
<1>1. CASE Head(q).kind # "fence"
    <2>1. Fenced(Append(p, Head(q)), lo, mid)
        BY <1>1, FenceAppend
    <2>2. Fenced(Tail(q), mid, hi)
        BY <1>1, FenceTail
    <2> QED
        BY <2>1, <2>2
<1>2. CASE Head(q).kind = "fence"
    <2>1. Head(q).arg = mid + 1 /\ Fenced(Tail(q), mid + 1, hi)
        BY <1>2, FenceTail
    <2>2. Fenced(Append(p, Head(q)), lo, mid + 1)
        BY <1>2, <2>1, FenceAppend
    <2> QED
        BY <2>1, <2>2
<1> QED
    BY <1>1, <1>2

LEMMA FencedIs ==
    ASSUME NEW q, NEW lo, NEW hi, Fenced(q, lo, hi)
    PROVE  /\ lo <= hi /\ \A i \in Of("fence", q) : q[i].arg \in lo + 1 .. hi
           /\ \A i, j \in Of("fence", q) : i < j => q[i].arg < q[j].arg
           /\ \A n \in lo + 1 .. hi : \E i \in Of("fence", q) : q[i].arg = n
<1> DEFINE b == Args(q)
<1>1. \A i \in Of("fence", q) : b[i] = q[i].arg
    BY ArgsOf
<1>2. Numbered(q, "fence", lo, hi, b)
    BY DEF Fenced
<1> HIDE DEF b
<1>3. /\ lo <= hi /\ \A i \in Of("fence", q) : b[i] \in lo + 1 .. hi
      /\ \A i, j \in Of("fence", q) : i < j => b[i] < b[j]
      /\ \A n \in lo + 1 .. hi : \E i \in Of("fence", q) : b[i] = n
    BY <1>2 DEF Numbered
<1>4. \A i \in Of("fence", q) : q[i].arg \in lo + 1 .. hi
    BY <1>1, <1>3
<1>5. \A i, j \in Of("fence", q) : i < j => q[i].arg < q[j].arg
    BY <1>1, <1>3
<1>6. \A n \in lo + 1 .. hi : \E i \in Of("fence", q) : q[i].arg = n
    BY <1>1, <1>3
<1> QED
    BY <1>3, <1>4, <1>5, <1>6

LEMMA FenceConcat ==
    ASSUME NEW S, NEW p \in Seq(S), NEW q \in Seq(S),
           NEW lo \in Nat, NEW mid \in Nat, NEW hi \in Nat,
           Fenced(p, lo, mid), Fenced(q, mid, hi)
    PROVE  Fenced(p \o q, lo, hi)
<1> DEFINE c == p \o q
           l == Len(p)
           n == Len(q)
<1>1. /\ c \in Seq(S) /\ Len(c) = l + n /\ l \in Nat /\ n \in Nat
      /\ \A i \in 1 .. Len(c) : c[i] = IF i <= l THEN p[i] ELSE q[i - l]
    BY ConcatProperties, LenProperties
<1>2. /\ \A i : i \in Of("fence", p) <=> i \in 1 .. l /\ p[i].kind = "fence"
      /\ \A i : i \in Of("fence", q) <=> i \in 1 .. n /\ q[i].kind = "fence"
      /\ \A i : i \in Of("fence", c) <=> i \in 1 .. l + n /\ c[i].kind = "fence"
    BY <1>1 DEF Of
<1>3. /\ \A i \in Of("fence", p) : Args(p)[i] = p[i].arg
      /\ \A i \in Of("fence", q) : Args(q)[i] = q[i].arg
      /\ \A i \in Of("fence", c) : Args(c)[i] = c[i].arg
    BY ArgsOf
<1> HIDE DEF c, l, n
<1>4. /\ lo <= mid /\ \A i \in Of("fence", p) : p[i].arg \in lo + 1 .. mid
      /\ \A i, j \in Of("fence", p) : i < j => p[i].arg < p[j].arg
      /\ \A x \in lo + 1 .. mid : \E i \in Of("fence", p) : p[i].arg = x
    BY SMTT(20), FencedIs
<1>5. /\ mid <= hi /\ \A i \in Of("fence", q) : q[i].arg \in mid + 1 .. hi
      /\ \A i, j \in Of("fence", q) : i < j => q[i].arg < q[j].arg
      /\ \A x \in mid + 1 .. hi : \E i \in Of("fence", q) : q[i].arg = x
    BY SMTT(20), FencedIs
<1>6. ASSUME NEW i \in Of("fence", c)
      PROVE  /\ i \in Nat
             /\ \/ i <= l /\ i \in Of("fence", p) /\ c[i].arg = p[i].arg
                \/ i > l /\ i - l \in Of("fence", q) /\ c[i].arg = q[i - l].arg
    <2>1. i \in 1 .. l + n /\ c[i].kind = "fence" /\ i \in Nat
        BY <1>1, <1>2
    <2>2. CASE i <= l
        BY <1>1, <1>2, <2>1, <2>2
    <2>3. CASE ~(i <= l)
        <3>1. i > l /\ i - l \in 1 .. n
            BY <1>1, <2>1, <2>3
        <3>2. c[i] = q[i - l]
            BY <1>1, <2>1, <2>3
        <3> QED
            BY <1>2, <2>1, <3>1, <3>2
    <2> QED
        BY <2>2, <2>3
<1>7. ASSUME NEW i \in Of("fence", p) PROVE i \in Of("fence", c) /\ c[i].arg = p[i].arg
    <2>1. i \in 1 .. l /\ i \in 1 .. l + n /\ p[i].kind = "fence"
        BY <1>1, <1>2
    <2>2. c[i] = p[i]
        BY <1>1, <2>1
    <2> QED
        BY <1>2, <2>1, <2>2
<1>8. ASSUME NEW i \in Of("fence", q) PROVE i + l \in Of("fence", c) /\ c[i + l].arg = q[i].arg
    <2>1. i \in 1 .. n /\ q[i].kind = "fence"
        BY <1>2
    <2>2. i + l \in 1 .. l + n /\ ~(i + l <= l) /\ (i + l) - l = i
        BY <1>1, <2>1
    <2>3. c[i + l] = q[i]
        BY <1>1, <2>2
    <2> QED
        BY <1>2, <2>1, <2>2, <2>3
<1>9. \A i \in Of("fence", c) : c[i].arg \in lo + 1 .. hi
    <2> SUFFICES ASSUME NEW i \in Of("fence", c) PROVE c[i].arg \in lo + 1 .. hi
        OBVIOUS
    <2>1. c[i].arg \in lo + 1 .. mid \/ c[i].arg \in mid + 1 .. hi
        BY <1>4, <1>5, <1>6
    <2> QED
        BY <1>4, <1>5, <2>1
<1>10. \A i, j \in Of("fence", c) : i < j => c[i].arg < c[j].arg
    <2> SUFFICES ASSUME NEW i \in Of("fence", c), NEW j \in Of("fence", c), i < j
                 PROVE  c[i].arg < c[j].arg
        OBVIOUS
    <2>1. CASE j <= l
        <3>1. i <= l /\ i \in Nat /\ j \in Nat
            BY <1>1, <1>6, <2>1
        <3> QED
            BY <1>1, <1>4, <1>6, <2>1, <3>1
    <2>2. CASE i > l
        <3>1. j > l /\ i - l < j - l /\ i \in Nat /\ j \in Nat
            BY <1>1, <1>6, <2>2
        <3>2. /\ i - l \in Of("fence", q) /\ c[i].arg = q[i - l].arg
              /\ j - l \in Of("fence", q) /\ c[j].arg = q[j - l].arg
            BY <1>1, <1>6, <2>2, <3>1
        <3> QED
            BY <1>5, <3>1, <3>2
    <2>3. CASE i <= l /\ j > l
        <3>1. i \in Of("fence", p) /\ c[i].arg = p[i].arg
            BY <1>1, <1>6, <2>3
        <3>2. j - l \in Of("fence", q) /\ c[j].arg = q[j - l].arg
            BY <1>1, <1>6, <2>3
        <3>3. c[i].arg \in lo + 1 .. mid
            BY <1>4, <3>1
        <3>4. c[j].arg \in mid + 1 .. hi
            BY <1>5, <3>2
        <3> QED
            BY <3>3, <3>4
    <2> QED
        BY <1>1, <1>6, <2>1, <2>2, <2>3
<1>11. \A x \in lo + 1 .. hi : \E i \in Of("fence", c) : c[i].arg = x
    <2> SUFFICES ASSUME NEW x \in lo + 1 .. hi PROVE \E i \in Of("fence", c) : c[i].arg = x
        OBVIOUS
    <2>1. CASE x \in lo + 1 .. mid
        BY <1>4, <1>7, <2>1
    <2>2. CASE x \in mid + 1 .. hi
        BY <1>5, <1>8, <2>2
    <2> QED
        BY <2>1, <2>2
<1>12. Fenced(c, lo, hi)
    <2> DEFINE d == Args(c)
    <2>1. \A i \in Of("fence", c) : d[i] = c[i].arg
        BY <1>3
    <2> HIDE DEF d
    <2>2. lo <= hi
        BY <1>4, <1>5
    <2>3. /\ \A i \in Of("fence", c) : d[i] \in lo + 1 .. hi
          /\ \A i, j \in Of("fence", c) : i < j => d[i] < d[j]
        BY <1>9, <1>10, <2>1
    <2>4. \A x \in lo + 1 .. hi : \E i \in Of("fence", c) : d[i] = x
        BY <1>11, <2>1
    <2>5. Numbered(c, "fence", lo, hi, d)
        BY <2>2, <2>3, <2>4 DEF Numbered
    <2> QED
        BY <2>5 DEF Fenced, d
<1> QED
    BY <1>12 DEF c

-----------------------------------------------------------------------------
(* Requests are numbered as they were asked, and so are their answers,     *)
(* each of which gives the text it was asked for or a later one.           *)
Wanted(q, lo, hi) == \E f : Numbered(q, "request", lo, hi, f)
Answering(q, lo, hi, asked) ==
    \E f : /\ Numbered(q, "answer", lo, hi, f)
           /\ \A i \in Of("answer", q) : q[i].arg >= asked[f[i]]

LEMMA WantNone == ASSUME NEW n \in Nat PROVE Wanted(<<>>, n, n)
BY NumberNone DEF Wanted

LEMMA WantAppend ==
    ASSUME NEW S, NEW q \in Seq(S), NEW m \in S,
           NEW lo \in Nat, NEW hi \in Nat, Wanted(q, lo, hi)
    PROVE  /\ m.kind # "request" => Wanted(Append(q, m), lo, hi)
           /\ m.kind = "request" => Wanted(Append(q, m), lo, hi + 1)
<1>1. PICK f : Numbered(q, "request", lo, hi, f)
    BY DEF Wanted
<1>2. /\ m.kind # "request" =>
            Numbered(Append(q, m), "request", lo, hi, Longer(q, f, hi + 1))
      /\ m.kind = "request" =>
            Numbered(Append(q, m), "request", lo, hi + 1, Longer(q, f, hi + 1))
    BY <1>1, NumberAppend
<1> QED
    BY <1>2 DEF Wanted

LEMMA WantTail ==
    ASSUME NEW S, NEW q \in Seq(S), q # <<>>,
           NEW lo \in Nat, NEW hi \in Nat, Wanted(q, lo, hi)
    PROVE  /\ Head(q).kind # "request" => Wanted(Tail(q), lo, hi)
           /\ Head(q).kind = "request" => lo + 1 <= hi /\ Wanted(Tail(q), lo + 1, hi)
<1>1. PICK f : Numbered(q, "request", lo, hi, f)
    BY DEF Wanted
<1> DEFINE t == Tail(q)
           h == Head(q)
           g == Shorter(q, f)
<1>2. /\ h.kind # "request" => Numbered(t, "request", lo, hi, g)
      /\ h.kind = "request" =>
            /\ 1 \in Of("request", q) /\ f[1] = lo + 1 /\ lo + 1 <= hi
            /\ Numbered(t, "request", lo + 1, hi, g)
      /\ \A i \in Of("request", t) :
            i + 1 \in Of("request", q) /\ g[i] = f[i + 1] /\ t[i] = q[i + 1]
    BY ZenonT(30), <1>1, NumberTail
<1> HIDE DEF t, g, h
<1>3. /\ h.kind # "request" => Wanted(t, lo, hi)
      /\ h.kind = "request" => lo + 1 <= hi /\ Wanted(t, lo + 1, hi)
    BY <1>2 DEF Wanted
<1> QED
    BY <1>3 DEF t, h

LEMMA WantMove ==
    ASSUME NEW S, NEW p \in Seq(S), NEW q \in Seq(S), q # <<>>, Head(q) \in S,
           NEW lo \in Nat, NEW mid \in Nat, NEW hi \in Nat,
           Wanted(p, lo, mid), Wanted(q, mid, hi)
    PROVE  \E c \in Nat : Wanted(Append(p, Head(q)), lo, c) /\ Wanted(Tail(q), c, hi)
<1>1. CASE Head(q).kind # "request"
    BY <1>1, WantAppend, WantTail
<1>2. CASE Head(q).kind = "request"
    <2>1. Wanted(Append(p, Head(q)), lo, mid + 1) /\ Wanted(Tail(q), mid + 1, hi)
        BY <1>2, WantAppend, WantTail
    <2> QED
        BY <2>1
<1> QED
    BY <1>1, <1>2

LEMMA AnswerNone == ASSUME NEW n \in Nat, NEW asked PROVE Answering(<<>>, n, n, asked)
<1>1. Of("answer", <<>>) = {}
    BY DEF Of
<1>2. Numbered(<<>>, "answer", n, n, <<>>)
    BY NumberNone
<1> QED
    BY <1>1, <1>2 DEF Answering

LEMMA AnswerAppend ==
    ASSUME NEW S, NEW q \in Seq(S), NEW m \in S, NEW asked,
           NEW lo \in Nat, NEW hi \in Nat, Answering(q, lo, hi, asked)
    PROVE  /\ m.kind # "answer" => Answering(Append(q, m), lo, hi, asked)
           /\ m.kind = "answer" /\ m.arg >= asked[hi + 1] =>
                Answering(Append(q, m), lo, hi + 1, asked)
<1>1. PICK f : /\ Numbered(q, "answer", lo, hi, f)
               /\ \A i \in Of("answer", q) : q[i].arg >= asked[f[i]]
    BY DEF Answering
<1> DEFINE a == Append(q, m)
           g == Longer(q, f, hi + 1)
<1>2. /\ m.kind # "answer" => Numbered(a, "answer", lo, hi, g)
      /\ m.kind = "answer" => Numbered(a, "answer", lo, hi + 1, g)
    BY <1>1, NumberAppend
<1>3. ASSUME NEW i \in Of("answer", a), m.kind # "answer" \/ m.arg >= asked[hi + 1]
      PROVE  a[i].arg >= asked[g[i]]
    <2> DEFINE l == Len(q)
    <2>1. l \in Nat /\ Len(a) = l + 1 /\ (\A j \in 1 .. l : a[j] = q[j]) /\ a[l + 1] = m
        BY AppendedTo
    <2>2. i \in 1 .. l + 1 /\ a[i].kind = "answer"
        BY <2>1 DEF Of
    <2>3. g[i] = IF i <= l THEN f[i] ELSE hi + 1
        BY <2>2 DEF Longer
    <2> HIDE DEF a, g
    <2>4. CASE i \in 1 .. l
        <3>1. a[i] = q[i] /\ g[i] = f[i] /\ i \in Of("answer", q)
            BY <2>1, <2>2, <2>3, <2>4 DEF Of
        <3> QED
            BY <1>1, <3>1
    <2>5. CASE i = l + 1
        BY <1>3, <2>1, <2>2, <2>3, <2>5
    <2> QED
        BY <2>1, <2>2, <2>4, <2>5
<1> HIDE DEF a, g
<1>4. /\ m.kind # "answer" => Answering(a, lo, hi, asked)
      /\ m.kind = "answer" /\ m.arg >= asked[hi + 1] => Answering(a, lo, hi + 1, asked)
    BY <1>2, <1>3 DEF Answering
<1> QED
    BY <1>4 DEF a

LEMMA AnswerTail ==
    ASSUME NEW S, NEW q \in Seq(S), q # <<>>, NEW asked,
           NEW lo \in Nat, NEW hi \in Nat, Answering(q, lo, hi, asked)
    PROVE  /\ Head(q).kind # "answer" => Answering(Tail(q), lo, hi, asked)
           /\ Head(q).kind = "answer" =>
                /\ Head(q).arg >= asked[lo + 1] /\ lo + 1 <= hi
                /\ Answering(Tail(q), lo + 1, hi, asked)
<1>1. PICK f : /\ Numbered(q, "answer", lo, hi, f)
               /\ \A i \in Of("answer", q) : q[i].arg >= asked[f[i]]
    BY DEF Answering
<1> DEFINE t == Tail(q)
           h == Head(q)
           g == Shorter(q, f)
<1>2. /\ h.kind # "answer" => Numbered(t, "answer", lo, hi, g)
      /\ h.kind = "answer" =>
            /\ 1 \in Of("answer", q) /\ f[1] = lo + 1 /\ lo + 1 <= hi
            /\ Numbered(t, "answer", lo + 1, hi, g)
      /\ \A i \in Of("answer", t) :
            i + 1 \in Of("answer", q) /\ g[i] = f[i + 1] /\ t[i] = q[i + 1]
    BY ZenonT(30), <1>1, NumberTail
<1>3. h = q[1]
    BY HeadTailProperties
<1> HIDE DEF t, g, h
<1>4. \A i \in Of("answer", t) : t[i].arg >= asked[g[i]]
    BY <1>1, <1>2
<1>5. h.kind = "answer" => h.arg >= asked[lo + 1]
    BY <1>1, <1>2, <1>3
<1>6. /\ h.kind # "answer" => Answering(t, lo, hi, asked)
      /\ h.kind = "answer" =>
            h.arg >= asked[lo + 1] /\ lo + 1 <= hi /\ Answering(t, lo + 1, hi, asked)
    BY <1>2, <1>4, <1>5 DEF Answering
<1> QED
    BY <1>6 DEF t, h

LEMMA AnswerMove ==
    ASSUME NEW S, NEW p \in Seq(S), NEW T, NEW q \in Seq(T), q # <<>>, Head(q) \in S, NEW asked,
           NEW lo \in Nat, NEW mid \in Nat, NEW hi \in Nat,
           Answering(p, lo, mid, asked), Answering(q, mid, hi, asked)
    PROVE  \E c \in Nat : /\ Answering(Append(p, Head(q)), lo, c, asked)
                          /\ Answering(Tail(q), c, hi, asked)
                          /\ c <= hi
<1>1. CASE Head(q).kind # "answer"
    <2>1. Answering(Append(p, Head(q)), lo, mid, asked)
        BY <1>1, AnswerAppend
    <2>2. Answering(Tail(q), mid, hi, asked)
        BY <1>1, AnswerTail
    <2>3. mid <= hi
        BY DEF Answering, Numbered
    <2> QED
        BY <2>1, <2>2, <2>3
<1>2. CASE Head(q).kind = "answer"
    <2>1. /\ Head(q).arg >= asked[mid + 1] /\ mid + 1 <= hi
          /\ Answering(Tail(q), mid + 1, hi, asked)
        BY <1>2, AnswerTail
    <2>2. Answering(Append(p, Head(q)), lo, mid + 1, asked)
        BY <1>2, <2>1, AnswerAppend
    <2> QED
        BY <2>1, <2>2
<1> QED
    BY <1>1, <1>2

(* To be asked again changes nothing about the answers to earlier requests. *)
LEMMA AskedAgain ==
    ASSUME NEW S, NEW asked \in Seq(S), NEW n \in S, NEW q,
           NEW lo \in Nat, NEW hi \in Nat, hi <= Len(asked), Answering(q, lo, hi, asked)
    PROVE  Answering(q, lo, hi, Append(asked, n))
<1>1. PICK f : /\ Numbered(q, "answer", lo, hi, f)
               /\ \A i \in Of("answer", q) : q[i].arg >= asked[f[i]]
    BY DEF Answering
<1> DEFINE b == Append(asked, n)
<1>2. Len(asked) \in Nat /\ \A i \in 1 .. Len(asked) : b[i] = asked[i]
    BY AppendedTo
<1> HIDE DEF b
<1>3. ASSUME NEW i \in Of("answer", q) PROVE b[f[i]] = asked[f[i]]
    <2>1. f[i] \in lo + 1 .. hi
        BY <1>1 DEF Numbered
    <2>2. f[i] \in 1 .. Len(asked)
        BY <1>2, <2>1
    <2> QED
        BY <1>2, <2>2
<1>4. Answering(q, lo, hi, b)
    BY <1>1, <1>3 DEF Answering
<1> QED
    BY <1>4 DEF b

-----------------------------------------------------------------------------
(* What travels each way.                                                  *)
Texts == 1 .. MaxPastes
FenceMessage == [kind : {"fence"}, arg : Nat]
Reply == FenceMessage \cup [kind : {"enable"}, arg : Sizes]
         \cup [kind : {"caps", "request"}, arg : {0}] \cup [kind : {"answer"}, arg : Texts]
Upward == Reply \cup [kind : {"text", "provide", "notify"}, arg : Texts]
          \cup [kind : {"key"}, arg : {"up", "down"}]
Downward == FenceMessage \cup [kind : {"size"}, arg : Sizes \cup {Zero}, stands : BOOLEAN]
            \cup [kind : {"end of pushing", "notify", "request", "error"}, arg : {0}]
            \cup [kind : {"caps"}, arg : Caps]
Inputs == [kind : {"paste"}, arg : Texts, small : BOOLEAN]
          \cup [kind : {"key"}, arg : {"up", "down"}, small : {FALSE}]

SessionSet == [at : {"select", "send", "leaving", "closed"}, input : Inputs \cup {None},
               held : BOOLEAN, pastes : 0 .. MaxPastes]
StateSet == [outbox : Seq(Reply), size : Sizes, pushingFor : Sizes \cup {None},
             caps : Caps, announced : 0 .. MaxPastes]
ServerSet == [said : Nat, size : Sizes \cup {Zero}, pushing : Sizes \cup {None},
              pushes : BOOLEAN, fenced : Nat, echoed : Nat, agreed : BOOLEAN,
              notified : 0 .. MaxPastes, asked : Seq(Texts), answers : Seq(Texts),
              keyDown : BOOLEAN, gone : BOOLEAN]

Typed ==
    /\ session \in SessionSet /\ state \in StateSet /\ server \in ServerSet
    /\ screen \in Sizes \cup {Zero} /\ writer \in {"running", "stopped"}
    /\ inCh \in Seq(Upward) /\ toServer \in Seq(Upward)
    /\ outCh \in Seq(Downward) /\ toClient \in Seq(Downward)
Short ==
    /\ Len(inCh) <= Room /\ Len(outCh) <= Room
    /\ Len(toServer) <= Wire /\ Len(toClient) <= Wire

(* Fences: from the last echo the server heard to the last fence it sent.  *)
Ordered ==
    Live => \E c1, c2, c3, c4 \in Nat :
        /\ Fenced(toServer, server.echoed, c1) /\ Fenced(inCh, c1, c2)
        /\ Fenced(state.outbox, c2, c3)
        /\ Fenced(outCh, c3, c4) /\ Fenced(toClient, c4, server.fenced)

(* Until our caps arrive they are ahead of whatever needs them, and the    *)
(* server has no cause to ask for anything that does.                      *)
Extended == {"request", "notify", "provide", "answer"}
Has(kinds, q) == \E i \in 1 .. Len(q) : q[i].kind \in kinds
Ready(q) == \A i \in 1 .. Len(q) :
    q[i].kind \in Extended => \E j \in 1 .. i - 1 : q[j].kind = "caps"
CapsOut ==
    Has({"caps"}, toServer) \/ Has({"caps"}, inCh) \/ Has({"caps"}, state.outbox)
CapsAhead ==
    ~server.agreed =>
        /\ Ready(toServer) /\ (Has({"caps"}, toServer) \/ Ready(inCh))
        /\ ~Has(Extended, state.outbox)
        /\ ~Has({"notify", "request"}, outCh) /\ ~Has({"notify", "request"}, toClient)
        /\ server.notified = 0
        /\ Live /\ (state.caps # "none" \/ state.announced # 0) => CapsOut

(* Texts are numbered in the order they are pasted, and none is known to   *)
(* the server that is later than the one announced last.                   *)
Tells(q, n) == \A i \in Of("notify", q) : q[i].arg <= n
Growing ==
    /\ state.announced <= session.pastes
    /\ session.input # None /\ session.input.kind = "paste" =>
            session.input.arg = session.pastes
    /\ server.notified <= state.announced
    /\ \A i \in 1 .. Len(server.asked) : server.asked[i] <= state.announced
    /\ Tells(toServer, state.announced) /\ Tells(inCh, state.announced)
    /\ session.pastes # 0 => ClipboardWanted

(* Requests: from the last answer the server got to the last one it made.  *)
(* Once the writer is gone the answers on the wire are the last.           *)
Paired ==
    \E c1 \in Nat :
        /\ c1 <= Len(server.asked)
        /\ Answering(toServer, Len(server.answers), c1, server.asked)
        /\ Live => \E c2, c3, c4 \in Nat :
            /\ Answering(inCh, c1, c2, server.asked)
            /\ Answering(state.outbox, c2, c3, server.asked)
            /\ Wanted(outCh, c3, c4) /\ Wanted(toClient, c4, Len(server.asked))

(* A closed client has no writer.                                          *)
Stopped == session.at = "closed" => writer = "stopped"

BInv == Typed /\ Short /\ Ordered /\ CapsAhead /\ Growing /\ Paired
        /\ Stopped /\ SizesAgree /\ AnswersAnnounced

-----------------------------------------------------------------------------
(* What a queue holds, message by message.                                 *)
LEMMA HasAppend ==
    ASSUME NEW S, NEW q \in Seq(S), NEW m \in S, NEW kinds
    PROVE  /\ Append(q, m) \in Seq(S)
           /\ Has(kinds, Append(q, m)) <=> Has(kinds, q) \/ m.kind \in kinds
<1> DEFINE a == Append(q, m)
<1>1. /\ a \in Seq(S) /\ Len(a) = Len(q) + 1 /\ Len(q) \in Nat
      /\ \A i \in 1 .. Len(q) : a[i] = q[i]
      /\ a[Len(q) + 1] = m
    BY AppendProperties, LenProperties
<1> HIDE DEF a
<1>2. /\ \A i \in 1 .. Len(q) : i \in 1 .. Len(a)
      /\ Len(q) + 1 \in 1 .. Len(a)
      /\ \A i \in 1 .. Len(a) : i \in 1 .. Len(q) \/ i = Len(q) + 1
    BY <1>1
<1>3. Has(kinds, a) <=> Has(kinds, q) \/ m.kind \in kinds
    BY <1>1, <1>2 DEF Has
<1> QED
    BY <1>1, <1>3 DEF a

LEMMA HasTail ==
    ASSUME NEW S, NEW q \in Seq(S), q # <<>>, NEW kinds
    PROVE  /\ Tail(q) \in Seq(S) /\ Head(q) \in S
           /\ Has(kinds, q) <=> Head(q).kind \in kinds \/ Has(kinds, Tail(q))
<1> DEFINE t == Tail(q)
<1>1. /\ t \in Seq(S) /\ Len(t) = Len(q) - 1 /\ Len(q) \in Nat /\ Len(q) > 0
      /\ \A i \in 1 .. Len(t) : t[i] = q[i + 1]
      /\ Head(q) = q[1] /\ Head(q) \in S
    BY HeadTailProperties, EmptySeq, LenProperties
<1> HIDE DEF t
<1>2. ASSUME Has(kinds, q) PROVE Head(q).kind \in kinds \/ Has(kinds, t)
    <2>1. PICK i \in 1 .. Len(q) : q[i].kind \in kinds
        BY <1>2 DEF Has
    <2>2. CASE i = 1
        BY <1>1, <2>1, <2>2
    <2>3. CASE i # 1
        <3>1. i - 1 \in 1 .. Len(t) /\ t[i - 1] = q[i]
            BY <1>1, <2>3
        <3> QED
            BY <2>1, <3>1 DEF Has
    <2> QED
        BY <2>2, <2>3
<1>3. Head(q).kind \in kinds => Has(kinds, q)
    BY <1>1 DEF Has
<1>4. ASSUME Has(kinds, t) PROVE Has(kinds, q)
    <2>1. PICK i \in 1 .. Len(t) : t[i].kind \in kinds
        BY <1>4 DEF Has
    <2>2. i + 1 \in 1 .. Len(q) /\ q[i + 1] = t[i]
        BY <1>1
    <2> QED
        BY <2>1, <2>2 DEF Has
<1> QED
    BY <1>1, <1>2, <1>3, <1>4 DEF t

LEMMA HasNone == ASSUME NEW kinds PROVE ~Has(kinds, <<>>)
BY DEF Has

LEMMA ReadyNone == Ready(<<>>)
BY DEF Ready

LEMMA ReadyAppend ==
    ASSUME NEW S, NEW q \in Seq(S), NEW m \in S, Ready(q),
           m.kind \notin Extended \/ Has({"caps"}, q)
    PROVE  Ready(Append(q, m))
<1> DEFINE a == Append(q, m)
           l == Len(q)
<1>1. l \in Nat /\ Len(a) = l + 1 /\ (\A i \in 1 .. l : a[i] = q[i]) /\ a[l + 1] = m
    BY AppendedTo
<1> HIDE DEF a, l
<1>2. SUFFICES ASSUME NEW i \in 1 .. Len(a), a[i].kind \in Extended
               PROVE  \E j \in 1 .. i - 1 : a[j].kind = "caps"
    BY DEF Ready, a
<1>3. CASE i \in 1 .. l
    <2>1. a[i] = q[i] /\ i \in 1 .. Len(q)
        BY <1>1, <1>3 DEF l
    <2>2. PICK j \in 1 .. i - 1 : q[j].kind = "caps"
        BY <1>2, <2>1 DEF Ready
    <2>3. j \in 1 .. l
        BY <1>1, <1>3
    <2> QED
        BY <1>1, <2>2, <2>3
<1>4. CASE i = l + 1
    <2>1. PICK j \in 1 .. l : q[j].kind = "caps"
        BY <1>1, <1>2, <1>4 DEF Has, l
    <2>2. j \in 1 .. i - 1 /\ a[j] = q[j]
        BY <1>1, <1>4
    <2> QED
        BY <2>1, <2>2
<1> QED
    BY <1>1, <1>2, <1>3, <1>4

LEMMA ReadyTail ==
    ASSUME NEW S, NEW q \in Seq(S), q # <<>>, Ready(q)
    PROVE  /\ Head(q).kind \notin Extended
           /\ Head(q).kind # "caps" => Ready(Tail(q))
<1> DEFINE t == Tail(q)
           l == Len(q)
           h == Head(q)
<1>1. /\ l \in Nat /\ l > 0 /\ Len(t) = l - 1
      /\ \A i \in 1 .. l - 1 : t[i] = q[i + 1]
      /\ h = q[1]
    BY HeadTailProperties, EmptySeq, LenProperties
<1>2. \A i \in 1 .. l : q[i].kind \in Extended => \E j \in 1 .. i - 1 : q[j].kind = "caps"
    BY DEF Ready
<1> HIDE DEF t, l, h
<1>3. h.kind \notin Extended
    <2>1. 1 \in 1 .. l /\ ~\E j \in 1 .. 1 - 1 : TRUE
        BY <1>1
    <2> QED
        BY <1>1, <1>2, <2>1
<1>4. ASSUME h.kind # "caps", NEW i \in 1 .. Len(t), t[i].kind \in Extended
      PROVE  \E j \in 1 .. i - 1 : t[j].kind = "caps"
    <2>1. i + 1 \in 1 .. l /\ q[i + 1] = t[i] /\ i \in Nat
        BY <1>1
    <2>2. PICK j \in 1 .. (i + 1) - 1 : q[j].kind = "caps"
        BY <1>2, <1>4, <2>1
    <2>3. j # 1
        BY <1>1, <1>4, <2>2
    <2>4. j - 1 \in 1 .. i - 1 /\ j - 1 \in 1 .. l - 1 /\ (j - 1) + 1 = j
        BY <1>1, <2>1, <2>2, <2>3
    <2>5. t[j - 1] = q[j]
        BY <1>1, <2>4
    <2> QED
        BY <2>2, <2>4, <2>5
<1>5. h.kind # "caps" => Ready(t)
    BY <1>4 DEF Ready
<1> QED
    BY <1>3, <1>5 DEF h, t

LEMMA TellAppend ==
    ASSUME NEW S, NEW q \in Seq(S), NEW m \in S, NEW n, Tells(q, n),
           m.kind = "notify" => m.arg <= n
    PROVE  Tells(Append(q, m), n)
<1> DEFINE a == Append(q, m)
           l == Len(q)
<1>1. l \in Nat /\ Len(a) = l + 1 /\ (\A i \in 1 .. l : a[i] = q[i]) /\ a[l + 1] = m
    BY AppendedTo
<1> HIDE DEF a, l
<1>2. ASSUME NEW i \in 1 .. Len(a), a[i].kind = "notify" PROVE a[i].arg <= n
    <2>1. CASE i \in 1 .. l
        <3>1. a[i] = q[i] /\ i \in 1 .. Len(q)
            BY <1>1, <2>1 DEF l
        <3> QED
            BY <1>2, <3>1 DEF Tells, Of
    <2>2. CASE i = l + 1
        BY <1>1, <1>2, <2>2
    <2> QED
        BY <1>1, <2>1, <2>2
<1>3. Tells(a, n)
    BY <1>2 DEF Tells, Of
<1> QED
    BY <1>3 DEF a

LEMMA TellTail ==
    ASSUME NEW S, NEW q \in Seq(S), q # <<>>, NEW n, Tells(q, n)
    PROVE  /\ Head(q).kind = "notify" => Head(q).arg <= n
           /\ Tells(Tail(q), n)
<1> DEFINE t == Tail(q)
           l == Len(q)
           h == Head(q)
<1>1. /\ l \in Nat /\ l > 0 /\ Len(t) = l - 1
      /\ \A i \in 1 .. l - 1 : t[i] = q[i + 1]
      /\ h = q[1]
    BY HeadTailProperties, EmptySeq, LenProperties
<1>2. \A i \in 1 .. l : q[i].kind = "notify" => q[i].arg <= n
    BY DEF Tells, Of
<1> HIDE DEF t, l, h
<1>3. h.kind = "notify" => h.arg <= n
    BY <1>1, <1>2
<1>4. ASSUME NEW i \in 1 .. Len(t), t[i].kind = "notify" PROVE t[i].arg <= n
    <2>1. i + 1 \in 1 .. l /\ q[i + 1] = t[i]
        BY <1>1
    <2> QED
        BY <1>2, <1>4, <2>1
<1>5. Tells(t, n)
    BY <1>4 DEF Tells, Of
<1> QED
    BY <1>3, <1>5 DEF h, t

LEMMA TellMore ==
    ASSUME NEW S, NEW q \in Seq(S), NEW n \in Nat, NEW m \in Nat, n <= m, Tells(q, n),
           \A i \in 1 .. Len(q) : q[i].kind = "notify" => q[i].arg \in Nat
    PROVE  Tells(q, m)
<1>1. ASSUME NEW i \in Of("notify", q) PROVE q[i].arg <= m
    <2>1. i \in 1 .. Len(q) /\ q[i].kind = "notify" /\ q[i].arg <= n
        BY DEF Of, Tells
    <2> QED
        BY <2>1
<1> QED
    BY <1>1 DEF Tells

-----------------------------------------------------------------------------
(* What the two sides say to each other is what travels.                   *)
LEMMA ReportIs ==
    ASSUME NEW s \in Sizes \cup {Zero}
    PROVE  /\ Report(s, TRUE) \in Downward /\ Report(s, FALSE) \in Downward
           /\ Report(s, TRUE).kind = "size" /\ Report(s, FALSE).kind = "size"
<1>1. Report(s, TRUE) \in [kind : {"size"}, arg : Sizes \cup {Zero}, stands : BOOLEAN]
    BY DEF Report
<1>2. Report(s, FALSE) \in [kind : {"size"}, arg : Sizes \cup {Zero}, stands : BOOLEAN]
    BY DEF Report
<1> QED
    BY <1>1, <1>2 DEF Downward

(* The invariant holds at the start.                                       *)
LEMMA Beginning == Init => BInv
<1> SUFFICES ASSUME Init PROVE BInv
    OBVIOUS
<1> USE BackendConstants
<1> DEFINE m == Report(First, TRUE)
<1>11. m \in Downward /\ m.kind = "size"
    BY ReportIs
<1>12. outCh = <<m>>
    BY DEF Init
<1> HIDE DEF m
<1>13. outCh = Append(<<>>, m) /\ outCh \in Seq(Downward) /\ <<>> \in Seq(Downward)
    BY <1>11, <1>12
<1>1. Typed
    <2>1. session \in SessionSet
        BY DEF Init, SessionSet
    <2>2. state \in StateSet
        BY DEF Init, StateSet, Caps
    <2>3. server \in ServerSet
        BY DEF Init, ServerSet
    <2>5. /\ inCh = <<>> /\ toServer = <<>> /\ toClient = <<>>
          /\ \A S : <<>> \in Seq(S)
        BY DEF Init
    <2>6. outCh \in Seq(Downward)
        BY <1>13
    <2>7. screen \in Sizes \cup {Zero} /\ writer \in {"running", "stopped"}
        BY DEF Init
    <2> QED
        BY <2>1, <2>2, <2>3, <2>5, <2>6, <2>7, <1>12 DEF Typed
<1>2. Short
    <2>1. Len(outCh) = 1 /\ Len(inCh) = 0 /\ Len(toServer) = 0 /\ Len(toClient) = 0
        BY <1>12 DEF Init
    <2> QED
        BY <2>1 DEF Short
<1>3. /\ toServer = <<>> /\ inCh = <<>> /\ state.outbox = <<>> /\ toClient = <<>>
      /\ server.echoed = 0 /\ server.fenced = 0 /\ server.asked = <<>>
      /\ server.answers = <<>> /\ ~server.agreed /\ server.notified = 0
    BY DEF Init
<1>5. Fenced(outCh, 0, 0) /\ Wanted(outCh, 0, 0)
    <2>1. Fenced(<<>>, 0, 0) /\ Wanted(<<>>, 0, 0)
        BY FenceNone, WantNone
    <2> QED
        BY <1>11, <1>13, <2>1, FenceAppend, WantAppend
<1>6. Ordered
    BY <1>3, <1>5, FenceNone DEF Ordered
<1>7. CapsAhead
    <2>1. ~Has({"notify", "request"}, outCh)
        <3>1. ~Has({"notify", "request"}, <<>>)
            BY HasNone
        <3>2. m.kind \notin {"notify", "request"}
            BY <1>11
        <3> QED
            BY <1>11, <1>13, <3>1, <3>2, HasAppend
    <2>2. state.caps = "none" /\ state.announced = 0
        BY DEF Init
    <2> QED
        BY <1>3, <2>1, <2>2, HasNone, ReadyNone DEF CapsAhead
<1>8. Growing
    <2>1. Tells(<<>>, 0)
        BY DEF Tells, Of
    <2> QED
        BY <2>1 DEF Init, Growing
<1>9. Paired
    <2>1. Len(server.asked) = 0 /\ Len(server.answers) = 0
        BY <1>3
    <2>2. Answering(<<>>, 0, 0, server.asked)
        BY AnswerNone
    <2> QED
        BY <1>3, <1>5, <2>1, <2>2, WantNone DEF Paired
<1>10. Stopped /\ SizesAgree /\ AnswersAnnounced
    BY DEF Init, Stopped, SizesAgree, AnswersAnnounced
<1> QED
    BY <1>1, <1>2, <1>6, <1>7, <1>8, <1>9, <1>10 DEF BInv

(* Only the session moves, and it is not closed.                           *)
LEMMA SessionOnly ==
    ASSUME BInv, UNCHANGED <<state, screen, channels, server>>,
           session' \in SessionSet, session.pastes <= session'.pastes,
           session'.input # None /\ session'.input.kind = "paste" =>
                session'.input.arg = session'.pastes,
           session'.at # "closed",
           session'.pastes # session.pastes => ClipboardWanted
    PROVE  BInv'
<1>1. /\ UNCHANGED <<state, screen, inCh, outCh, writer, toServer, toClient, server>>
      /\ Live' => Live
    BY DEF BInv, Stopped, channels, Live
<1>2. Typed' /\ Short'
    BY <1>1 DEF BInv, Typed, Short
<1>3. Ordered' /\ Paired'
    BY <1>1 DEF BInv, Ordered, Paired
<1>4. CapsAhead'
    BY <1>1 DEF BInv, CapsAhead, CapsOut
<1>5. Growing'
    <2>1. state.announced \in Nat /\ session.pastes \in Nat /\ session'.pastes \in Nat
        BY BackendConstants DEF BInv, Typed, StateSet, SessionSet
    <2> QED
        BY <1>1, <2>1 DEF BInv, Growing
<1>6. Stopped' /\ SizesAgree' /\ AnswersAnnounced'
    BY <1>1 DEF BInv, Stopped, SizesAgree, AnswersAnnounced
<1> QED
    BY <1>2, <1>3, <1>4, <1>5, <1>6 DEF BInv

LEMMA LeftIs ==
    ASSUME session \in SessionSet
    PROVE  /\ Left \in SessionSet /\ Left.pastes = session.pastes /\ Left.at = "leaving"
           /\ Left.input = None \/ Left.input.kind = "key"
BY DEF Left, SessionSet, KeyUp, Input, Inputs

LEMMA CommandKeeps == BInv /\ Command => BInv'
<1> SUFFICES ASSUME BInv, Command PROVE BInv'
    OBVIOUS
<1>1. session \in SessionSet /\ session.at = "select" /\ MaxPastes \in Nat
    BY BackendConstants DEF BInv, Typed, Command
<1>2. ASSUME NEW small \in BOOLEAN, session.pastes < MaxPastes,
             session' = [session EXCEPT !.at = "send", !.pastes = @ + 1,
                         !.input = Input("paste", session.pastes + 1, small)]
      PROVE  /\ session' \in SessionSet /\ session.pastes <= session'.pastes
             /\ session'.at = "send" /\ session'.input.arg = session'.pastes
    <2>1. session.pastes \in 0 .. MaxPastes /\ session.pastes + 1 \in 0 .. MaxPastes
        BY <1>1, <1>2 DEF SessionSet
    <2>2. Input("paste", session.pastes + 1, small) \in Inputs
        BY <1>2, <2>1 DEF Input, Inputs, Texts
    <2>3. session' \in SessionSet
        BY <1>1, <1>2, <2>1, <2>2 DEF SessionSet
    <2> QED
        BY <1>1, <1>2, <2>1, <2>3 DEF SessionSet, Input
<1>3. ASSUME session' = [session EXCEPT !.at = "send", !.held = TRUE,
                         !.input = Input("key", "down", FALSE)]
      PROVE  /\ session' \in SessionSet /\ session.pastes = session'.pastes
             /\ session'.at = "send" /\ session'.input.kind = "key"
    <2>1. Input("key", "down", FALSE) \in Inputs
        BY DEF Input, Inputs
    <2> QED
        BY <1>1, <1>3, <2>1 DEF SessionSet, Input
<1>4. session.pastes \in Nat
    BY <1>1 DEF SessionSet
<1>5. UNCHANGED <<state, screen, channels, server>>
    BY DEF Command
<1>6. CASE session.pastes < MaxPastes /\ ClipboardWanted /\ \E small \in BOOLEAN :
            session' = [session EXCEPT !.at = "send", !.pastes = @ + 1,
                        !.input = Input("paste", session.pastes + 1, small)]
    <2>1. /\ session' \in SessionSet /\ session.pastes <= session'.pastes
          /\ session'.at = "send" /\ session'.input.arg = session'.pastes
        BY <1>2, <1>6
    <2> QED
        BY <1>1, <1>5, <1>6, <2>1, SessionOnly
<1>7. CASE session' = [session EXCEPT !.at = "send", !.held = TRUE,
                       !.input = Input("key", "down", FALSE)]
    <2>1. session' \in SessionSet /\ session.pastes = session'.pastes
          /\ session'.at = "send" /\ session'.input.kind = "key"
        BY <1>3, <1>7
    <2> QED
        BY <1>1, <1>4, <1>5, <2>1, SessionOnly
<1> QED
    BY <1>6, <1>7 DEF Command

LEMMA QuitKeeps == BInv /\ Quit => BInv'
<1> SUFFICES ASSUME BInv, Quit PROVE BInv'
    OBVIOUS
<1>1. session \in SessionSet /\ session.pastes \in Nat
    BY DEF BInv, Typed, SessionSet
<1> QED
    BY <1>1, LeftIs, SessionOnly DEF Quit

LEMMA SendFailsKeeps == BInv /\ SendFails => BInv'
<1> SUFFICES ASSUME BInv, SendFails PROVE BInv'
    OBVIOUS
<1>1. session \in SessionSet /\ session.pastes \in Nat
    BY DEF BInv, Typed, SessionSet
<1>2. session.at # "closed"
    BY DEF SendFails, Sending
<1>3. CASE session.at = "leaving"
    <2>1. session' = [session EXCEPT !.input = None]
        BY <1>3 DEF SendFails
    <2>2. session' \in SessionSet /\ session'.pastes = session.pastes /\ session'.input = None
          /\ session'.at = session.at
        BY <1>1, <2>1 DEF SessionSet
    <2> QED
        BY <1>1, <1>2, <2>2, SessionOnly DEF SendFails
<1>4. CASE session.at # "leaving"
    BY <1>1, <1>2, <1>4, LeftIs, SessionOnly DEF SendFails
<1> QED
    BY <1>3, <1>4

-----------------------------------------------------------------------------
(* The server speaks.                                                      *)
LEMMA OneMoreSaid ==
    ASSUME NEW after \in ServerSet
    PROVE  [after EXCEPT !.said = @ + 1] \in ServerSet
<1>1. after.said + 1 \in Nat
    BY DEF ServerSet
<1> QED
    BY <1>1 DEF ServerSet

LEMMA SaysKeeps ==
    ASSUME NEW m \in Downward, NEW after \in ServerSet, BInv, Says(m, after),
           after.echoed = server.echoed, after.agreed = server.agreed,
           after.notified = server.notified, after.answers = server.answers,
           m.kind # "fence" => after.fenced = server.fenced,
           m.kind = "fence" => m.arg = server.fenced + 1 /\ after.fenced = server.fenced + 1,
           m.kind = "notify" => server.agreed,
           m.kind # "request" => after.asked = server.asked,
           m.kind = "request" => /\ server.notified # 0
                                 /\ after.asked = Append(server.asked, server.notified)
    PROVE  BInv'
<1>13. UNCHANGED <<session, state, screen, inCh, outCh, writer, toServer>>
    BY DEF Says
<1> USE BackendConstants, <1>13
<1>1. /\ session \in SessionSet /\ state \in StateSet /\ server \in ServerSet
      /\ inCh \in Seq(Upward) /\ toServer \in Seq(Upward)
      /\ outCh \in Seq(Downward) /\ toClient \in Seq(Downward)
    BY DEF BInv, Typed
<1>2. /\ toClient' = Append(toClient, m) /\ Len(toClient) < Wire
      /\ server' = [after EXCEPT !.said = @ + 1]
    BY DEF Says
<1>3. /\ server.fenced \in Nat /\ server.echoed \in Nat /\ server.asked \in Seq(Texts)
      /\ server.answers \in Seq(Texts) /\ server.notified \in 0 .. MaxPastes
      /\ state.announced \in Nat /\ state.outbox \in Seq(Reply)
    BY <1>1 DEF ServerSet, StateSet
<1>4. /\ server' \in ServerSet /\ server'.echoed = server.echoed
      /\ server'.agreed = server.agreed /\ server'.notified = server.notified
      /\ server'.answers = server.answers
      /\ server'.fenced = after.fenced /\ server'.asked = after.asked
    <2>1. server' \in ServerSet
        BY <1>2, OneMoreSaid
    <2>2. /\ server'.echoed = after.echoed /\ server'.notified = after.notified
          /\ server'.answers = after.answers /\ server'.fenced = after.fenced
          /\ server'.asked = after.asked
        BY <1>2 DEF ServerSet
    <2>3. server'.agreed = after.agreed
        BY <1>2 DEF ServerSet
    <2> QED
        BY <2>1, <2>2, <2>3
<1>5. Live' <=> Live
    BY DEF Live
<1>6. Typed'
    <2>1. toClient' \in Seq(Downward)
        BY <1>1, <1>2, AppendProperties
    <2> QED
        BY <1>4, <2>1 DEF BInv, Typed
<1>7. Short'
    <2>1. Len(toClient') = Len(toClient) + 1 /\ Len(toClient) \in Nat
        BY <1>1, <1>2, AppendedTo
    <2>2. Len(toClient') <= Wire
        BY <1>2, <2>1
    <2> QED
        BY <2>2 DEF BInv, Short
<1>8. Ordered'
    <2> SUFFICES ASSUME Live
                 PROVE  \E c1, c2, c3, c4 \in Nat :
                            /\ Fenced(toServer, server.echoed, c1) /\ Fenced(inCh, c1, c2)
                            /\ Fenced(state.outbox, c2, c3)
                            /\ Fenced(outCh, c3, c4) /\ Fenced(toClient', c4, server'.fenced)
        BY <1>4, <1>5 DEF Ordered
    <2>1. PICK c1, c2, c3, c4 \in Nat :
                /\ Fenced(toServer, server.echoed, c1) /\ Fenced(inCh, c1, c2)
                /\ Fenced(state.outbox, c2, c3)
                /\ Fenced(outCh, c3, c4) /\ Fenced(toClient, c4, server.fenced)
        BY DEF BInv, Ordered
    <2>2. Fenced(toClient', c4, server'.fenced)
        <3>1. CASE m.kind # "fence"
            BY <1>1, <1>2, <1>3, <1>4, <2>1, <3>1, FenceAppend
        <3>2. CASE m.kind = "fence"
            <4>1. Fenced(Append(toClient, m), c4, server.fenced + 1)
                BY <1>1, <1>3, <2>1, <3>2, FenceAppend
            <4> QED
                BY <1>2, <1>4, <3>2, <4>1
        <3> QED
            BY <3>1, <3>2
    <2> QED
        BY <2>1, <2>2
<1>9. CapsAhead'
    <2> SUFFICES ASSUME ~server.agreed
                 PROVE  /\ ~Has({"notify", "request"}, toClient')
                        /\ CapsAhead
        BY <1>4, <1>5 DEF CapsAhead, CapsOut
    <2>1. server.notified = 0 /\ ~Has({"notify", "request"}, toClient)
        BY DEF BInv, CapsAhead
    <2>2. m.kind \notin {"notify", "request"}
        BY <2>1
    <2>3. ~Has({"notify", "request"}, toClient')
        BY <1>1, <1>2, <2>1, <2>2, HasAppend
    <2> QED
        BY <2>3 DEF BInv
<1>10. Growing'
    <2>1. \A i \in 1 .. Len(server'.asked) : server'.asked[i] <= state.announced
        <3>1. CASE m.kind # "request"
            BY <1>4, <3>1 DEF BInv, Growing
        <3>2. CASE m.kind = "request"
            <4> DEFINE a == Append(server.asked, server.notified)
            <4>1. server.notified \in Texts /\ server.notified <= state.announced
                BY <1>3, <3>2 DEF BInv, Growing, Texts
            <4>2. /\ Len(server.asked) \in Nat /\ Len(a) = Len(server.asked) + 1
                  /\ \A i \in 1 .. Len(server.asked) : a[i] = server.asked[i]
                  /\ a[Len(server.asked) + 1] = server.notified
                BY <1>3, <4>1, AppendedTo
            <4>3. \A i \in 1 .. Len(server.asked) : server.asked[i] <= state.announced
                BY DEF BInv, Growing
            <4> HIDE DEF a
            <4>4. \A i \in 1 .. Len(a) : a[i] <= state.announced
                BY <4>1, <4>2, <4>3
            <4>5. server'.asked = a
                BY <1>4, <3>2 DEF a
            <4> QED
                BY <4>4, <4>5
        <3> QED
            BY <3>1, <3>2
    <2> QED
        BY <1>4, <2>1 DEF BInv, Growing
<1>11. Paired'
    <2> DEFINE n == Len(server.asked)
    <2>1. PICK c1 \in Nat :
            /\ c1 <= n /\ Answering(toServer, Len(server.answers), c1, server.asked)
            /\ Live => \E c2, c3, c4 \in Nat :
                /\ Answering(inCh, c1, c2, server.asked)
                /\ Answering(state.outbox, c2, c3, server.asked)
                /\ Wanted(outCh, c3, c4) /\ Wanted(toClient, c4, n)
        BY DEF BInv, Paired
    <2>2. n \in Nat /\ Len(server.answers) \in Nat
        BY <1>3, LenProperties
    <2>3. /\ c1 <= Len(server'.asked)
          /\ Answering(toServer, Len(server.answers), c1, server'.asked)
          /\ \A c2, c3 \in Nat : c3 <= n =>
                /\ Answering(inCh, c1, c2, server.asked) /\ c2 <= n =>
                        Answering(inCh, c1, c2, server'.asked)
                /\ Answering(state.outbox, c2, c3, server.asked) =>
                        Answering(state.outbox, c2, c3, server'.asked)
          /\ \A c4 \in Nat : Wanted(toClient, c4, n) =>
                        Wanted(toClient', c4, Len(server'.asked))
        <3>1. CASE m.kind # "request"
            <4>1. server'.asked = server.asked
                BY <1>4, <3>1
            <4>2. \A c4 \in Nat : Wanted(toClient, c4, n) => Wanted(toClient', c4, n)
                BY <1>1, <1>2, <2>2, <3>1, WantAppend
            <4> QED
                BY <2>1, <4>1, <4>2
        <3>2. CASE m.kind = "request"
            <4>1. server.notified \in Texts
                BY <1>3, <3>2 DEF Texts
            <4>2. server'.asked = Append(server.asked, server.notified)
                BY <1>4, <3>2
            <4>3. Len(server'.asked) = n + 1
                BY <1>3, <4>1, <4>2, AppendedTo
            <4>4. Answering(toServer, Len(server.answers), c1, server'.asked)
                BY <1>3, <2>1, <2>2, <4>1, <4>2, AskedAgain
            <4>5. \A c4 \in Nat : Wanted(toClient, c4, n) => Wanted(toClient', c4, n + 1)
                BY <1>1, <1>2, <2>2, <3>2, WantAppend
            <4>6. \A c2, c3 \in Nat : c3 <= n =>
                    /\ Answering(inCh, c1, c2, server.asked) /\ c2 <= n =>
                            Answering(inCh, c1, c2, server'.asked)
                    /\ Answering(state.outbox, c2, c3, server.asked) =>
                            Answering(state.outbox, c2, c3, server'.asked)
                BY SMTT(20), <1>3, <4>1, <4>2, AskedAgain
            <4>7. c1 <= n + 1
                BY <2>1, <2>2
            <4> QED
                BY <4>3, <4>4, <4>5, <4>6, <4>7
        <3> QED
            BY <3>1, <3>2
    <2>4. ASSUME Live
          PROVE  \E c2, c3, c4 \in Nat :
                    /\ Answering(inCh, c1, c2, server'.asked)
                    /\ Answering(state.outbox, c2, c3, server'.asked)
                    /\ Wanted(outCh, c3, c4) /\ Wanted(toClient', c4, Len(server'.asked))
        <3>1. PICK c2, c3, c4 \in Nat :
                /\ Answering(inCh, c1, c2, server.asked)
                /\ Answering(state.outbox, c2, c3, server.asked)
                /\ Wanted(outCh, c3, c4) /\ Wanted(toClient, c4, n)
            BY <2>1, <2>4
        <3>2. c2 <= c3 /\ c3 <= c4 /\ c4 <= n
            BY <3>1 DEF Answering, Wanted, Numbered
        <3>3. c2 <= n /\ c3 <= n
            BY <2>2, <3>2
        <3> QED
            BY <2>3, <3>1, <3>3
    <2> QED
        BY <1>4, <1>5, <2>3, <2>4 DEF Paired
<1>12. Stopped' /\ SizesAgree' /\ AnswersAnnounced'
    <2>1. ASSUME NEW i \in DOMAIN server.answers PROVE server.answers[i] >= server'.asked[i]
        <3>1. CASE m.kind # "request"
            BY <1>4, <3>1 DEF BInv, AnswersAnnounced
        <3>2. CASE m.kind = "request"
            <4>1. server.notified \in Texts
                BY <1>3, <3>2 DEF Texts
            <4>2. \A j \in 1 .. Len(server.asked) : server'.asked[j] = server.asked[j]
                <5> DEFINE a == Append(server.asked, server.notified)
                <5>1. \A j \in 1 .. Len(server.asked) : a[j] = server.asked[j]
                    BY <1>3, <4>1, AppendedTo
                <5>2. server'.asked = a
                    BY <1>4, <3>2
                <5> QED
                    BY <5>1, <5>2
            <4>3. i \in 1 .. Len(server.answers) /\ Len(server.answers) \in Nat
                  /\ Len(server.asked) \in Nat
                BY <1>3, LenProperties
            <4>4. PICK c1 \in Nat :
                    /\ c1 <= Len(server.asked)
                    /\ Answering(toServer, Len(server.answers), c1, server.asked)
                BY DEF BInv, Paired
            <4>5. Len(server.answers) <= Len(server.asked)
                BY <4>3, <4>4 DEF Answering, Numbered
            <4>6. i \in 1 .. Len(server.asked)
                BY <4>3, <4>5
            <4> QED
                BY <4>2, <4>6 DEF BInv, AnswersAnnounced
        <3> QED
            BY <3>1, <3>2
    <2> QED
        BY <1>4, <2>1 DEF BInv, Stopped, SizesAgree, AnswersAnnounced
<1> QED
    BY <1>6, <1>7, <1>8, <1>9, <1>10, <1>11, <1>12 DEF BInv

LEMMA Sayings ==
    /\ \A kind \in {"end of pushing", "notify", "request", "error"} :
            Message(kind, 0) \in Downward /\ Message(kind, 0).kind = kind
    /\ \A n \in Nat : /\ Message("fence", n) \in Downward
                      /\ Message("fence", n).kind = "fence" /\ Message("fence", n).arg = n
    /\ \A c \in Caps : Message("caps", c) \in Downward /\ Message("caps", c).kind = "caps"
BY DEF Message, Downward, FenceMessage

LEMMA FencesKeeps == BInv /\ Fences => BInv'
<1> SUFFICES ASSUME BInv, Fences PROVE BInv'
    OBVIOUS
<1> DEFINE m == Message("fence", server.fenced + 1)
           after == [server EXCEPT !.fenced = @ + 1]
<1>1. server \in ServerSet /\ server.fenced + 1 \in Nat
    BY DEF BInv, Typed, ServerSet
<1>2. m \in Downward /\ m.kind = "fence" /\ m.arg = server.fenced + 1
    BY <1>1, Sayings
<1>3. /\ after \in ServerSet /\ after.echoed = server.echoed
      /\ after.notified = server.notified /\ after.answers = server.answers
      /\ after.fenced = server.fenced + 1 /\ after.asked = server.asked
    BY <1>1 DEF ServerSet
<1>4. after.agreed = server.agreed
    BY <1>1 DEF ServerSet
<1>5. Says(m, after)
    BY DEF Fences
<1> HIDE DEF m, after
<1> QED
    BY <1>2, <1>3, <1>4, <1>5, SaysKeeps

(* To say what changes nothing that the invariant is about.                *)
LEMMA PlainWordKeeps ==
    ASSUME NEW m \in Downward, NEW after \in ServerSet, BInv, Says(m, after),
           m.kind \notin {"fence", "request", "notify"},
           after.echoed = server.echoed, after.agreed = server.agreed,
           after.notified = server.notified, after.answers = server.answers,
           after.fenced = server.fenced, after.asked = server.asked
    PROVE  BInv'
<1>1. m.kind # "fence" /\ m.kind # "request" /\ m.kind # "notify"
    OBVIOUS
<1> QED
    BY <1>1, SaysKeeps

LEMMA ResizesKeeps == BInv /\ Resizes => BInv'
<1> SUFFICES ASSUME BInv, NEW s \in Sizes \cup {Zero},
                    Says(Report(s, TRUE), [server EXCEPT !.size = s])
             PROVE  BInv'
    BY DEF Resizes
<1> DEFINE m == Report(s, TRUE)
           after == [server EXCEPT !.size = s]
<1>1. server \in ServerSet
    BY DEF BInv, Typed
<1>2. m \in Downward /\ m.kind = "size"
    BY ReportIs
<1>3. /\ after \in ServerSet /\ after.echoed = server.echoed
      /\ after.notified = server.notified /\ after.answers = server.answers
      /\ after.fenced = server.fenced /\ after.asked = server.asked
    BY <1>1 DEF ServerSet
<1>4. after.agreed = server.agreed
    BY <1>1 DEF ServerSet
<1>5. Says(m, after)
    OBVIOUS
<1> HIDE DEF m, after
<1> QED
    BY <1>2, <1>3, <1>4, <1>5, PlainWordKeeps

LEMMA RefusesKeeps == BInv /\ Refuses => BInv'
<1> SUFFICES ASSUME BInv, NEW s \in Sizes \cup {Zero}, Says(Report(s, FALSE), server)
             PROVE  BInv'
    BY DEF Refuses
<1> DEFINE m == Report(s, FALSE)
<1>1. server \in ServerSet
    BY DEF BInv, Typed
<1>2. m \in Downward /\ m.kind = "size"
    BY ReportIs
<1>3. Says(m, server)
    OBVIOUS
<1> HIDE DEF m
<1> QED
    BY <1>1, <1>2, <1>3, PlainWordKeeps

LEMMA EndsPushingKeeps == BInv /\ EndsPushing => BInv'
<1> SUFFICES ASSUME BInv, EndsPushing PROVE BInv'
    OBVIOUS
<1> DEFINE m == Message("end of pushing", 0)
           after == [server EXCEPT !.pushes = TRUE, !.pushing = None]
<1>1. server \in ServerSet
    BY DEF BInv, Typed
<1>2. m \in Downward /\ m.kind = "end of pushing"
    BY Sayings
<1>3. /\ after \in ServerSet /\ after.echoed = server.echoed
      /\ after.notified = server.notified /\ after.answers = server.answers
      /\ after.fenced = server.fenced /\ after.asked = server.asked
    BY <1>1 DEF ServerSet
<1>4. after.agreed = server.agreed
    BY <1>1 DEF ServerSet
<1>5. Says(m, after)
    BY DEF EndsPushing
<1> HIDE DEF m, after
<1> QED
    BY <1>2, <1>3, <1>4, <1>5, PlainWordKeeps

LEMMA OffersCapsKeeps == BInv /\ OffersCaps => BInv'
<1> SUFFICES ASSUME BInv, NEW c \in Caps, Says(Message("caps", c), server)
             PROVE  BInv'
    BY DEF OffersCaps
<1>1. server \in ServerSet
    BY DEF BInv, Typed
<1>2. Message("caps", c) \in Downward /\ Message("caps", c).kind = "caps"
    BY Sayings
<1> QED
    BY <1>1, <1>2, PlainWordKeeps

LEMMA NotifiesKeeps == BInv /\ Notifies => BInv'
<1> SUFFICES ASSUME BInv, Notifies PROVE BInv'
    OBVIOUS
<1> DEFINE m == Message("notify", 0)
<1>1. server \in ServerSet
    BY DEF BInv, Typed
<1>2. m \in Downward /\ m.kind = "notify"
    BY Sayings
<1>3. server.agreed /\ Says(m, server)
    BY DEF Notifies
<1> HIDE DEF m
<1> QED
    BY <1>1, <1>2, <1>3, SaysKeeps

LEMMA AsksForTextKeeps == BInv /\ AsksForText => BInv'
<1> SUFFICES ASSUME BInv, AsksForText PROVE BInv'
    OBVIOUS
<1> DEFINE m == Message("request", 0)
           after == [server EXCEPT !.asked = Append(@, server.notified)]
<1>1. server \in ServerSet /\ server.notified # 0
    BY DEF BInv, Typed, AsksForText
<1>2. m \in Downward /\ m.kind = "request"
    BY Sayings
<1>3. Append(server.asked, server.notified) \in Seq(Texts)
    <2>1. server.asked \in Seq(Texts) /\ server.notified \in Texts
        BY <1>1, BackendConstants DEF ServerSet, Texts
    <2> QED
        BY <2>1, AppendProperties
<1>4. /\ after \in ServerSet /\ after.echoed = server.echoed
      /\ after.notified = server.notified /\ after.answers = server.answers
      /\ after.fenced = server.fenced
      /\ after.asked = Append(server.asked, server.notified)
    BY <1>1, <1>3 DEF ServerSet
<1>5. after.agreed = server.agreed
    BY <1>1 DEF ServerSet
<1>6. Says(m, after)
    BY DEF AsksForText
<1> HIDE DEF m, after
<1> QED
    BY <1>1, <1>2, <1>4, <1>5, <1>6, SaysKeeps

LEMMA GoesAwayKeeps == BInv /\ GoesAway => BInv'
<1> SUFFICES ASSUME BInv, GoesAway PROVE BInv'
    OBVIOUS
<1> DEFINE m == Message("error", 0)
           after == [server EXCEPT !.gone = TRUE]
<1>1. server \in ServerSet
    BY DEF BInv, Typed
<1>2. m \in Downward /\ m.kind = "error"
    BY Sayings
<1>3. /\ after \in ServerSet /\ after.echoed = server.echoed
      /\ after.notified = server.notified /\ after.answers = server.answers
      /\ after.fenced = server.fenced /\ after.asked = server.asked
    BY <1>1 DEF ServerSet
<1>4. after.agreed = server.agreed
    BY <1>1 DEF ServerSet
<1>5. Says(m, after)
    BY DEF GoesAway
<1> HIDE DEF m, after
<1> QED
    BY <1>2, <1>3, <1>4, <1>5, PlainWordKeeps

-----------------------------------------------------------------------------
(* The road is closed: what was in the channels is gone for good.          *)
LEMMA RoadCloses ==
    ASSUME BInv, UNCHANGED <<state, screen, toServer, toClient, server>>,
           session' \in SessionSet, session'.pastes = session.pastes,
           session'.input = session.input,
           writer' = "stopped", inCh' = <<>>, outCh' \in {outCh, <<>>}
    PROVE  BInv'
<1> USE BackendConstants
<1>1. ~Live'
    BY DEF Live
<1>2. Typed'
    <2>1. inCh' \in Seq(Upward) /\ outCh' \in Seq(Downward)
        <3>1. outCh \in Seq(Downward) /\ \A S : <<>> \in Seq(S)
            BY DEF BInv, Typed
        <3> QED
            BY <3>1
    <2> QED
        BY <2>1 DEF BInv, Typed
<1>3. Short'
    <2>1. Len(inCh') = 0 /\ 0 <= Room /\ (outCh' = <<>> => Len(outCh') = 0)
        OBVIOUS
    <2> QED
        BY <2>1 DEF BInv, Short
<1>4. Ordered'
    BY <1>1 DEF Ordered
<1>5. CapsAhead'
    <2>1. ASSUME ~server.agreed
          PROVE  /\ Ready(inCh') /\ ~Has({"notify", "request"}, outCh')
        <3>1. ~Has({"notify", "request"}, outCh)
            BY <2>1 DEF BInv, CapsAhead
        <3> QED
            BY <3>1, ReadyNone, HasNone
    <2> QED
        BY <1>1, <2>1 DEF BInv, CapsAhead
<1>6. Growing'
    <2>1. Tells(inCh', state.announced)
        BY DEF Tells, Of
    <2> QED
        BY <2>1 DEF BInv, Growing
<1>7. Paired'
    BY <1>1 DEF BInv, Paired
<1>8. Stopped' /\ SizesAgree' /\ AnswersAnnounced'
    BY DEF BInv, Stopped, SizesAgree, AnswersAnnounced
<1> QED
    BY <1>2, <1>3, <1>4, <1>5, <1>6, <1>7, <1>8 DEF BInv

LEMMA CloseKeeps == BInv /\ Close => BInv'
<1> SUFFICES ASSUME BInv, Close PROVE BInv'
    OBVIOUS
<1>1. session \in SessionSet /\ session' = [session EXCEPT !.at = "closed"]
    BY DEF BInv, Typed, Close
<1>2. /\ session' \in SessionSet /\ session'.pastes = session.pastes
      /\ session'.input = session.input
    BY <1>1 DEF SessionSet
<1> QED
    BY <1>2, RoadCloses DEF Close

LEMMA WriteFailsKeeps == BInv /\ WriteFails => BInv'
<1> SUFFICES ASSUME BInv, WriteFails PROVE BInv'
    OBVIOUS
<1>1. session \in SessionSet /\ session' = session
    BY DEF BInv, Typed, WriteFails
<1> QED
    BY <1>1, RoadCloses DEF WriteFails

-----------------------------------------------------------------------------
(* A message moves on.                                                     *)
LEMMA ReadKeeps == BInv /\ Read => BInv'
<1> SUFFICES ASSUME BInv, Read PROVE BInv'
    OBVIOUS
<1> USE BackendConstants
<1> DEFINE m == Head(toClient)
<1>1. /\ UNCHANGED <<session, state, screen, inCh, writer, toServer, server>>
      /\ toClient # <<>> /\ Len(outCh) < Room
      /\ outCh' = Append(outCh, m) /\ toClient' = Tail(toClient)
    BY DEF Read
<1>2. /\ outCh \in Seq(Downward) /\ toClient \in Seq(Downward)
      /\ server \in ServerSet /\ server.fenced \in Nat /\ server.asked \in Seq(Texts)
      /\ Len(server.asked) \in Nat
    BY LenProperties DEF BInv, Typed, ServerSet
<1>3. /\ m \in Downward /\ toClient' \in Seq(Downward) /\ Len(toClient') = Len(toClient) - 1
      /\ Len(toClient) \in Nat
    BY <1>1, <1>2, HeadTailProperties, EmptySeq, LenProperties
<1>4. outCh' \in Seq(Downward) /\ Len(outCh') = Len(outCh) + 1 /\ Len(outCh) \in Nat
    BY <1>1, <1>2, <1>3, AppendProperties, LenProperties
<1> HIDE DEF m
<1>5. Live' <=> Live
    BY <1>1 DEF Live
<1>6. Typed'
    BY <1>1, <1>3, <1>4 DEF BInv, Typed
<1>7. Short'
    <2>1. Len(outCh') <= Room /\ Len(toClient') <= Wire
        BY <1>1, <1>3, <1>4 DEF BInv, Short
    <2> QED
        BY <1>1, <2>1 DEF BInv, Short
<1>8. Ordered'
    <2> SUFFICES ASSUME Live
                 PROVE  \E c1, c2, c3, c4 \in Nat :
                            /\ Fenced(toServer, server.echoed, c1) /\ Fenced(inCh, c1, c2)
                            /\ Fenced(state.outbox, c2, c3)
                            /\ Fenced(outCh', c3, c4) /\ Fenced(toClient', c4, server.fenced)
        BY <1>1, <1>5 DEF Ordered
    <2>1. PICK c1, c2, c3, c4 \in Nat :
                /\ Fenced(toServer, server.echoed, c1) /\ Fenced(inCh, c1, c2)
                /\ Fenced(state.outbox, c2, c3)
                /\ Fenced(outCh, c3, c4) /\ Fenced(toClient, c4, server.fenced)
        BY DEF BInv, Ordered
    <2>2. \E c \in Nat : Fenced(outCh', c3, c) /\ Fenced(toClient', c, server.fenced)
        BY <1>1, <1>2, <1>3, <2>1, FenceMove DEF m
    <2> QED
        BY <2>1, <2>2
<1>9. CapsAhead'
    <2>1. ASSUME ~server.agreed
          PROVE  ~Has({"notify", "request"}, outCh') /\ ~Has({"notify", "request"}, toClient')
        <3>1. ~Has({"notify", "request"}, outCh) /\ ~Has({"notify", "request"}, toClient)
            BY <2>1 DEF BInv, CapsAhead
        <3>2. m.kind \notin {"notify", "request"} /\ ~Has({"notify", "request"}, toClient')
            BY <1>1, <1>2, <3>1, HasTail DEF m
        <3> QED
            BY <1>1, <1>2, <1>3, <3>1, <3>2, HasAppend
    <2> QED
        BY <1>1, <1>5, <2>1 DEF BInv, CapsAhead, CapsOut
<1>10. Growing'
    BY <1>1 DEF BInv, Growing
<1>11. Paired'
    <2> DEFINE n == Len(server.asked)
    <2>1. PICK c1 \in Nat :
            /\ c1 <= n /\ Answering(toServer, Len(server.answers), c1, server.asked)
            /\ Live => \E c2, c3, c4 \in Nat :
                /\ Answering(inCh, c1, c2, server.asked)
                /\ Answering(state.outbox, c2, c3, server.asked)
                /\ Wanted(outCh, c3, c4) /\ Wanted(toClient, c4, n)
        BY DEF BInv, Paired
    <2>2. ASSUME Live
          PROVE  \E c2, c3, c4 \in Nat :
                    /\ Answering(inCh, c1, c2, server.asked)
                    /\ Answering(state.outbox, c2, c3, server.asked)
                    /\ Wanted(outCh', c3, c4) /\ Wanted(toClient', c4, n)
        <3>1. PICK c2, c3, c4 \in Nat :
                /\ Answering(inCh, c1, c2, server.asked)
                /\ Answering(state.outbox, c2, c3, server.asked)
                /\ Wanted(outCh, c3, c4) /\ Wanted(toClient, c4, n)
            BY <2>1, <2>2
        <3>2. \E c \in Nat : Wanted(outCh', c3, c) /\ Wanted(toClient', c, n)
            BY <1>1, <1>2, <1>3, <3>1, WantMove DEF m
        <3> QED
            BY <3>1, <3>2
    <2> QED
        BY <1>1, <1>5, <2>1, <2>2 DEF Paired
<1>12. Stopped' /\ SizesAgree' /\ AnswersAnnounced'
    BY <1>1 DEF BInv, Stopped, SizesAgree, AnswersAnnounced
<1> QED
    BY <1>6, <1>7, <1>8, <1>9, <1>10, <1>11, <1>12 DEF BInv

LEMMA WriteKeeps == BInv /\ Write => BInv'
<1> SUFFICES ASSUME BInv, Write PROVE BInv'
    OBVIOUS
<1> USE BackendConstants
<1> DEFINE m == Head(inCh)
<1>1. /\ UNCHANGED <<session, state, screen, outCh, writer, toClient, server>>
      /\ inCh # <<>> /\ Len(toServer) < Wire
      /\ toServer' = Append(toServer, m) /\ inCh' = Tail(inCh)
    BY DEF Write
<1>2. /\ inCh \in Seq(Upward) /\ toServer \in Seq(Upward)
      /\ server \in ServerSet /\ server.echoed \in Nat /\ server.asked \in Seq(Texts)
      /\ Len(server.asked) \in Nat /\ Len(server.answers) \in Nat
    BY LenProperties DEF BInv, Typed, ServerSet
<1>3. /\ m \in Upward /\ inCh' \in Seq(Upward) /\ Len(inCh') = Len(inCh) - 1
      /\ Len(inCh) \in Nat
    BY <1>1, <1>2, HeadTailProperties, EmptySeq, LenProperties
<1>4. toServer' \in Seq(Upward) /\ Len(toServer') = Len(toServer) + 1 /\ Len(toServer) \in Nat
    BY <1>1, <1>2, <1>3, AppendProperties, LenProperties
<1> HIDE DEF m
<1>5. Live' <=> Live
    BY <1>1 DEF Live
<1>6. Typed'
    BY <1>1, <1>3, <1>4 DEF BInv, Typed
<1>7. Short'
    <2>1. Len(toServer') <= Wire /\ Len(inCh') <= Room
        BY <1>1, <1>3, <1>4 DEF BInv, Short
    <2> QED
        BY <1>1, <2>1 DEF BInv, Short
<1>8. Ordered'
    <2> SUFFICES ASSUME Live
                 PROVE  \E c1, c2, c3, c4 \in Nat :
                            /\ Fenced(toServer', server.echoed, c1) /\ Fenced(inCh', c1, c2)
                            /\ Fenced(state.outbox, c2, c3)
                            /\ Fenced(outCh, c3, c4) /\ Fenced(toClient, c4, server.fenced)
        BY <1>1, <1>5 DEF Ordered
    <2>1. PICK c1, c2, c3, c4 \in Nat :
                /\ Fenced(toServer, server.echoed, c1) /\ Fenced(inCh, c1, c2)
                /\ Fenced(state.outbox, c2, c3)
                /\ Fenced(outCh, c3, c4) /\ Fenced(toClient, c4, server.fenced)
        BY DEF BInv, Ordered
    <2>2. \E c \in Nat : Fenced(toServer', server.echoed, c) /\ Fenced(inCh', c, c2)
        BY <1>1, <1>2, <1>3, <2>1, FenceMove DEF m
    <2> QED
        BY <2>1, <2>2
<1>9. CapsAhead'
    <2> SUFFICES ASSUME ~server.agreed
                 PROVE  /\ Ready(toServer') /\ (Has({"caps"}, toServer') \/ Ready(inCh'))
                        /\ CapsOut => CapsOut'
        BY <1>1, <1>5 DEF BInv, CapsAhead
    <2>1. Ready(toServer) /\ (Has({"caps"}, toServer) \/ Ready(inCh))
        BY DEF BInv, CapsAhead
    <2>2. Has({"caps"}, toServer') <=> Has({"caps"}, toServer) \/ m.kind = "caps"
        BY <1>1, <1>2, <1>3, HasAppend
    <2>3. Ready(inCh) => m.kind \notin Extended /\ (m.kind # "caps" => Ready(inCh'))
        BY <1>1, <1>2, ReadyTail DEF m
    <2>4. Ready(toServer')
        BY <1>1, <1>2, <1>3, <2>1, <2>3, ReadyAppend
    <2>5. Has({"caps"}, inCh) <=> m.kind = "caps" \/ Has({"caps"}, inCh')
        BY <1>1, <1>2, HasTail DEF m
    <2>6. CapsOut => CapsOut'
        BY <1>1, <2>2, <2>5 DEF CapsOut
    <2> QED
        BY <2>1, <2>2, <2>3, <2>4, <2>6
<1>10. Growing'
    <2>1. Tells(toServer, state.announced) /\ Tells(inCh, state.announced)
        BY DEF BInv, Growing
    <2>2. /\ m.kind = "notify" => m.arg <= state.announced
          /\ Tells(inCh', state.announced)
        BY <1>1, <1>2, <2>1, TellTail DEF m
    <2>3. Tells(toServer', state.announced)
        BY <1>1, <1>2, <1>3, <2>1, <2>2, TellAppend
    <2> QED
        BY <1>1, <2>2, <2>3 DEF BInv, Growing
<1>11. Paired'
    <2> DEFINE n == Len(server.asked)
               a == Len(server.answers)
    <2>1. PICK c1 \in Nat :
            /\ c1 <= n /\ Answering(toServer, a, c1, server.asked)
            /\ Live => \E c2, c3, c4 \in Nat :
                /\ Answering(inCh, c1, c2, server.asked)
                /\ Answering(state.outbox, c2, c3, server.asked)
                /\ Wanted(outCh, c3, c4) /\ Wanted(toClient, c4, n)
        BY DEF BInv, Paired
    <2>2. CASE Live
        <3>1. PICK c2, c3, c4 \in Nat :
                /\ Answering(inCh, c1, c2, server.asked)
                /\ Answering(state.outbox, c2, c3, server.asked)
                /\ Wanted(outCh, c3, c4) /\ Wanted(toClient, c4, n)
            BY <2>1, <2>2
        <3>2. PICK c \in Nat : /\ Answering(toServer', a, c, server.asked)
                               /\ Answering(inCh', c, c2, server.asked) /\ c <= c2
            BY <1>1, <1>2, <1>3, <2>1, <3>1, AnswerMove DEF m
        <3>3. c2 <= c3 /\ c3 <= c4 /\ c4 <= n
            BY <3>1 DEF Answering, Wanted, Numbered
        <3>4. c <= n
            BY <1>2, <3>2, <3>3
        <3> QED
            BY <1>1, <3>1, <3>2, <3>4 DEF Paired
    <2>3. Live
        BY DEF Write, BInv, Stopped, Live
    <2> QED
        BY <2>2, <2>3
<1>12. Stopped' /\ SizesAgree' /\ AnswersAnnounced'
    BY <1>1 DEF BInv, Stopped, SizesAgree, AnswersAnnounced
<1> QED
    BY <1>6, <1>7, <1>8, <1>9, <1>10, <1>11, <1>12 DEF BInv

LEMMA ReplyIs ==
    /\ \A r \in Reply : r \in Upward /\ r.kind # "notify"
    /\ Message("caps", 0) \in Reply /\ Message("request", 0) \in Reply
    /\ \A n \in Texts : Message("answer", n) \in Reply
    /\ \A s \in Sizes : Message("enable", s) \in Reply
    /\ \A m \in Downward : m.kind = "fence" => m \in Reply
<1>1. \A r \in Reply : r \in Upward /\ r.kind # "notify"
    BY DEF Reply, Upward, FenceMessage
<1>2. Message("caps", 0) \in Reply /\ Message("request", 0) \in Reply
    BY DEF Reply, Message
<1>3. \A n \in Texts : Message("answer", n) \in Reply
    BY DEF Reply, Message
<1>4. \A s \in Sizes : Message("enable", s) \in Reply
    BY DEF Reply, Message
<1>5. \A m \in Downward : m.kind = "fence" => m \in Reply
    BY DEF Downward, Reply, FenceMessage
<1> QED
    BY <1>1, <1>2, <1>3, <1>4, <1>5

LEMMA FlushKeeps == BInv /\ Flush => BInv'
<1> SUFFICES ASSUME BInv, Flush PROVE BInv'
    OBVIOUS
<1> USE BackendConstants
<1> DEFINE box == state.outbox
           m == Head(box)
<1>1. /\ UNCHANGED <<session, screen, outCh, writer, toServer, toClient, server>>
      /\ box # <<>> /\ Len(inCh) < Room /\ inCh' = Append(inCh, m)
      /\ state' = [state EXCEPT !.outbox = Tail(@)]
    BY DEF Flush, HasRoom
<1>2. /\ inCh \in Seq(Upward) /\ state \in StateSet /\ box \in Seq(Reply)
      /\ server \in ServerSet /\ server.asked \in Seq(Texts) /\ Len(server.asked) \in Nat
    BY LenProperties DEF BInv, Typed, StateSet, ServerSet
<1>3. m \in Reply /\ Tail(box) \in Seq(Reply)
    BY <1>1, <1>2, HeadTailProperties, EmptySeq
<1>4. m \in Upward /\ m.kind # "notify"
    BY <1>3, ReplyIs
<1>5. inCh' \in Seq(Upward) /\ Len(inCh') = Len(inCh) + 1 /\ Len(inCh) \in Nat
    BY <1>1, <1>2, <1>4, AppendProperties, LenProperties
<1>6. /\ state' \in StateSet /\ state'.outbox = Tail(box) /\ state'.size = state.size
      /\ state'.caps = state.caps /\ state'.announced = state.announced
    BY <1>1, <1>2, <1>3 DEF StateSet
<1> HIDE DEF m, box
<1>7. Live' <=> Live
    BY <1>1 DEF Live
<1>8. Typed'
    BY <1>1, <1>5, <1>6 DEF BInv, Typed
<1>9. Short'
    <2>1. Len(inCh') <= Room
        BY <1>1, <1>5
    <2> QED
        BY <1>1, <2>1 DEF BInv, Short
<1>10. Ordered'
    <2> SUFFICES ASSUME Live
                 PROVE  \E c1, c2, c3, c4 \in Nat :
                            /\ Fenced(toServer, server.echoed, c1) /\ Fenced(inCh', c1, c2)
                            /\ Fenced(state'.outbox, c2, c3)
                            /\ Fenced(outCh, c3, c4) /\ Fenced(toClient, c4, server.fenced)
        BY <1>1, <1>7 DEF Ordered
    <2>1. PICK c1, c2, c3, c4 \in Nat :
                /\ Fenced(toServer, server.echoed, c1) /\ Fenced(inCh, c1, c2)
                /\ Fenced(box, c2, c3)
                /\ Fenced(outCh, c3, c4) /\ Fenced(toClient, c4, server.fenced)
        BY DEF BInv, Ordered, box
    <2>2. \E c \in Nat : Fenced(inCh', c1, c) /\ Fenced(state'.outbox, c, c3)
        <3>1. \E c \in Nat : Fenced(Append(inCh, m), c1, c) /\ Fenced(Tail(box), c, c3)
            BY <1>1, <1>2, <1>4, <2>1, FenceMove DEF m
        <3> QED
            BY <1>1, <1>6, <3>1
    <2> QED
        BY <2>1, <2>2
<1>11. CapsAhead'
    <2> SUFFICES ASSUME ~server.agreed
                 PROVE  /\ Has({"caps"}, toServer) \/ Ready(inCh')
                        /\ ~Has(Extended, state'.outbox)
                        /\ CapsOut => CapsOut'
        BY <1>1, <1>6, <1>7 DEF BInv, CapsAhead
    <2>1. ~Has(Extended, box) /\ (Has({"caps"}, toServer) \/ Ready(inCh))
        BY DEF BInv, CapsAhead, box
    <2>2. m.kind \notin Extended /\ ~Has(Extended, state'.outbox)
        BY ZenonT(30), <1>1, <1>2, <1>6, <2>1, HasTail DEF m
    <2>3. Ready(inCh) => Ready(inCh')
        BY <1>1, <1>2, <1>4, <2>2, ReadyAppend
    <2>4. Has({"caps"}, inCh') <=> Has({"caps"}, inCh) \/ m.kind = "caps"
        BY <1>1, <1>2, <1>4, HasAppend
    <2>5. Has({"caps"}, box) <=> m.kind = "caps" \/ Has({"caps"}, state'.outbox)
        <3>1. Has({"caps"}, box) <=> m.kind = "caps" \/ Has({"caps"}, Tail(box))
            BY <1>1, <1>2, HasTail DEF m
        <3> QED
            BY <1>6, <3>1
    <2>6. CapsOut => CapsOut'
        BY <1>1, <2>4, <2>5 DEF CapsOut, box
    <2> QED
        BY <2>1, <2>2, <2>3, <2>6
<1>12. Growing'
    <2>1. Tells(inCh', state.announced)
        BY <1>1, <1>2, <1>4, TellAppend DEF BInv, Growing
    <2> QED
        BY <1>1, <1>6, <2>1 DEF BInv, Growing
<1>13. Paired'
    <2> DEFINE n == Len(server.asked)
               a == Len(server.answers)
    <2>1. PICK c1 \in Nat :
            /\ c1 <= n /\ Answering(toServer, a, c1, server.asked)
            /\ Live => \E c2, c3, c4 \in Nat :
                /\ Answering(inCh, c1, c2, server.asked)
                /\ Answering(box, c2, c3, server.asked)
                /\ Wanted(outCh, c3, c4) /\ Wanted(toClient, c4, n)
        BY DEF BInv, Paired, box
    <2>2. ASSUME Live
          PROVE  \E c2, c3, c4 \in Nat :
                    /\ Answering(inCh', c1, c2, server.asked)
                    /\ Answering(state'.outbox, c2, c3, server.asked)
                    /\ Wanted(outCh, c3, c4) /\ Wanted(toClient, c4, n)
        <3>1. PICK c2, c3, c4 \in Nat :
                /\ Answering(inCh, c1, c2, server.asked)
                /\ Answering(box, c2, c3, server.asked)
                /\ Wanted(outCh, c3, c4) /\ Wanted(toClient, c4, n)
            BY <2>1, <2>2
        <3>2. \E c \in Nat : /\ Answering(inCh', c1, c, server.asked)
                             /\ Answering(state'.outbox, c, c3, server.asked)
            <4>1. \E c \in Nat : /\ Answering(Append(inCh, m), c1, c, server.asked)
                                 /\ Answering(Tail(box), c, c3, server.asked)
                BY <1>1, <1>2, <1>4, <3>1, AnswerMove DEF m
            <4> QED
                BY <1>1, <1>6, <4>1
        <3> QED
            BY <3>1, <3>2
    <2> QED
        BY <1>1, <1>7, <2>1, <2>2 DEF Paired
<1>14. Stopped' /\ SizesAgree' /\ AnswersAnnounced'
    BY <1>1, <1>6 DEF BInv, Stopped, SizesAgree, AnswersAnnounced
<1> QED
    BY <1>8, <1>9, <1>10, <1>11, <1>12, <1>13, <1>14 DEF BInv

(* What a send carries is no reply, is numbered as the latest text, and    *)
(* needs caps where it belongs to the extended clipboard.                  *)
LEMMA CarriedIs ==
    ASSUME BInv, Sending
    PROVE  /\ Carried.out \in Upward /\ Carried.out.kind \notin {"fence", "answer"}
           /\ Carried.out.kind \in Extended => state.caps # "none"
           /\ \/ Carried.st = state /\ Carried.out.kind # "notify"
              \/ /\ Carried.st = [state EXCEPT !.announced = session.pastes]
                 /\ Carried.out.kind = "notify" /\ Carried.out.arg = session.pastes
<1>1. /\ session \in SessionSet /\ state \in StateSet /\ session.input # None
    BY DEF BInv, Typed, Sending
<1>2. session.input \in Inputs
    BY <1>1 DEF SessionSet
<1>3. CASE session.input.kind = "paste"
    <2> DEFINE n == session.input.arg
    <2>1. n \in Texts /\ n = session.pastes
        BY <1>1, <1>2, <1>3 DEF BInv, Growing, Inputs
    <2>2. Carried = Paste(state, n, session.input.small)
        BY <1>3 DEF Carried
    <2>3. CASE state.caps = "none"
        <3>1. Carried = [out |-> Message("text", n), st |-> state]
            BY <2>2, <2>3 DEF Paste
        <3>2. Message("text", n) \in Upward /\ Message("text", n).kind = "text"
            BY <2>1 DEF Message, Upward
        <3> QED
            BY <3>1, <3>2 DEF Extended
    <2>4. CASE state.caps # "none" /\ (session.input.small \/ state.caps = "provide")
        <3>1. Carried = [out |-> Message("provide", n), st |-> state]
            BY <2>2, <2>4 DEF Paste
        <3>2. Message("provide", n) \in Upward /\ Message("provide", n).kind = "provide"
            BY <2>1 DEF Message, Upward
        <3> QED
            BY <2>4, <3>1, <3>2
    <2>5. CASE state.caps # "none" /\ ~(session.input.small \/ state.caps = "provide")
        <3>1. Carried = [out |-> Message("notify", n),
                         st |-> [state EXCEPT !.announced = n]]
            BY <2>2, <2>5 DEF Paste
        <3>2. /\ Message("notify", n) \in Upward /\ Message("notify", n).kind = "notify"
              /\ Message("notify", n).arg = n
            BY <2>1 DEF Message, Upward
        <3> QED
            BY <2>1, <2>5, <3>1, <3>2
    <2> QED
        BY <2>3, <2>4, <2>5
<1>4. CASE session.input.kind # "paste"
    <2>1. session.input.arg \in {"up", "down"}
        BY <1>2, <1>4 DEF Inputs
    <2>2. Carried = [out |-> Message("key", session.input.arg), st |-> state]
        BY <1>4 DEF Carried
    <2>3. /\ Message("key", session.input.arg) \in Upward
          /\ Message("key", session.input.arg).kind = "key"
        BY <2>1 DEF Message, Upward
    <2> QED
        BY <2>2, <2>3 DEF Extended
<1> QED
    BY <1>3, <1>4

LEMMA SendKeeps == BInv /\ Send => BInv'
<1> SUFFICES ASSUME BInv, Send PROVE BInv'
    OBVIOUS
<1> USE BackendConstants
<1> DEFINE m == Carried.out
<1>1. /\ UNCHANGED <<screen, outCh, writer, toServer, toClient, server>>
      /\ Len(inCh) < Room /\ writer = "running" /\ session.at # "closed"
      /\ inCh' = Append(inCh, m) /\ state' = Carried.st /\ session' = Sent
      /\ state.outbox = <<>> /\ Sending
    BY DEF Send, HasRoom, Sending
<1>2. /\ inCh \in Seq(Upward) /\ session \in SessionSet /\ state \in StateSet
      /\ state.announced \in Nat /\ session.pastes \in 0 .. MaxPastes
      /\ toServer \in Seq(Upward)
    BY DEF BInv, Typed, StateSet, SessionSet
<1>3. /\ m \in Upward /\ m.kind # "fence" /\ m.kind # "answer"
      /\ m.kind \in Extended => state.caps # "none"
      /\ \/ Carried.st = state /\ m.kind # "notify"
         \/ /\ Carried.st = [state EXCEPT !.announced = session.pastes]
            /\ m.kind = "notify" /\ m.arg = session.pastes
    BY <1>1, CarriedIs
<1> HIDE DEF m
<1>4. /\ state' \in StateSet /\ state'.outbox = state.outbox /\ state'.size = state.size
      /\ state'.caps = state.caps
      /\ \/ state'.announced = state.announced /\ m.kind # "notify"
         \/ state'.announced = session.pastes /\ m.kind = "notify" /\ m.arg = session.pastes
    BY <1>1, <1>2, <1>3 DEF StateSet
<1>5. /\ session' \in SessionSet /\ session'.pastes = session.pastes
      /\ session'.input = None /\ session'.at # "closed"
    BY <1>1, <1>2 DEF Sent, SessionSet
<1>6. inCh' \in Seq(Upward) /\ Len(inCh') = Len(inCh) + 1 /\ Len(inCh) \in Nat
    BY <1>1, <1>2, <1>3, AppendProperties, LenProperties
<1>7. Live' /\ Live
    BY <1>1, <1>5 DEF Live
<1>8. Typed'
    BY <1>1, <1>4, <1>5, <1>6 DEF BInv, Typed
<1>9. Short'
    <2>1. Len(inCh') <= Room
        BY <1>1, <1>6
    <2> QED
        BY <1>1, <2>1 DEF BInv, Short
<1>10. Ordered'
    <2>1. PICK c1, c2, c3, c4 \in Nat :
                /\ Fenced(toServer, server.echoed, c1) /\ Fenced(inCh, c1, c2)
                /\ Fenced(state.outbox, c2, c3)
                /\ Fenced(outCh, c3, c4) /\ Fenced(toClient, c4, server.fenced)
        BY <1>7 DEF BInv, Ordered
    <2>2. Fenced(inCh', c1, c2)
        BY <1>1, <1>2, <1>3, <2>1, FenceAppend
    <2> QED
        BY <1>1, <1>4, <2>1, <2>2 DEF Ordered
<1>11. CapsAhead'
    <2> SUFFICES ASSUME ~server.agreed
                 PROVE  /\ Has({"caps"}, toServer) \/ Ready(inCh')
                        /\ state'.caps # "none" \/ state'.announced # 0 => CapsOut'
        BY <1>1, <1>4 DEF BInv, CapsAhead
    <2>1. /\ Has({"caps"}, toServer) \/ Ready(inCh)
          /\ state.caps # "none" \/ state.announced # 0 => CapsOut
        BY <1>7 DEF BInv, CapsAhead
    <2>2. ~Has({"caps"}, state.outbox)
        BY <1>1, HasNone
    <2>3. m.kind \in Extended => Has({"caps"}, toServer) \/ Has({"caps"}, inCh)
        BY <1>3, <2>1, <2>2 DEF CapsOut
    <2>4. Has({"caps"}, toServer) \/ Ready(inCh')
        BY <1>1, <1>2, <1>3, <2>1, <2>3, ReadyAppend
    <2>5. Has({"caps"}, inCh) => Has({"caps"}, inCh')
        BY <1>1, <1>2, <1>3, HasAppend
    <2>6. CapsOut => CapsOut'
        BY <1>1, <1>4, <2>5 DEF CapsOut
    <2>7. m.kind = "notify" => state.caps # "none"
        BY <1>3 DEF Extended
    <2> QED
        BY <1>4, <2>1, <2>4, <2>6, <2>7
<1>12. Growing'
    <2> DEFINE a == state.announced
               b == state'.announced
    <2>1. /\ a <= session.pastes /\ server.notified <= a
          /\ \A i \in 1 .. Len(server.asked) : server.asked[i] <= a
          /\ Tells(toServer, a) /\ Tells(inCh, a)
          /\ session.pastes # 0 => ClipboardWanted
        BY DEF BInv, Growing
    <2>2. a \in Nat /\ b \in Nat /\ a <= b /\ b <= session.pastes
        BY <1>2, <1>4, <2>1
    <2>3. /\ server.notified \in Nat /\ Len(server.asked) \in Nat
          /\ \A i \in 1 .. Len(server.asked) : server.asked[i] \in Nat
        <3>1. server \in ServerSet
            BY DEF BInv, Typed
        <3>2. server.asked \in Seq(Texts)
            BY <3>1 DEF ServerSet
        <3>3. \A i \in 1 .. Len(server.asked) : server.asked[i] \in Texts
            BY <3>2, ElementOfSeq
        <3> QED
            BY <3>1, <3>2, <3>3, LenProperties DEF ServerSet, Texts
    <2>4. \A q \in Seq(Upward) : \A i \in 1 .. Len(q) : q[i].kind = "notify" => q[i].arg \in Nat
        <3>1. \A u \in Upward : u.kind = "notify" => u.arg \in Nat
            BY DEF Upward, Reply, FenceMessage, Texts
        <3>2. \A q \in Seq(Upward) : \A i \in 1 .. Len(q) : q[i] \in Upward
            BY ElementOfSeq
        <3> QED
            BY <3>1, <3>2
    <2>5. Tells(toServer, b) /\ Tells(inCh, b)
        BY <1>2, <2>1, <2>2, <2>4, TellMore
    <2>6. m.kind = "notify" => m.arg <= b
        BY <1>2, <1>4, <2>2
    <2>7. Tells(inCh', b)
        BY <1>1, <1>2, <1>3, <2>5, <2>6, TellAppend
    <2> HIDE DEF a, b
    <2>8. /\ server.notified <= b
          /\ \A i \in 1 .. Len(server.asked) : server.asked[i] <= b
        BY <2>1, <2>2, <2>3
    <2> QED
        BY <1>1, <1>5, <2>1, <2>2, <2>5, <2>7, <2>8 DEF Growing, b
<1>13. Paired'
    <2> DEFINE n == Len(server.asked)
    <2>1. PICK c1, c2, c3, c4 \in Nat :
            /\ c1 <= n /\ Answering(toServer, Len(server.answers), c1, server.asked)
            /\ Answering(inCh, c1, c2, server.asked)
            /\ Answering(state.outbox, c2, c3, server.asked)
            /\ Wanted(outCh, c3, c4) /\ Wanted(toClient, c4, n)
        BY <1>7 DEF BInv, Paired
    <2>2. Answering(inCh', c1, c2, server.asked)
        BY <1>1, <1>2, <1>3, <2>1, AnswerAppend
    <2> QED
        BY <1>1, <1>4, <2>1, <2>2 DEF Paired
<1>14. Stopped' /\ SizesAgree' /\ AnswersAnnounced'
    BY <1>1, <1>4, <1>5 DEF BInv, Stopped, SizesAgree, AnswersAnnounced
<1> QED
    BY <1>8, <1>9, <1>10, <1>11, <1>12, <1>13, <1>14 DEF BInv

-----------------------------------------------------------------------------
(* The server reads.                                                       *)
LEMMA HearsIs ==
    ASSUME server \in ServerSet, NEW m \in Upward
    PROVE  /\ Hears(m) \in ServerSet
           /\ Hears(m).fenced = server.fenced /\ Hears(m).asked = server.asked
           /\ Hears(m).echoed = IF m.kind = "fence" THEN m.arg ELSE server.echoed
           /\ Hears(m).notified = IF m.kind = "notify" THEN m.arg ELSE server.notified
           /\ Hears(m).answers = IF m.kind = "answer" THEN Append(server.answers, m.arg)
                                                    ELSE server.answers
           /\ m.kind # "caps" => Hears(m).agreed = server.agreed
           /\ m.kind = "caps" => Hears(m).agreed
<1> DEFINE h == Hears(m)
<1>1. CASE m.kind = "fence"
    <2>1. h = [server EXCEPT !.echoed = m.arg] /\ m.arg \in Nat
        BY <1>1 DEF Hears, Upward, Reply, FenceMessage
    <2> HIDE DEF h
    <2>2. /\ h \in ServerSet /\ h.fenced = server.fenced /\ h.asked = server.asked
          /\ h.echoed = m.arg /\ h.notified = server.notified /\ h.answers = server.answers
        BY <2>1 DEF ServerSet
    <2>3. h.agreed = server.agreed
        BY <2>1 DEF ServerSet
    <2> QED
        BY <1>1, <2>2, <2>3 DEF h
<1>2. CASE m.kind = "enable"
    <2>1. h = [server EXCEPT !.pushing = m.arg] /\ m.arg \in Sizes
        BY <1>2 DEF Hears, Upward, Reply, FenceMessage
    <2> HIDE DEF h
    <2>2. /\ h \in ServerSet /\ h.fenced = server.fenced /\ h.asked = server.asked
          /\ h.echoed = server.echoed /\ h.notified = server.notified
          /\ h.answers = server.answers
        BY <2>1 DEF ServerSet
    <2>3. h.agreed = server.agreed
        BY <2>1 DEF ServerSet
    <2> QED
        BY <1>2, <2>2, <2>3 DEF h
<1>3. CASE m.kind = "caps"
    <2>1. h = [server EXCEPT !.agreed = TRUE]
        BY <1>3 DEF Hears
    <2> HIDE DEF h
    <2>2. /\ h \in ServerSet /\ h.fenced = server.fenced /\ h.asked = server.asked
          /\ h.echoed = server.echoed /\ h.notified = server.notified
          /\ h.answers = server.answers
        BY <2>1 DEF ServerSet
    <2>3. h.agreed
        BY <2>1 DEF ServerSet
    <2> QED
        BY <1>3, <2>2, <2>3 DEF h
<1>4. CASE m.kind = "notify"
    <2>1. h = [server EXCEPT !.notified = m.arg] /\ m.arg \in 0 .. MaxPastes
        BY <1>4, BackendConstants DEF Hears, Upward, Reply, FenceMessage, Texts
    <2> HIDE DEF h
    <2>2. /\ h \in ServerSet /\ h.fenced = server.fenced /\ h.asked = server.asked
          /\ h.echoed = server.echoed /\ h.notified = m.arg /\ h.answers = server.answers
        BY <2>1 DEF ServerSet
    <2>3. h.agreed = server.agreed
        BY <2>1 DEF ServerSet
    <2> QED
        BY <1>4, <2>2, <2>3 DEF h
<1>5. CASE m.kind = "answer"
    <2>1. h = [server EXCEPT !.answers = Append(@, m.arg)] /\ m.arg \in Texts
        BY <1>5 DEF Hears, Upward, Reply, FenceMessage
    <2>2. Append(server.answers, m.arg) \in Seq(Texts)
        BY <2>1, AppendProperties DEF ServerSet
    <2> HIDE DEF h
    <2>3. /\ h \in ServerSet /\ h.fenced = server.fenced /\ h.asked = server.asked
          /\ h.echoed = server.echoed /\ h.notified = server.notified
          /\ h.answers = Append(server.answers, m.arg)
        BY <2>1, <2>2 DEF ServerSet
    <2>4. h.agreed = server.agreed
        BY <2>1 DEF ServerSet
    <2> QED
        BY <1>5, <2>3, <2>4 DEF h
<1>6. CASE m.kind = "key"
    <2>1. h = [server EXCEPT !.keyDown = (m.arg = "down")]
        BY <1>6 DEF Hears
    <2> HIDE DEF h
    <2>2. /\ h \in ServerSet /\ h.fenced = server.fenced /\ h.asked = server.asked
          /\ h.echoed = server.echoed /\ h.notified = server.notified
          /\ h.answers = server.answers
        BY <2>1 DEF ServerSet
    <2>3. h.agreed = server.agreed
        BY <2>1 DEF ServerSet
    <2> QED
        BY <1>6, <2>2, <2>3 DEF h
<1>7. CASE m.kind \notin {"fence", "enable", "caps", "notify", "answer", "key"}
    <2>1. h = server
        BY <1>7 DEF Hears
    <2> QED
        BY <1>7, <2>1
<1> QED
    BY <1>1, <1>2, <1>3, <1>4, <1>5, <1>6, <1>7

LEMMA ServerReadsKeeps == BInv /\ ServerReads => BInv'
<1> SUFFICES ASSUME BInv, ServerReads PROVE BInv'
    OBVIOUS
<1> USE BackendConstants
<1> DEFINE m == Head(toServer)
           n == Len(server.asked)
           a == Len(server.answers)
<1>1. /\ UNCHANGED <<session, state, screen, inCh, outCh, writer, toClient>>
      /\ toServer # <<>> /\ toServer' = Tail(toServer) /\ server' = Hears(m)
    BY DEF ServerReads
<1>2. /\ toServer \in Seq(Upward) /\ server \in ServerSet /\ server.echoed \in Nat
      /\ server.asked \in Seq(Texts) /\ server.answers \in Seq(Texts)
      /\ n \in Nat /\ a \in Nat
    BY LenProperties DEF BInv, Typed, ServerSet
<1>3. /\ m \in Upward /\ toServer' \in Seq(Upward) /\ Len(toServer') = Len(toServer) - 1
      /\ Len(toServer) \in Nat
    BY <1>1, <1>2, HeadTailProperties, EmptySeq, LenProperties
<1> HIDE DEF m
<1>4. /\ server' \in ServerSet
      /\ server'.fenced = server.fenced /\ server'.asked = server.asked
      /\ server'.echoed = IF m.kind = "fence" THEN m.arg ELSE server.echoed
      /\ server'.notified = IF m.kind = "notify" THEN m.arg ELSE server.notified
      /\ server'.answers = IF m.kind = "answer" THEN Append(server.answers, m.arg)
                                               ELSE server.answers
      /\ m.kind # "caps" => server'.agreed = server.agreed
      /\ m.kind = "caps" => server'.agreed
    BY <1>1, <1>2, <1>3, HearsIs
<1>5. Live' <=> Live
    BY <1>1 DEF Live
<1>6. Typed'
    BY <1>1, <1>3, <1>4 DEF BInv, Typed
<1>7. Short'
    <2>1. Len(toServer') <= Wire
        BY <1>3 DEF BInv, Short
    <2> QED
        BY <1>1, <2>1 DEF BInv, Short
<1>8. Ordered'
    <2> SUFFICES ASSUME Live
                 PROVE  \E c1, c2, c3, c4 \in Nat :
                            /\ Fenced(toServer', server'.echoed, c1) /\ Fenced(inCh, c1, c2)
                            /\ Fenced(state.outbox, c2, c3)
                            /\ Fenced(outCh, c3, c4) /\ Fenced(toClient, c4, server.fenced)
        BY <1>1, <1>4, <1>5 DEF Ordered
    <2>1. PICK c1, c2, c3, c4 \in Nat :
                /\ Fenced(toServer, server.echoed, c1) /\ Fenced(inCh, c1, c2)
                /\ Fenced(state.outbox, c2, c3)
                /\ Fenced(outCh, c3, c4) /\ Fenced(toClient, c4, server.fenced)
        BY DEF BInv, Ordered
    <2>2. /\ m.kind # "fence" => Fenced(toServer', server.echoed, c1)
          /\ m.kind = "fence" =>
                m.arg = server.echoed + 1 /\ Fenced(toServer', server.echoed + 1, c1)
        BY <1>1, <1>2, <2>1, FenceTail DEF m
    <2>3. Fenced(toServer', server'.echoed, c1)
        BY <1>4, <2>2
    <2> QED
        BY <2>1, <2>3
<1>9. CapsAhead'
    <2> SUFFICES ASSUME ~server.agreed, m.kind # "caps"
                 PROVE  /\ Ready(toServer') /\ (Has({"caps"}, toServer) <=> Has({"caps"}, toServer'))
                        /\ server'.notified = server.notified
        BY <1>1, <1>4, <1>5 DEF BInv, CapsAhead, CapsOut
    <2>1. m.kind \notin Extended /\ Ready(toServer')
        BY <1>1, <1>2, ReadyTail DEF BInv, CapsAhead, m
    <2>2. Has({"caps"}, toServer) <=> m.kind \in {"caps"} \/ Has({"caps"}, toServer')
        BY <1>1, <1>2, HasTail DEF m
    <2>3. server'.notified = server.notified
        BY <1>4, <2>1 DEF Extended
    <2> QED
        BY <2>1, <2>2, <2>3
<1>10. Growing'
    <2>1. (m.kind = "notify" => m.arg <= state.announced) /\ Tells(toServer', state.announced)
        BY <1>1, <1>2, TellTail DEF BInv, Growing, m
    <2>2. server'.notified <= state.announced
        BY <1>4, <2>1 DEF BInv, Growing
    <2> QED
        BY <1>1, <1>4, <2>1, <2>2 DEF BInv, Growing
<1>11. PICK c1 \in Nat :
        /\ c1 <= n /\ Answering(toServer, a, c1, server.asked)
        /\ Live => \E c2, c3, c4 \in Nat :
            /\ Answering(inCh, c1, c2, server.asked)
            /\ Answering(state.outbox, c2, c3, server.asked)
            /\ Wanted(outCh, c3, c4) /\ Wanted(toClient, c4, n)
    BY DEF BInv, Paired
<1>12. /\ m.kind # "answer" => Answering(toServer', a, c1, server.asked)
       /\ m.kind = "answer" =>
            /\ m.arg >= server.asked[a + 1] /\ a + 1 <= c1
            /\ Answering(toServer', a + 1, c1, server.asked)
    BY <1>1, <1>2, <1>11, AnswerTail DEF m
<1>13. m.kind = "answer" =>
        /\ Len(server'.answers) = a + 1 /\ server'.answers[a + 1] = m.arg
        /\ \A i \in 1 .. a : server'.answers[i] = server.answers[i]
    <2> SUFFICES ASSUME m.kind = "answer"
                 PROVE  /\ Len(server'.answers) = a + 1 /\ server'.answers[a + 1] = m.arg
                        /\ \A i \in 1 .. a : server'.answers[i] = server.answers[i]
        OBVIOUS
    <2>1. m.arg \in Texts
        BY <1>3 DEF Upward, Reply, FenceMessage
    <2> DEFINE b == Append(server.answers, m.arg)
    <2>2. /\ Len(b) = a + 1 /\ b[a + 1] = m.arg
          /\ \A i \in 1 .. a : b[i] = server.answers[i]
        BY <1>2, <2>1, AppendedTo
    <2>3. server'.answers = b
        BY <1>4
    <2> HIDE DEF b
    <2> QED
        BY <2>2, <2>3
<1>14. Paired'
    <2>1. Answering(toServer', Len(server'.answers), c1, server.asked)
        BY <1>4, <1>12, <1>13
    <2> QED
        BY <1>1, <1>4, <1>5, <1>11, <2>1 DEF Paired
<1>15. AnswersAnnounced'
    <2>1. \A i \in 1 .. a : server.answers[i] >= server.asked[i]
        BY <1>2 DEF BInv, AnswersAnnounced
    <2>2. CASE m.kind # "answer"
        BY <1>4, <2>2 DEF BInv, AnswersAnnounced
    <2>3. CASE m.kind = "answer"
        <3>1. server'.answers \in Seq(Texts)
            BY <1>4 DEF ServerSet
        <3>2. DOMAIN server'.answers = 1 .. a + 1
            BY <1>13, <2>3, <3>1
        <3>3. ASSUME NEW i \in 1 .. a + 1 PROVE server'.answers[i] >= server'.asked[i]
            <4>1. i \in 1 .. a \/ i = a + 1
                BY <1>2
            <4> QED
                BY <1>4, <1>12, <1>13, <2>1, <2>3, <4>1
        <3> QED
            BY <3>2, <3>3 DEF AnswersAnnounced
    <2> QED
        BY <2>2, <2>3
<1>16. Stopped' /\ SizesAgree'
    BY <1>1 DEF BInv, Stopped, SizesAgree
<1> QED
    BY <1>6, <1>7, <1>8, <1>9, <1>10, <1>14, <1>15, <1>16 DEF BInv

-----------------------------------------------------------------------------
(* The session hears of it.                                                *)
LEMMA OweIs ==
    ASSUME NEW st \in StateSet, NEW r \in Reply
    PROVE  /\ Owe(st, r) \in StateSet /\ Owe(st, r).outbox = Append(st.outbox, r)
           /\ Owe(st, r).size = st.size /\ Owe(st, r).caps = st.caps
           /\ Owe(st, r).announced = st.announced /\ Owe(st, r).pushingFor = st.pushingFor
<1>1. Append(st.outbox, r) \in Seq(Reply)
    BY AppendProperties DEF StateSet
<1> QED
    BY <1>1 DEF Owe, StateSet

(* What is owed to a server that pushes is another size at most.           *)
Pushed(st, after) ==
    /\ after \in StateSet /\ after.caps = st.caps /\ after.announced = st.announced
    /\ \/ after.outbox = st.outbox
       \/ \E r \in Reply : r.kind = "enable" /\ after.outbox = Append(st.outbox, r)

LEMMA EnablePushingIs ==
    ASSUME NEW st \in StateSet
    PROVE  Pushed(st, EnablePushing(st)) /\ EnablePushing(st).size = st.size
<1>1. CASE st.pushingFor = st.size
    BY <1>1 DEF EnablePushing, Pushed
<1>2. CASE st.pushingFor # st.size
    <2> DEFINE r == Message("enable", st.size)
               o == Owe(st, r)
               e == EnablePushing(st)
    <2>1. r \in Reply /\ r.kind = "enable" /\ st.size \in Sizes
        BY ReplyIs DEF StateSet, Message
    <2>2. e = [o EXCEPT !.pushingFor = st.size]
        BY <1>2 DEF EnablePushing
    <2>3. /\ o \in StateSet /\ o.outbox = Append(st.outbox, r) /\ o.size = st.size
          /\ o.caps = st.caps /\ o.announced = st.announced
        BY <2>1, OweIs
    <2> HIDE DEF r, o, e
    <2>4. /\ e \in StateSet /\ e.outbox = o.outbox /\ e.size = o.size
          /\ e.caps = o.caps /\ e.announced = o.announced
        BY <2>1, <2>2, <2>3 DEF StateSet
    <2>5. Pushed(st, e) /\ e.size = st.size
        BY <2>1, <2>3, <2>4 DEF Pushed
    <2> QED
        BY <2>5 DEF e
<1> QED
    BY <1>1, <1>2

LEMMA AdoptSizeIs ==
    ASSUME NEW st \in StateSet, NEW s \in Sizes \cup {Zero}
    PROVE  /\ Pushed(st, AdoptSize(st, s))
           /\ s \in {AdoptSize(st, s).size, Zero}
<1> DEFINE known == [st EXCEPT !.size = s]
           again == [known EXCEPT !.pushingFor = None]
<1>1. CASE s \in {st.size, Zero}
    BY <1>1 DEF AdoptSize, Pushed
<1>2. CASE s \notin {st.size, Zero}
    <2>1. /\ known \in StateSet /\ known.size = s /\ known.caps = st.caps
          /\ known.announced = st.announced /\ known.outbox = st.outbox
        BY <1>2 DEF StateSet
    <2>2. AdoptSize(st, s) = IF st.pushingFor = None THEN known ELSE EnablePushing(again)
        BY <1>2 DEF AdoptSize
    <2> HIDE DEF known
    <2>3. /\ again \in StateSet /\ again.size = s /\ again.caps = st.caps
          /\ again.announced = st.announced /\ again.outbox = st.outbox
        BY <2>1 DEF StateSet
    <2> HIDE DEF again
    <2>4. Pushed(again, EnablePushing(again)) /\ EnablePushing(again).size = s
        BY <2>3, EnablePushingIs
    <2>5. Pushed(st, EnablePushing(again)) /\ Pushed(st, known)
        BY <2>1, <2>3, <2>4 DEF Pushed
    <2> QED
        BY <2>1, <2>2, <2>4, <2>5
<1> QED
    BY <1>1, <1>2

(* What the backend does with what it hears, event by event.               *)
LEMMA TranslateIs ==
    ASSUME NEW st \in StateSet, NEW m \in Downward
    PROVE  /\ m.kind \notin {"fence", "caps", "notify", "request"} =>
                Pushed(st, Translate(st, m))
           /\ m.kind = "fence" => m \in Reply /\ Translate(st, m) = Owe(st, m)
           /\ m.kind = "caps" => Translate(st, m) = OnCaps(st, m.arg) /\ m.arg \in Caps
           /\ m.kind = "notify" => Translate(st, m) = OnNotify(st)
           /\ m.kind = "request" => Translate(st, m) = OnRequest(st)
<1>1. CASE m.kind = "size"
    <2>1. m.arg \in Sizes \cup {Zero}
        BY <1>1 DEF Downward, FenceMessage
    <2>2. Translate(st, m) = OnSize(st, m)
        BY <1>1 DEF Translate
    <2>3. Pushed(st, AdoptSize(st, m.arg)) /\ Pushed(st, st)
        BY <2>1, AdoptSizeIs DEF Pushed
    <2>4. Pushed(st, OnSize(st, m))
        BY <2>3 DEF OnSize
    <2> QED
        BY <1>1, <2>2, <2>4
<1>2. CASE m.kind = "end of pushing"
    <2> DEFINE again == [st EXCEPT !.pushingFor = None]
    <2>1. Translate(st, m) = OnEnd(st)
        BY <1>2 DEF Translate
    <2>2. /\ again \in StateSet /\ again.caps = st.caps /\ again.outbox = st.outbox
          /\ again.announced = st.announced
        BY DEF StateSet
    <2>3. OnEnd(st) = IF PushWanted THEN EnablePushing(again) ELSE st
        BY DEF OnEnd
    <2> HIDE DEF again
    <2>4. Pushed(again, EnablePushing(again))
        BY <2>2, EnablePushingIs
    <2>5. Pushed(st, EnablePushing(again)) /\ Pushed(st, st)
        BY <2>2, <2>4 DEF Pushed
    <2> QED
        BY <1>2, <2>1, <2>3, <2>5
<1>3. CASE m.kind = "fence"
    BY <1>3, ReplyIs DEF Translate
<1>4. CASE m.kind = "caps"
    <2>1. m.arg \in Caps
        BY <1>4 DEF Downward, FenceMessage
    <2> QED
        BY <1>4, <2>1 DEF Translate
<1>5. CASE m.kind = "notify"
    BY <1>5 DEF Translate
<1>6. CASE m.kind = "request"
    BY <1>6 DEF Translate
<1>7. CASE m.kind \notin {"size", "end of pushing", "fence", "caps", "notify", "request"}
    <2>1. Translate(st, m) = st
        BY <1>7 DEF Translate
    <2> QED
        BY <1>7, <2>1 DEF Pushed
<1> QED
    BY <1>1, <1>2, <1>3, <1>4, <1>5, <1>6, <1>7

(* What it owes for a message, taken together.                             *)
Owed(st, m, after) ==
    /\ after \in StateSet /\ after.announced = st.announced
    /\ m.kind # "caps" => after.caps = st.caps
    /\ \/ after.outbox = st.outbox /\ m.kind \notin {"fence", "caps"}
          /\ (m.kind = "request" => ~(ClipboardWanted /\ st.announced # 0))
       \/ \E r \in Reply :
            /\ after.outbox = Append(st.outbox, r)
            /\ m.kind = "fence" => r = m
            /\ r.kind = "fence" => r = m
            /\ m.kind = "caps" => r.kind = "caps"
            /\ r.kind = "request" => m.kind = "notify"
            /\ r.kind = "answer" => m.kind = "request"
            /\ m.kind = "request" => r.kind = "answer" /\ r.arg = st.announced

LEMMA AfterHearing ==
    ASSUME NEW st \in StateSet, NEW m \in Downward
    PROVE  Owed(st, m, Translate(st, m))
<1> DEFINE t == Translate(st, m)
<1>1. CASE m.kind \notin {"fence", "caps", "notify", "request"}
    <2>1. Pushed(st, t)
        BY <1>1, TranslateIs
    <2> SUFFICES Owed(st, m, t)
        OBVIOUS
    <2> HIDE DEF t
    <2>2. CASE t.outbox = st.outbox
        BY <1>1, <2>1, <2>2 DEF Pushed, Owed
    <2>3. CASE \E r \in Reply : r.kind = "enable" /\ t.outbox = Append(st.outbox, r)
        <3>1. PICK r \in Reply : r.kind = "enable" /\ t.outbox = Append(st.outbox, r)
            BY <2>3
        <3>2. t \in StateSet /\ t.announced = st.announced /\ t.caps = st.caps
            BY <2>1 DEF Pushed
        <3> QED
            BY <1>1, <3>1, <3>2 DEF Owed
    <2> QED
        BY <2>1, <2>2, <2>3 DEF Pushed
<1>2. CASE m.kind = "fence"
    <2>1. m \in Reply /\ t = Owe(st, m)
        BY <1>2, TranslateIs
    <2>2. /\ t \in StateSet /\ t.outbox = Append(st.outbox, m)
          /\ t.announced = st.announced /\ t.caps = st.caps
        BY <2>1, OweIs
    <2> HIDE DEF t
    <2>3. Owed(st, m, t)
        BY <1>2, <2>1, <2>2 DEF Owed
    <2> QED
        BY <2>3 DEF t
<1>3. CASE m.kind = "caps"
    <2> DEFINE r == Message("caps", 0)
               u == [st EXCEPT !.caps = m.arg]
    <2>1. m.arg \in Caps /\ t = Owe(u, r)
        BY <1>3, TranslateIs DEF OnCaps
    <2>2. u \in StateSet /\ u.outbox = st.outbox /\ u.announced = st.announced
        BY <2>1 DEF StateSet
    <2>3. r \in Reply /\ r.kind = "caps"
        BY ReplyIs DEF Message
    <2> HIDE DEF t, u, r
    <2>4. /\ t \in StateSet /\ t.outbox = Append(st.outbox, r) /\ t.announced = st.announced
        BY <2>1, <2>2, <2>3, OweIs
    <2>5. Owed(st, m, t)
        BY <1>3, <2>3, <2>4 DEF Owed
    <2> QED
        BY <2>5 DEF t
<1>4. CASE m.kind = "notify"
    <2> DEFINE r == Message("request", 0)
    <2>1. t = IF ClipboardWanted THEN Owe(st, r) ELSE st
        BY <1>4, TranslateIs DEF OnNotify
    <2>2. r \in Reply /\ r.kind = "request"
        BY ReplyIs DEF Message
    <2> HIDE DEF t, r
    <2>3. CASE ClipboardWanted
        <3>1. /\ t \in StateSet /\ t.outbox = Append(st.outbox, r)
              /\ t.announced = st.announced /\ t.caps = st.caps
            BY <2>1, <2>2, <2>3, OweIs
        <3>2. Owed(st, m, t)
            BY <1>4, <2>2, <3>1 DEF Owed
        <3> QED
            BY <3>2 DEF t
    <2>4. CASE ~ClipboardWanted
        <3>1. t = st
            BY <2>1, <2>4
        <3>2. Owed(st, m, t)
            BY <1>4, <3>1 DEF Owed
        <3> QED
            BY <3>2 DEF t
    <2> QED
        BY <2>3, <2>4
<1>5. CASE m.kind = "request"
    <2> DEFINE r == Message("answer", st.announced)
    <2>1. t = IF ClipboardWanted /\ st.announced # 0 THEN Owe(st, r) ELSE st
        BY <1>5, TranslateIs DEF OnRequest
    <2>2. st.announced # 0 => r \in Reply /\ r.kind = "answer" /\ r.arg = st.announced
        <3>1. st.announced # 0 => st.announced \in Texts
            BY BackendConstants DEF StateSet, Texts
        <3> QED
            BY <3>1, ReplyIs DEF Message
    <2> HIDE DEF t, r
    <2>3. CASE ClipboardWanted /\ st.announced # 0
        <3>1. /\ t \in StateSet /\ t.outbox = Append(st.outbox, r)
              /\ t.announced = st.announced /\ t.caps = st.caps
            BY <2>1, <2>2, <2>3, OweIs
        <3>2. Owed(st, m, t)
            BY <1>5, <2>2, <2>3, <3>1 DEF Owed
        <3> QED
            BY <3>2 DEF t
    <2>4. CASE ~(ClipboardWanted /\ st.announced # 0)
        <3>1. t = st
            BY <2>1, <2>4
        <3>2. Owed(st, m, t)
            BY <1>5, <2>4, <3>1 DEF Owed
        <3> QED
            BY <3>2 DEF t
    <2> QED
        BY <2>3, <2>4
<1> QED
    BY <1>1, <1>2, <1>3, <1>4, <1>5

(* Only a size the server stands behind changes the size that is known.    *)
LEMMA SizeStays ==
    ASSUME NEW st \in StateSet, NEW m \in Downward, ~(m.kind = "size" /\ m.stands)
    PROVE  Translate(st, m).size = st.size
<1>1. CASE m.kind = "size"
    BY <1>1 DEF Translate, OnSize
<1>2. CASE m.kind = "end of pushing"
    <2> DEFINE again == [st EXCEPT !.pushingFor = None]
    <2>1. Translate(st, m) = IF PushWanted THEN EnablePushing(again) ELSE st
        BY <1>2 DEF Translate, OnEnd
    <2>2. again \in StateSet /\ again.size = st.size
        BY DEF StateSet
    <2> HIDE DEF again
    <2>3. EnablePushing(again).size = st.size
        BY <2>2, EnablePushingIs
    <2> QED
        BY <2>1, <2>3
<1>3. CASE m.kind = "fence"
    BY <1>3, TranslateIs, OweIs
<1>4. CASE m.kind = "caps"
    <2> DEFINE u == [st EXCEPT !.caps = m.arg]
    <2>1. Translate(st, m) = Owe(u, Message("caps", 0)) /\ m.arg \in Caps
        BY <1>4, TranslateIs DEF OnCaps
    <2>2. u \in StateSet /\ u.size = st.size
        BY <2>1 DEF StateSet
    <2> HIDE DEF u
    <2> QED
        BY <2>1, <2>2, ReplyIs, OweIs
<1>5. CASE m.kind = "notify"
    BY <1>5, TranslateIs, ReplyIs, OweIs DEF OnNotify
<1>6. CASE m.kind = "request"
    <2>1. st.announced # 0 => st.announced \in Texts
        BY BackendConstants DEF StateSet, Texts
    <2> QED
        BY <1>6, <2>1, TranslateIs, ReplyIs, OweIs DEF OnRequest
<1>7. CASE m.kind \notin {"size", "end of pushing", "fence", "caps", "notify", "request"}
    BY <1>7 DEF Translate
<1> QED
    BY <1>1, <1>2, <1>3, <1>4, <1>5, <1>6, <1>7

LEMMA RecvKeeps == BInv /\ Recv => BInv'
<1> SUFFICES ASSUME BInv, Recv PROVE BInv'
    OBVIOUS
<1> USE BackendConstants
<1> DEFINE m == Head(outCh)
           n == Len(server.asked)
<1>1. /\ UNCHANGED <<inCh, writer, toServer, toClient, server>>
      /\ session.at = "select" /\ outCh # <<>> /\ outCh' = Tail(outCh)
      /\ state' = Translate(state, m) /\ screen' = Observe(m)
      /\ session' = IF m.kind = "error" THEN Left ELSE session
    BY DEF Recv
<1>2. /\ outCh \in Seq(Downward) /\ toClient \in Seq(Downward) /\ inCh \in Seq(Upward)
      /\ session \in SessionSet /\ state \in StateSet /\ state.outbox \in Seq(Reply)
      /\ state.announced \in Nat /\ session.pastes \in Nat /\ server \in ServerSet
      /\ server.asked \in Seq(Texts) /\ n \in Nat /\ server.fenced \in Nat
    BY LenProperties DEF BInv, Typed, StateSet, SessionSet, ServerSet
<1>3. /\ m \in Downward /\ outCh' \in Seq(Downward) /\ Len(outCh') = Len(outCh) - 1
      /\ Len(outCh) \in Nat
    BY <1>1, <1>2, HeadTailProperties, EmptySeq, LenProperties
<1> HIDE DEF m
<1>4. Owed(state, m, state')
    BY <1>1, <1>2, <1>3, AfterHearing
<1>5. /\ session' \in SessionSet /\ session'.pastes = session.pastes
      /\ session'.at # "closed"
      /\ session'.input # None /\ session'.input.kind = "paste" =>
            session'.input.arg = session'.pastes
    <2>1. session.input # None /\ session.input.kind = "paste" =>
            session.input.arg = session.pastes
        BY DEF BInv, Growing
    <2>2. CASE m.kind = "error"
        BY <1>1, <1>2, <2>2, LeftIs
    <2>3. CASE m.kind # "error"
        BY <1>1, <1>2, <2>1, <2>3
    <2> QED
        BY <2>2, <2>3
<1>6. Live' <=> Live
    BY <1>1, <1>5 DEF Live
<1>7. state' \in StateSet /\ state'.announced = state.announced
    BY <1>4 DEF Owed
<1>8. (* Backend and engine take the size alike, but for zero.             *)
      screen' \in Sizes \cup {Zero} /\ screen' \in {state'.size, Zero}
    <2>1. screen \in {state.size, Zero} /\ screen \in Sizes \cup {Zero}
        BY DEF BInv, Typed, SizesAgree
    <2>2. CASE m.kind = "size" /\ m.stands
        <3>1. m.arg \in Sizes \cup {Zero}
            BY <1>3, <2>2 DEF Downward, FenceMessage
        <3>2. state' = AdoptSize(state, m.arg) /\ screen' = m.arg
            BY <1>1, <2>2 DEF Translate, OnSize, Observe
        <3> QED
            BY <1>2, <3>1, <3>2, AdoptSizeIs
    <2>3. CASE ~(m.kind = "size" /\ m.stands)
        <3>1. screen' = screen
            BY <1>1, <2>3 DEF Observe
        <3>2. state'.size = state.size
            BY <1>1, <1>2, <1>3, <2>3, SizeStays
        <3> QED
            BY <2>1, <3>1, <3>2
    <2> QED
        BY <2>2, <2>3
<1>9. Typed'
    BY <1>1, <1>3, <1>5, <1>7, <1>8 DEF BInv, Typed
<1>10. Short'
    <2>1. Len(outCh') <= Room
        BY <1>3 DEF BInv, Short
    <2> QED
        BY <1>1, <2>1 DEF BInv, Short
<1>11. Ordered'
    <2> SUFFICES ASSUME Live
                 PROVE  \E c1, c2, c3, c4 \in Nat :
                            /\ Fenced(toServer, server.echoed, c1) /\ Fenced(inCh, c1, c2)
                            /\ Fenced(state'.outbox, c2, c3)
                            /\ Fenced(outCh', c3, c4) /\ Fenced(toClient, c4, server.fenced)
        BY <1>1, <1>6 DEF Ordered
    <2>1. PICK c1, c2, c3, c4 \in Nat :
                /\ Fenced(toServer, server.echoed, c1) /\ Fenced(inCh, c1, c2)
                /\ Fenced(state.outbox, c2, c3)
                /\ Fenced(outCh, c3, c4) /\ Fenced(toClient, c4, server.fenced)
        BY DEF BInv, Ordered
    <2>2. /\ m.kind # "fence" => Fenced(outCh', c3, c4)
          /\ m.kind = "fence" => m.arg = c3 + 1 /\ Fenced(outCh', c3 + 1, c4)
        BY <1>1, <1>2, <2>1, FenceTail DEF m
    <2>3. CASE state'.outbox = state.outbox /\ m.kind # "fence"
        BY <2>1, <2>2, <2>3
    <2>4. CASE \E r \in Reply : /\ state'.outbox = Append(state.outbox, r)
                                /\ (m.kind = "fence" => r = m)
                                /\ (r.kind = "fence" => r = m)
        <3>1. PICK r \in Reply : /\ state'.outbox = Append(state.outbox, r)
                                 /\ (m.kind = "fence" => r = m)
                                 /\ (r.kind = "fence" => r = m)
            BY <2>4
        <3>2. CASE m.kind # "fence"
            <4>1. Fenced(Append(state.outbox, r), c2, c3)
                BY <1>2, <2>1, <3>1, <3>2, FenceAppend
            <4> QED
                BY <2>1, <2>2, <3>1, <3>2, <4>1
        <3>3. CASE m.kind = "fence"
            <4>1. r.kind = "fence" /\ r.arg = c3 + 1
                BY <2>2, <3>1, <3>3
            <4>2. Fenced(Append(state.outbox, r), c2, c3 + 1)
                BY <1>2, <2>1, <4>1, FenceAppend
            <4>3. c3 + 1 \in Nat
                OBVIOUS
            <4> QED
                BY <2>1, <2>2, <3>1, <3>3, <4>2, <4>3
        <3> QED
            BY <3>2, <3>3
    <2> QED
        BY <1>4, <2>3, <2>4 DEF Owed
<1>12. CapsAhead'
    <2> SUFFICES ASSUME ~server.agreed
                 PROVE  /\ ~Has(Extended, state'.outbox)
                        /\ ~Has({"notify", "request"}, outCh')
                        /\ Live /\ (state'.caps # "none" \/ state'.announced # 0) => CapsOut'
        BY <1>1, <1>6 DEF BInv, CapsAhead
    <2>1. /\ ~Has(Extended, state.outbox) /\ ~Has({"notify", "request"}, outCh)
          /\ Live /\ (state.caps # "none" \/ state.announced # 0) => CapsOut
        BY DEF BInv, CapsAhead
    <2>2. m.kind \notin {"notify", "request"} /\ ~Has({"notify", "request"}, outCh')
        BY <1>1, <1>2, <2>1, HasTail DEF m
    <2>3. CASE state'.outbox = state.outbox /\ m.kind # "caps"
        BY <1>1, <1>4, <2>1, <2>2, <2>3 DEF Owed, CapsOut
    <2>4. CASE \E r \in Reply : /\ state'.outbox = Append(state.outbox, r)
                                /\ (m.kind = "caps" => r.kind = "caps")
                                /\ (r.kind = "request" => m.kind = "notify")
                                /\ (r.kind = "answer" => m.kind = "request")
        <3>1. PICK r \in Reply : /\ state'.outbox = Append(state.outbox, r)
                                 /\ (m.kind = "caps" => r.kind = "caps")
                                 /\ (r.kind = "request" => m.kind = "notify")
                                 /\ (r.kind = "answer" => m.kind = "request")
            BY <2>4
        <3>2. r.kind \notin Extended
            BY <2>2, <3>1 DEF Reply, FenceMessage, Extended
        <3>3. /\ Has(Extended, Append(state.outbox, r)) <=>
                    Has(Extended, state.outbox) \/ r.kind \in Extended
              /\ Has({"caps"}, Append(state.outbox, r)) <=>
                    Has({"caps"}, state.outbox) \/ r.kind \in {"caps"}
            BY <1>2, HasAppend
        <3>4. ~Has(Extended, state'.outbox)
            BY <2>1, <3>1, <3>2, <3>3
        <3>5. (CapsOut \/ m.kind = "caps") => CapsOut'
            BY <1>1, <3>1, <3>3 DEF CapsOut
        <3>6. m.kind # "caps" => state'.caps = state.caps
            BY <1>4 DEF Owed
        <3> QED
            BY <1>7, <2>1, <2>2, <3>4, <3>5, <3>6
    <2> QED
        BY <1>4, <2>3, <2>4 DEF Owed
<1>13. Growing'
    BY <1>1, <1>5, <1>7 DEF BInv, Growing
<1>14. Paired'
    <2>1. PICK c1 \in Nat :
            /\ c1 <= n /\ Answering(toServer, Len(server.answers), c1, server.asked)
            /\ Live => \E c2, c3, c4 \in Nat :
                /\ Answering(inCh, c1, c2, server.asked)
                /\ Answering(state.outbox, c2, c3, server.asked)
                /\ Wanted(outCh, c3, c4) /\ Wanted(toClient, c4, n)
        BY DEF BInv, Paired
    <2>2. ASSUME Live
          PROVE  \E c2, c3, c4 \in Nat :
                    /\ Answering(inCh, c1, c2, server.asked)
                    /\ Answering(state'.outbox, c2, c3, server.asked)
                    /\ Wanted(outCh', c3, c4) /\ Wanted(toClient, c4, n)
        <3>1. PICK c2, c3, c4 \in Nat :
                /\ Answering(inCh, c1, c2, server.asked)
                /\ Answering(state.outbox, c2, c3, server.asked)
                /\ Wanted(outCh, c3, c4) /\ Wanted(toClient, c4, n)
            BY <2>1, <2>2
        <3>2. /\ m.kind # "request" => Wanted(outCh', c3, c4)
              /\ m.kind = "request" => c3 + 1 <= c4 /\ Wanted(outCh', c3 + 1, c4)
            BY <1>1, <1>2, <3>1, WantTail DEF m
        <3>3. CASE m.kind # "request"
            <4>1. Answering(state'.outbox, c2, c3, server.asked)
                <5>1. CASE state'.outbox = state.outbox
                    BY <3>1, <5>1
                <5>2. CASE \E r \in Reply : /\ state'.outbox = Append(state.outbox, r)
                                            /\ r.kind # "answer"
                    <6>1. PICK r \in Reply : /\ state'.outbox = Append(state.outbox, r)
                                             /\ r.kind # "answer"
                        BY <5>2
                    <6>2. Answering(Append(state.outbox, r), c2, c3, server.asked)
                        BY <1>2, <3>1, <6>1, AnswerAppend
                    <6> QED
                        BY <6>1, <6>2
                <5> QED
                    BY <1>4, <3>3, <5>1, <5>2 DEF Owed
            <4> QED
                BY <3>1, <3>2, <3>3, <4>1
        <3>4. CASE m.kind = "request"
            (* The server was told of a text, so one has been announced.   *)
            <4>1. c4 <= n
                BY <3>1 DEF Wanted, Numbered
            <4>2. c3 + 1 \in 1 .. n
                BY <1>2, <3>2, <3>4, <4>1
            <4>3. server.asked[c3 + 1] \in Texts
                BY <1>2, <4>2, ElementOfSeq
            <4>4. server.asked[c3 + 1] <= state.announced /\ state.announced <= session.pastes
                BY <4>2 DEF BInv, Growing
            <4>5. state.announced # 0 /\ session.pastes # 0
                <5> DEFINE w == server.asked[c3 + 1]
                <5>1. w \in Nat /\ w >= 1
                    BY <4>3 DEF Texts
                <5>2. w <= state.announced /\ state.announced <= session.pastes
                    BY <4>4
                <5> HIDE DEF w
                <5> QED
                    BY <1>2, <5>1, <5>2
            <4>6. ClipboardWanted
                BY <4>5 DEF BInv, Growing
            <4>7. PICK r \in Reply : /\ state'.outbox = Append(state.outbox, r)
                                     /\ r.kind = "answer" /\ r.arg = state.announced
                BY <1>4, <3>4, <4>5, <4>6 DEF Owed
            <4>8. r.arg >= server.asked[c3 + 1]
                BY <1>2, <4>3, <4>4, <4>7 DEF Texts
            <4>9. Answering(Append(state.outbox, r), c2, c3 + 1, server.asked)
                BY <1>2, <3>1, <4>7, <4>8, AnswerAppend
            <4>10. c3 + 1 \in Nat
                OBVIOUS
            <4> QED
                BY <3>1, <3>2, <3>4, <4>7, <4>9, <4>10
        <3> QED
            BY <3>3, <3>4
    <2> QED
        BY <1>1, <1>6, <2>1, <2>2 DEF Paired
<1>15. Stopped' /\ SizesAgree' /\ AnswersAnnounced'
    BY <1>1, <1>5, <1>8 DEF BInv, Stopped, SizesAgree, AnswersAnnounced
<1> QED
    BY <1>9, <1>10, <1>11, <1>12, <1>13, <1>14, <1>15 DEF BInv

-----------------------------------------------------------------------------
(* The invariant holds for good: whatever the session, the tasks and the   *)
(* server do, in whatever order, nothing is lost, repeated or overtaken on *)
(* the road between them.                                                  *)
THEOREM Invariance == Spec => []BInv
<1>1. Init => BInv
    BY Beginning
<1>2. BInv /\ [Next]_vars => BInv'
    <2> SUFFICES ASSUME BInv, [Next]_vars PROVE BInv'
        OBVIOUS
    <2>1. CASE Session
        BY <2>1, FlushKeeps, RecvKeeps, CommandKeeps, QuitKeeps, SendKeeps, SendFailsKeeps,
           CloseKeeps DEF Session
    <2>2. CASE Tasks
        BY <2>2, ReadKeeps, WriteKeeps, WriteFailsKeeps DEF Tasks
    <2>3. CASE Server
        BY <2>3, FencesKeeps, ResizesKeeps, RefusesKeeps, EndsPushingKeeps, OffersCapsKeeps,
           NotifiesKeeps, AsksForTextKeeps, GoesAwayKeeps, ServerReadsKeeps DEF Server
    <2>4. CASE UNCHANGED vars
        <3>1. UNCHANGED <<session, state, screen, inCh, outCh, writer, toServer, toClient, server>>
            BY <2>4 DEF vars
        <3> QED
            BY <3>1 DEF BInv, Typed, Short, Ordered, CapsAhead, CapsOut, Growing, Paired,
               Stopped, SizesAgree, AnswersAnnounced, Live
    <2> QED
        BY <2>1, <2>2, <2>3, <2>4 DEF Next
<1> QED
    BY <1>1, <1>2, PTL DEF Spec

(* Every variable is of its type, and no queue is longer than it may be.   *)
THEOREM TypeCorrect == Spec => []TypeOK
<1>1. BInv => TypeOK
    <2> SUFFICES ASSUME BInv PROVE TypeOK
        OBVIOUS
    <2>1. /\ session \in SessionSet /\ state \in StateSet /\ server \in ServerSet
          /\ screen \in Sizes \cup {Zero} /\ writer \in {"running", "stopped"} /\ Short
        BY DEF BInv, Typed
    <2>2. session.at \in {"select", "send", "leaving", "closed"}
        BY <2>1 DEF SessionSet
    <2>3. /\ state.size \in Sizes /\ state.pushingFor \in Sizes \cup {None}
          /\ state.caps \in Caps /\ state.announced \in 0 .. MaxPastes
        BY <2>1 DEF StateSet
    <2>4. server.size \in Sizes \cup {Zero} /\ server.pushing \in Sizes \cup {None}
        BY <2>1 DEF ServerSet
    <2> QED
        BY <2>1, <2>2, <2>3, <2>4 DEF TypeOK, Short
<1> QED
    BY <1>1, Invariance, PTL

(* What the backend remembers is right: its size of the desktop is the     *)
(* engine's, and a server that asks for a text gets that one or a later    *)
(* one.                                                                    *)
THEOREM RememberedRight == Spec => []RemembersRightly
<1>1. BInv => RemembersRightly
    BY DEF BInv, RemembersRightly
<1> QED
    BY <1>1, Invariance, PTL

-----------------------------------------------------------------------------
(* The queues one after the other.                                         *)
LEMMA WiderSeq ==
    ASSUME NEW S, NEW T, S \subseteq T, NEW q \in Seq(S)
    PROVE  q \in Seq(T)
<1>1. q \in [1 .. Len(q) -> S] /\ Len(q) \in Nat
    BY LenProperties
<1>2. q \in [1 .. Len(q) -> T]
    BY <1>1
<1> QED
    BY <1>1, <1>2, SeqDef

LEMMA ReadyConcat ==
    ASSUME NEW S, NEW p \in Seq(S), NEW q \in Seq(S), Ready(p),
           Has({"caps"}, p) \/ Ready(q)
    PROVE  Ready(p \o q)
<1> DEFINE c == p \o q
           l == Len(p)
<1>1. /\ Len(c) = l + Len(q) /\ l \in Nat /\ Len(q) \in Nat
      /\ \A i \in 1 .. Len(c) : c[i] = IF i <= l THEN p[i] ELSE q[i - l]
    BY ConcatProperties, LenProperties
<1> HIDE DEF c, l
<1>2. SUFFICES ASSUME NEW i \in 1 .. Len(c), c[i].kind \in Extended
               PROVE  \E j \in 1 .. i - 1 : c[j].kind = "caps"
    BY DEF Ready, c
<1>3. CASE i <= l
    <2>1. i \in 1 .. Len(p) /\ c[i] = p[i]
        BY <1>1, <1>3 DEF l
    <2>2. PICK j \in 1 .. i - 1 : p[j].kind = "caps"
        BY <1>2, <2>1 DEF Ready
    <2>3. j <= l /\ j \in 1 .. Len(c)
        BY <1>1, <1>3
    <2> QED
        BY <1>1, <2>2, <2>3
<1>4. CASE ~(i <= l) /\ Has({"caps"}, p)
    <2>1. PICK j \in 1 .. l : p[j].kind = "caps"
        BY <1>4 DEF Has, l
    <2>2. j <= l /\ j \in 1 .. Len(c) /\ j \in 1 .. i - 1
        BY <1>1, <1>4
    <2> QED
        BY <1>1, <2>1, <2>2
<1>5. CASE ~(i <= l) /\ Ready(q)
    <2>1. i - l \in 1 .. Len(q) /\ c[i] = q[i - l]
        BY <1>1, <1>5
    <2>2. PICK j \in 1 .. (i - l) - 1 : q[j].kind = "caps"
        BY <1>2, <1>5, <2>1 DEF Ready
    <2>3. /\ j + l \in 1 .. Len(c) /\ ~(j + l <= l) /\ (j + l) - l = j
          /\ j + l \in 1 .. i - 1
        BY <1>1
    <2>4. c[j + l] = q[j]
        BY <1>1, <2>3
    <2> QED
        BY <2>2, <2>3, <2>4
<1> QED
    BY <1>3, <1>4, <1>5

(* Fences are answered once each and in order, and nothing of the extended *)
(* clipboard overtakes our caps: what the backend owes goes out in the     *)
(* order it has to, however often a flush is cancelled.                    *)
THEOREM RepliesInOrder == Spec => []GoesOutInOrder
<1>1. BInv => EchoesInOrder
    <2> SUFFICES ASSUME BInv, Live
                 PROVE  LET q == Outgoing \o Incoming IN
                        /\ {q[i].arg : i \in Fencing(q)} = server.echoed + 1 .. server.fenced
                        /\ \A i, j \in Fencing(q) : i < j => q[i].arg < q[j].arg
        BY DEF EchoesInOrder
    <2> DEFINE S == Upward \cup Downward
               q == Outgoing \o Incoming
               lo == server.echoed
               hi == server.fenced
    <2>1. lo \in Nat /\ hi \in Nat
        BY DEF BInv, Typed, ServerSet
    <2>2. /\ toServer \in Seq(S) /\ inCh \in Seq(S) /\ state.outbox \in Seq(S)
          /\ outCh \in Seq(S) /\ toClient \in Seq(S)
        <3>1. Upward \subseteq S /\ Downward \subseteq S /\ Reply \subseteq S
            BY ReplyIs
        <3>2. state.outbox \in Seq(Reply)
            BY DEF BInv, Typed, StateSet
        <3> HIDE DEF S
        <3> QED
            BY <3>1, <3>2, WiderSeq DEF BInv, Typed
    <2> HIDE DEF S
    <2>3. PICK c1, c2, c3, c4 \in Nat :
            /\ Fenced(toServer, lo, c1) /\ Fenced(inCh, c1, c2) /\ Fenced(state.outbox, c2, c3)
            /\ Fenced(outCh, c3, c4) /\ Fenced(toClient, c4, hi)
        BY DEF BInv, Ordered
    <2>4. Fenced(toServer \o inCh, lo, c2) /\ toServer \o inCh \in Seq(S)
        BY <2>1, <2>2, <2>3, FenceConcat, ConcatProperties
    <2>5. Fenced(Outgoing, lo, c3) /\ Outgoing \in Seq(S)
        BY <2>1, <2>2, <2>3, <2>4, FenceConcat, ConcatProperties DEF Outgoing
    <2>6. Fenced(Incoming, c3, hi) /\ Incoming \in Seq(S)
        BY <2>1, <2>2, <2>3, FenceConcat, ConcatProperties DEF Incoming
    <2>7. Fenced(q, lo, hi) /\ q \in Seq(S)
        BY <2>1, <2>3, <2>5, <2>6, FenceConcat, ConcatProperties
    <2> HIDE DEF q, lo, hi
    <2>8. Fencing(q) = Of("fence", q)
        <3>1. DOMAIN q = 1 .. Len(q)
            BY <2>7, LenProperties
        <3> QED
            BY <3>1 DEF Fencing, Of
    <2>9. /\ \A i \in Of("fence", q) : q[i].arg \in lo + 1 .. hi
          /\ \A i, j \in Of("fence", q) : i < j => q[i].arg < q[j].arg
          /\ \A n \in lo + 1 .. hi : \E i \in Of("fence", q) : q[i].arg = n
        BY <2>7, FencedIs
    <2>10. {q[i].arg : i \in Fencing(q)} = lo + 1 .. hi
        BY <2>8, <2>9
    <2> QED
        BY <2>8, <2>9, <2>10 DEF q, lo, hi
<1>2. BInv => CapsFirst
    <2> SUFFICES ASSUME BInv, ~server.agreed PROVE Ready(Outgoing) /\ DOMAIN Outgoing = 1 .. Len(Outgoing)
        BY DEF CapsFirst, Ready, Extended
    <2>1. /\ toServer \in Seq(Upward) /\ inCh \in Seq(Upward) /\ state.outbox \in Seq(Upward)
        <3>1. Reply \subseteq Upward
            BY ReplyIs
        <3>2. state.outbox \in Seq(Reply)
            BY DEF BInv, Typed, StateSet
        <3> QED
            BY <3>1, <3>2, WiderSeq DEF BInv, Typed
    <2>2. /\ Ready(toServer) /\ (Has({"caps"}, toServer) \/ Ready(inCh))
          /\ ~Has(Extended, state.outbox)
        BY DEF BInv, CapsAhead
    <2>3. Ready(toServer \o inCh) /\ toServer \o inCh \in Seq(Upward)
        BY <2>1, <2>2, ReadyConcat, ConcatProperties
    <2>4. Ready(state.outbox)
        BY <2>2 DEF Has, Ready
    <2>5. Ready(Outgoing) /\ Outgoing \in Seq(Upward)
        BY <2>1, <2>3, <2>4, ReadyConcat, ConcatProperties DEF Outgoing
    <2> QED
        BY <2>5, LenProperties
<1>3. BInv => GoesOutInOrder
    BY <1>1, <1>2 DEF GoesOutInOrder
<1> QED
    BY <1>3, Invariance, PTL
=============================================================================
