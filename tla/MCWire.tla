------------------------------- MODULE MCWire -------------------------------
EXTENDS Wire

MCSizes == <<<<4, 4>>, <<5, 2>>>>
MCParts == {Rect(0, 0, 4, 4), Rect(2, 1, 3, 1)}
All == (0..7) \X (0..7)
MCPaints == {[p \in All |-> 5],
             [p \in All |-> IF p[1] > p[2] THEN 7 ELSE 2],
             [p \in All |-> (3 * p[1] + 2 * p[2] * p[2]) % 8]}
MCCopies == {[dst |-> Rect(0, 1, 4, 3), x |-> 0, y |-> 0],
             [dst |-> Rect(0, 0, 3, 1), x |-> 1, y |-> 1],
             [dst |-> Rect(1, 0, 3, 2), x |-> 0, y |-> 0]}
MCShapes == {[rect |-> Rect(1, 0, 5, 1), px |-> <<<<3, 1>>, <<4, 0>>, <<0, 1>>, <<7, 1>>, <<1, 1>>>>]}
MCTexts == {<<>>, <<97, 10, 98>>, <<97, 97, 97, 97>>, <<97, 98, 99, 100, 101, 102, 103>>}
MCFences == {<<>>, <<1, 2, 3>>}
Screen == [id |-> 7, rect |-> Rect(0, 0, 4, 4), flags |-> 5]
MCSpoken ==
    {[kind |-> "pixelFormat", format |-> 32], [kind |-> "encodings", ids |-> <<7, -308>>],
     [kind |-> "update", incremental |-> TRUE, rect |-> Rect(0, 0, 5, 2)],
     [kind |-> "key", down |-> FALSE, key |-> 97],
     [kind |-> "pointer", buttons |-> 5, x |-> 3, y |-> 2],
     [kind |-> "cutText", text |-> <<233, 9749, 97>>], [kind |-> "cutText", text |-> <<>>],
     [kind |-> "caps"], [kind |-> "request"], [kind |-> "notify"],
     [kind |-> "provide", text |-> <<>>], [kind |-> "provide", text |-> <<97, 10, 9749>>],
     [kind |-> "pushing", enable |-> TRUE, rect |-> Rect(0, 0, 4, 4)],
     [kind |-> "fence", flags |-> 3, payload |-> <<1, 2, 3>>],
     [kind |-> "resize", w |-> 5, h |-> 2, screens |-> <<Screen, Screen>>],
     [kind |-> "resize", w |-> 4, h |-> 4, screens |-> <<>>]}
=============================================================================
