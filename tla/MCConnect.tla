----------------------------- MODULE MCConnect ------------------------------
(* The handshake and the reconnect loop on a small instance, for TLC.      *)
EXTENDS Connect

CONSTANTS bgra, rgba, unset

Announced == {33, 37, 38, 889}
Offered == {{"none"}, {"vnc"}, {"none", "vnc"}, {"vnc", "other"}, {"other"}, {"unknown"}}
WithUnknown == Offered \cup {{"vnc", "unknown"}}
Asked == {bgra, unset}
Advertised == {{"push", "cursor", "clipboard"}, {"quality"}}
=============================================================================
