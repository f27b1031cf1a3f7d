------------------------------ MODULE ConnMap -------------------------------
(***************************************************************************)
(* What the identifier module promises: a map from connections to keys,    *)
(* no two connections with the same one.                                   *)
(***************************************************************************)
CONSTANTS Conn,         \* connection objects
          Key           \* what identifies a flow

VARIABLE entries        \* the set of [conn, key] in the table

Established == {e.conn : e \in entries}

Add(c, k) == /\ c \notin Established
             /\ \A e \in entries : e.key # k
             /\ entries' = entries \union {[conn |-> c, key |-> k]}

Delete(c) == /\ c \in Established
             /\ entries' = {e \in entries : e.conn # c}

Init == entries = {}
Next == \E c \in Conn : Delete(c) \/ \E k \in Key : Add(c, k)
Spec == Init /\ [][Next]_entries
=============================================================================
