----------------------------- MODULE IpcMedium ------------------------------
(***************************************************************************)
(* What the IPC transport and the hub promise together: a shared medium.   *)
(* Every station that is attached when a packet gets through hears it, the *)
(* sender does not; nothing is heard twice or out of thin air.             *)
(***************************************************************************)
EXTENDS Naturals

CONSTANTS Station, MaxSends

VARIABLES sent,         \* station -> packets it sent
          heard         \* station -> the packets [src, n] that reached it

vars == <<sent, heard>>

Init == /\ sent = [s \in Station |-> 0]
        /\ heard = [s \in Station |-> {}]

Send(s) == /\ sent[s] < MaxSends
           /\ sent' = [sent EXCEPT ![s] = @ + 1]
           /\ UNCHANGED heard

\* A packet of s that was sent and not heard before reaches the stations of R.
Broadcast(s, n, R) ==
  /\ n \in 1 .. sent[s]
  /\ s \notin R
  /\ \A r \in R : [src |-> s, n |-> n] \notin heard[r]
  /\ heard' = [r \in Station |->
                 IF r \in R THEN heard[r] \union {[src |-> s, n |-> n]} ELSE heard[r]]
  /\ UNCHANGED sent

Next == \E s \in Station :
          \/ Send(s)
          \/ \E n \in 1 .. MaxSends, R \in SUBSET Station : Broadcast(s, n, R)

Spec == Init /\ [][Next]_vars
=============================================================================
