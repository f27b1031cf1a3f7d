------------------------------ MODULE MCStack ------------------------------
(***************************************************************************)
(* Two messages of odd and even length each way.                           *)
(***************************************************************************)
EXTENDS Stack

TwoEach == [client |-> << <<7>>, <<2, 9>> >>, server |-> << <<5>>, <<4, 3>> >>]
=============================================================================
