---------------------------- MODULE MCStrategies ----------------------------
(***************************************************************************)
(* Module Flow under the two inorder strategies that keep no shelf.  Which *)
(* one is fixed when the protocol is generated: an initial choice.         *)
(***************************************************************************)
EXTENDS Flow            \* with Strategy = "drop_out_of_order"

ASSUME StrategyAssumption == Strategy # "no_inorder"

VARIABLE strategy

NoOrder == INSTANCE Flow WITH Strategy <- "no_inorder"

MCInit == \/ Init /\ strategy = Strategy
          \/ NoOrder!Init /\ strategy = "no_inorder"

MCNext == /\ \/ strategy = Strategy /\ Next
             \/ strategy = "no_inorder" /\ NoOrder!Next
          /\ UNCHANGED strategy

MCSpec == MCInit /\ [][MCNext]_<<vars, strategy>>

\* Under drop_out_of_order the input queue never goes back, whatever the
\* network reorders and the reliable module sends again.
DropRises == strategy = Strategy => RisingPayloads

\* Under no_inorder the reliable module alone loses nothing: a packet whose
\* redelivery timer an ACK removed was passed up.  (With drop_out_of_order this
\* does not hold: a packet that inorder.hook_ingress drops was acknowledged.)
NoOrderLosesNothing ==
  strategy = "no_inorder" => \A n \in 1 .. sent : n \in armed \/ n \in Range(delivered)
=============================================================================
