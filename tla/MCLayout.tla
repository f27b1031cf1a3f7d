------------------------------ MODULE MCLayout ------------------------------
(***************************************************************************)
(* A layout for module Layout, as init_module of the modules builds it     *)
(* without routing: the headroom (192 bits), host ids, application ids,    *)
(* the payload length and a byte after it.  The ids have the ranges of     *)
(* set_host_range and set_app_range and are not aligned.                   *)
(***************************************************************************)
EXTENDS Layout, Sequences

M(width, base, cap, aligned) ==
  [width |-> width, base |-> base, cap |-> cap, aligned |-> aligned]

Headroom == <<M(64, 0, 0, TRUE), M(64, 0, 0, TRUE), M(64, 0, 0, TRUE)>>
Ids(hosts, apps) ==
  <<M(64, 1, 1 + hosts, FALSE), M(64, 1, 1 + hosts, FALSE),
    M(16, 3, 3 + apps, FALSE), M(16, 3, 3 + apps, FALSE)>>
Rest == <<M(32, 0, 300, TRUE), M(8, 0, 0, TRUE)>>

\* Two hosts and eight applications: ids of one bit at 192 and 193, of three
\* bits at 194 and 197.
NarrowMember == Headroom \o Ids(2, 8) \o Rest
NarrowWritten == 4 .. 9
NarrowValues == [k \in 4 .. 9 |->
  CASE k \in {4, 5} -> {1, 2}
    [] k \in {6, 7} -> {3, 8, 10}
    [] k = 8        -> {0, 255, 299}
    [] OTHER        -> {0, 170, 255}]
=============================================================================
