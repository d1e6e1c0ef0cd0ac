---------------------------- MODULE MCDnsTunnel ----------------------------
(***************************************************************************)
(* Three configurations: a slow one with jitter, a fast one without, and   *)
(* one whose server is not an address.                                     *)
(***************************************************************************)
EXTENDS DnsTunnel

MCConfigs ==
  { [name |-> "slow", valid |-> "yes", interval |-> 3, minJitter |-> 1, maxJitter |-> 3],
    [name |-> "fast", valid |-> "yes", interval |-> 2, minJitter |-> 0, maxJitter |-> 0],
    [name |-> "wrong", valid |-> "no", interval |-> 2, minJitter |-> 0, maxJitter |-> 0] }
=============================================================================
