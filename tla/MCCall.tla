------------------------------- MODULE MCCall -------------------------------
(***************************************************************************)
(* Instances of IntercomCall for TLC.  Dialled starts them where each user *)
(* of Caller has typed a room number, dialled it, typed it once more and   *)
(* pressed btn_stop, which is how btn_start comes on the screen: a state   *)
(* that Init leads to by User actions alone, taken as the initial one to   *)
(* save the states of the preliminaries.                                   *)
(***************************************************************************)
EXTENDS IntercomCall

Peer(d) == CHOOSE e \in Device : e # d

Dialled ==
  /\ NoCallYet
  /\ views = [d \in Device |-> IF d \in Caller THEN View ELSE {"edit", "call"}]
  /\ room = [d \in Device |-> IF d \in Caller THEN Peer(d) ELSE NoDevice]
  /\ address = [d \in Device |-> IF d \in Caller THEN Peer(d) ELSE NoDevice]
  /\ hungUp = [d \in Device |-> d \in Caller]

DialledSpec == Dialled /\ [][Next]_vars
=============================================================================
