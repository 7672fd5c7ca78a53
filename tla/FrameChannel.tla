---------------------------- MODULE FrameChannel ----------------------------
(***************************************************************************)
(* What the video path promises: frames are numbered as the encoder puts   *)
(* them out; of every call some go out, none twice and none before an      *)
(* earlier one of the same call.  Which are lost, when, and whether ever,  *)
(* is left open.                                                           *)
(***************************************************************************)
EXTENDS Naturals

CONSTANT Call

VARIABLES
  shot,      \* the frames put out so far
  last       \* last[i]: the latest frame of call i that went out

vars == <<shot, last>>

Init == shot = 0 /\ last = [i \in Call |-> 0]

PutOut == shot' > shot /\ shot' \in Nat /\ UNCHANGED last

GoOut(i, n) ==
  /\ last[i] < n /\ n <= shot
  /\ last' = [last EXCEPT ![i] = n]
  /\ UNCHANGED shot

Next == PutOut \/ \E i \in Call : \E n \in 1 .. shot : GoOut(i, n)

Spec == Init /\ [][Next]_vars
=============================================================================
