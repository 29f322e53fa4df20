------------------------------- MODULE TailLink -------------------------------
(***************************************************************************)
(* What a tail point-to-point link promises to the layers above it: the    *)
(* receiver sees an increasing subsequence of what was sent, a message is  *)
(* skipped only when at least TailSize messages were sent after it, and what   *)
(* is not skipped is eventually received.  Messages are numbered in the    *)
(* order in which they are sent.                                           *)
(***************************************************************************)
EXTENDS Naturals, Sequences

CONSTANT TailSize

VARIABLES sent, got

LastGot == IF got = << >> THEN 0 ELSE got[Len(got)]

Init == sent = 0 /\ got = << >>

\* A call of send() makes the messages written since the last one visible.
Send == sent' > sent /\ UNCHANGED got

Deliver ==
  /\ \E m \in (LastGot + 1)..sent :
       /\ \A skipped \in (LastGot + 1)..(m - 1) : skipped + TailSize <= sent
       /\ got' = Append(got, m)
  /\ UNCHANGED sent

Next == Send \/ Deliver

Safe == Init /\ [][Next]_<<sent, got>>

Spec == Safe /\ WF_<<sent, got>>(Deliver)
===============================================================================
