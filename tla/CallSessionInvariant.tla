------------------------- MODULE CallSessionInvariant -------------------------
(***************************************************************************)
(* What CallSession's theorems rest on beyond the sink's invariant: what   *)
(* the gateway has read and owns.  CallSessionProofs proves it.            *)
(***************************************************************************)
EXTENDS CallSession, BrainSinkInvariant

\* The answer is awaited on a stream; a CallAccepted, wherever it has got to, is
\* of a call the gateway owns.
Owned ==
  /\ at[Closer].pc = "end_wait" => at[Closer].stream \in Streams
  /\ \A s \in Streams : link[s] = "done" => meeting = "taken"
  /\ at[Closer].pc = "end_close" /\ at[Closer].why = "accepted" => meeting = "taken"
  /\ outcome = "accepted" => meeting = "taken"

\* The gateway reads what was written, and has a meeting once it has read any;
\* among what it read and heard there is a newest stream, and on each a last
\* frame.
ReadSoFar ==
  /\ \A s \in Streams :
       /\ rcvd[s] <= Len(sent[s])
       /\ rcvd[s] > 0 => meeting # "absent"
       /\ Heard(s) # {} => Newest(Heard(s)) \in Heard(s)
  /\ Begun # {} => Newest(Begun) \in Begun
  /\ Spoke # {} => Newest(Spoke) \in Spoke

\* The verdict is open until the hand-over is done.
Undecided == phase # "done" => verdict = "open"

SInv == RInv /\ Owned /\ ReadSoFar /\ SessionTypeOK /\ Undecided /\ SettledMeansTaken
=============================================================================
