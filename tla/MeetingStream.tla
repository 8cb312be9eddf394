---------------------------- MODULE MeetingStream ----------------------------
(***************************************************************************)
(* What a captured call promises the gateway (meeting.v1, and the comments *)
(* of src/src/talk_capture/brain_client.py and src/src/main.py): one       *)
(* meeting, whatever streams it takes; its speech in order, gone over      *)
(* again by one frame at most when a stream takes over; and a call that is *)
(* called handed over only when the gateway has it.                        *)
(*                                                                         *)
(* How that comes about - outbox, locks, reconnects, retries - is          *)
(* CallSession's business, which implements this module.                   *)
(***************************************************************************)
EXTENDS Integers

VARIABLES
  meeting,   \* the meeting at the gateway
  spoken,    \* frames captured so far, numbered in their order
  heard,     \* the frame the gateway read last, 0 before the first
  resumed,   \* the stream it reads has carried no frame yet
  settled    \* the call counts as handed over

vars == <<meeting, spoken, heard, resumed, settled>>

Init ==
  /\ meeting = "absent" /\ spoken = 0 /\ heard = 0
  /\ resumed = FALSE /\ settled = FALSE

Speak ==
  /\ spoken' = spoken + 1
  /\ UNCHANGED <<meeting, heard, resumed, settled>>

\* A stream begins, the first one or a replacement, and with it the meeting.
Begin ==
  /\ resumed' = TRUE
  /\ meeting' = IF meeting = "absent" THEN "live" ELSE meeting
  /\ UNCHANGED <<spoken, heard, settled>>

\* The next frame that was not given up; on a fresh stream it may be the last
\* one heard.
Hear(f) ==
  /\ meeting # "absent"
  /\ f > heard \/ (resumed /\ f = heard)
  /\ heard' = f /\ resumed' = FALSE
  /\ UNCHANGED <<meeting, spoken, settled>>

End ==
  /\ meeting = "live" /\ meeting' = "ending"
  /\ UNCHANGED <<spoken, heard, resumed, settled>>

Take ==
  /\ meeting = "ending" /\ meeting' = "taken"
  /\ UNCHANGED <<spoken, heard, resumed, settled>>

Settle ==
  /\ meeting = "taken" /\ settled' = TRUE
  /\ UNCHANGED <<meeting, spoken, heard, resumed>>

Next == Speak \/ Begin \/ (\E f \in 1..spoken : Hear(f)) \/ End \/ Take \/ Settle

Spec == Init /\ [][Next]_vars

=============================================================================
