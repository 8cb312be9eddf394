----------------------------- MODULE CallDrivers -----------------------------
(***************************************************************************)
(* Which driver joins a call (src/src/talk_capture/driver.py, make_driver) *)
(* and that driver at work: LiveKitClient or SpreedSignalling.  A driver   *)
(* that was not made is as one that has left, and takes no step.           *)
(***************************************************************************)
EXTENDS LiveKitClient, SpreedSignalling

VARIABLE driver     \* what make_driver came to

dvars == <<driver, vars, svars>>

\* What make_driver looks at: the entry's platform, its address and token, and
\* what this installation has.
Calls == [platform : {"talk", "livekit", "other"}, details : BOOLEAN,
          nextcloud : BOOLEAN, livekit : BOOLEAN]

\* The driver of call c; "refused" is CannotJoin.
MakeDriver(c) ==
  CASE c.platform = "talk" /\ c.nextcloud -> "talk"
    [] c.platform = "livekit" /\ c.details /\ c.livekit -> "livekit"
    [] OTHER -> "refused"

NoTalk == place = [s \in Sids |-> "away"] /\ TalkClient("over", "left")
NoLiveKit == Client("over", "left") /\ inroom = {} /\ published = {}

DriversInit ==
  /\ \E c \in Calls : driver = MakeDriver(c)
  /\ IF driver = "talk" THEN SignallingInit ELSE NoTalk
  /\ IF driver = "livekit" THEN Init ELSE NoLiveKit

DriversNext ==
  \/ driver = "talk" /\ SignallingNext /\ UNCHANGED <<driver, vars>>
  \/ driver = "livekit" /\ Next /\ UNCHANGED <<driver, svars>>
  \/ driver = "refused" /\ UNCHANGED dvars

DriversSpec == DriversInit /\ [][DriversNext]_dvars

\* The drivers' own; for one that was not made it asks nothing.
FairDriversSpec == DriversSpec /\ Fairness /\ SignallingFairness

=============================================================================
