--------------------------- MODULE CallDriversProofs ---------------------------
(***************************************************************************)
(* Proofs about CallDrivers: the driver that make_driver chose behaves as  *)
(* its own specification says, the other one takes no step, and what holds *)
(* of either holds of the call.                                            *)
(***************************************************************************)
EXTENDS CallDrivers, LiveKitClientProofs, SpreedSignallingProofs

Drivers == {"talk", "livekit", "refused"}

LEMMA DriverChosen == ASSUME NEW c \in Calls PROVE MakeDriver(c) \in Drivers
BY DEF MakeDriver, Drivers

\* One driver at work, the other as if it had left; or both, of a call refused.
LEMMA DriversStart ==
  ASSUME DriversInit
  PROVE  driver \in Drivers /\ KInv /\ TInv
<1>1. driver \in Drivers
  BY DriverChosen DEF DriversInit
<1>2. KInv
  <2>1. CASE Init
    BY <2>1, ClientStarts DEF Init
  <2>2. CASE NoLiveKit
    BY <2>2, ClientStarts DEF NoLiveKit
  <2>. QED  BY <2>1, <2>2 DEF DriversInit
<1>3. TInv
  <2>1. CASE SignallingInit
    BY <2>1, NothingJoined DEF SignallingInit
  <2>2. CASE NoTalk
    <3>1. place \in [Sids -> Places]
      BY <2>2 DEF NoTalk, Places
    <3>. QED  BY <2>2, <3>1, NothingJoined DEF NoTalk
  <2>. QED  BY <2>1, <2>2 DEF DriversInit
<1>. QED  BY <1>1, <1>2, <1>3

\* A step is one of the driver chosen, which stays what it is.
LEMMA DriversStep ==
  ASSUME [DriversNext]_dvars
  PROVE  /\ driver' = driver
         /\ [Next]_vars /\ [SignallingNext]_svars
         /\ driver # "talk" => UNCHANGED svars
         /\ driver # "livekit" => UNCHANGED vars
BY DEF DriversNext, dvars

-----------------------------------------------------------------------------
(* The theorems.                                                            *)

\* On Talk a call is captured by SpreedClient as its specification says, and by
\* nothing else.
THEOREM TalkIsSignalling ==
  DriversSpec /\ driver = "talk" => SignallingSpec /\ [][FALSE]_vars
<1>1. DriversInit /\ driver = "talk" => SignallingInit
  BY DEF DriversInit
<1>2. driver = "talk" /\ [DriversNext]_dvars => (driver = "talk")'
  BY DriversStep
<1>3. driver = "talk" /\ [DriversNext]_dvars => [SignallingNext]_svars /\ [FALSE]_vars
  BY DriversStep
<1>. QED  BY <1>1, <1>2, <1>3, PTL DEF DriversSpec, SignallingSpec

\* On LiveKit likewise by LiveKitClient.
THEOREM LiveKitIsClient ==
  DriversSpec /\ driver = "livekit" => Spec /\ [][FALSE]_svars
<1>1. DriversInit /\ driver = "livekit" => Init
  BY DEF DriversInit
<1>2. driver = "livekit" /\ [DriversNext]_dvars => (driver = "livekit")'
  BY DriversStep
<1>3. driver = "livekit" /\ [DriversNext]_dvars => [Next]_vars /\ [FALSE]_svars
  BY DriversStep
<1>. QED  BY <1>1, <1>2, <1>3, PTL DEF DriversSpec, Spec

\* A call that CannotJoin refuses is joined by neither.
THEOREM RefusedIsLeft ==
  DriversSpec /\ driver = "refused" => [](leave = "left" /\ leaving = "left" /\ task = "over" /\ pc = "over")
<1>1. DriversInit /\ driver = "refused" => leave = "left" /\ leaving = "left" /\ task = "over" /\ pc = "over"
  BY DEF DriversInit, NoTalk, NoLiveKit, Client, TalkClient
<1>2. /\ driver = "refused" /\ leave = "left" /\ leaving = "left" /\ task = "over" /\ pc = "over"
      /\ [DriversNext]_dvars
      => (driver = "refused" /\ leave = "left" /\ leaving = "left" /\ task = "over" /\ pc = "over")'
  BY DriversStep DEF vars, svars, driving
<1>. QED  BY <1>1, <1>2, PTL DEF DriversSpec

\* The drivers' invariants hold of a call, whichever was made for it.
THEOREM DriversInvariant == DriversSpec => [](KInv /\ TInv)
<1>1. DriversInit => KInv /\ TInv
  BY DriversStart
<1>2. KInv /\ TInv /\ [DriversNext]_dvars => (KInv /\ TInv)'
  BY DriversStep, ClientStep, SignallingStep
<1>. QED  BY <1>1, <1>2, PTL DEF DriversSpec

\* So do the safety properties of LiveKitClient and of SpreedClient.
THEOREM DriversSafe ==
  DriversSpec => /\ [](TypeOK /\ StreamsOfTheRoom /\ LeftMeansOut /\ NobodyMissed)
                 /\ [](SignallingTypeOK /\ WantedIsTrue /\ PresenceIsTrue /\ StaysEnd)
<1>1. KInv => TypeOK /\ StreamsOfTheRoom /\ LeftMeansOut /\ NobodyMissed
  BY DEF KInv
<1>2. TInv => SignallingTypeOK /\ WantedIsTrue /\ PresenceIsTrue /\ StaysEnd
  BY WantedFromFirst, PresenceFromFirst DEF TInv
<1>. QED  BY <1>1, <1>2, DriversInvariant, PTL

\* Nobody is taken off the participant list of a call.
THEOREM DriversKeepStays == DriversSpec => StaysAreKept
<1>1. TInv /\ [DriversNext]_dvars => [\A s \in Sids : stay[s] # "never" => stay'[s] # "never"]_svars
  BY DriversStep, StaysStep
<1>. QED  BY <1>1, DriversInvariant, PTL DEF DriversSpec, StaysAreKept
=============================================================================
