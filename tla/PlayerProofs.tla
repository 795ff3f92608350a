---------------------------- MODULE PlayerProofs ----------------------------
(***************************************************************************)
(* Safety of the Player for every number of control threads and calls and  *)
(* for every script.                                                       *)
(***************************************************************************)
EXTENDS Player, TLAPS

USE DEF vars, shared, requested, service, waiting, timeline, control

-----------------------------------------------------------------------------
(* Type correctness                                                        *)

LEMMA ConstantFacts ==
  /\ 1 \in Positions /\ 1 \in Speeds /\ LastRow \in Nat
  /\ \A p \in Positions : HeldAt[p] \in SUBSET Keys
  /\ \A p \in 1 .. LastRow : p + 1 \in Positions
BY PlayerAssumption DEF Positions

\* A control thread that begins a call writes one value and its own state.
LEMMA BeginCallTypes ==
  ASSUME TypeOK, NEW c \in Controllers, BeginCall(c)
  PROVE  TypeOK'
<1> USE DEF TypeOK
<1>1. TypeShared'
  BY DEF TypeShared, BeginCall, Stop, SetPaused, Seek, SetSpeed, SetStopAt,
         AdjustOffset, WakeLive, Call
<1>2. TypeControl'
  BY DEF TypeControl, Requests, BeginCall, Stop, SetPaused, Seek, SetSpeed,
         SetStopAt, AdjustOffset, WakeLive, Call
<1>3. TypeThread' /\ TypeTimeline'
  BY DEF TypeThread, TypeTimeline, BeginCall, Stop, SetPaused, Seek, SetSpeed, SetStopAt,
         AdjustOffset, WakeLive, Call
<1> QED BY <1>1, <1>2, <1>3

LEMMA FinishTypes ==
  ASSUME TypeOK, NEW c \in Controllers, Finish(c)
  PROVE  TypeOK'
<1> USE DEF TypeOK
<1>1. TypeShared'
  BY DEF TypeShared, TypeControl, Finish, FetchOr, Bump, FutexWake, Step
<1>2. TypeControl'
  BY DEF TypeControl, Finish, FetchOr, Bump, FutexWake, Step
<1>3. "doze" \in PlaybackPcs
  BY DEF PlaybackPcs
<1>4. TypeThread' /\ TypeTimeline'
  BY <1>3 DEF TypeThread, TypeTimeline, Finish, FetchOr, Bump, FutexWake, Step
<1> QED BY <1>1, <1>2, <1>4

LEMMA SettleTypes ==
  ASSUME TypeTimeline, NEW target \in SUBSET Keys, Settle(target)
  PROVE  held' \in SUBSET Keys /\ alive' \in BOOLEAN
BY DEF TypeTimeline, Settle, Flush

LEMMA JumpTypes ==
  ASSUME TypeOK, NEW p \in Positions, Jump(p)
  PROVE  /\ held' \in SUBSET Keys /\ alive' \in BOOLEAN
         /\ row' \in Positions /\ anchor_speed' \in Speeds
         /\ pub' \in {"stopped", "playing", "paused"}
<1>1. HeldAt[p] \in SUBSET Keys
  BY ConstantFacts
<1>2. Settle(HeldAt[p])
  BY DEF Jump
<1>3. held' \in SUBSET Keys /\ alive' \in BOOLEAN
  BY <1>1, <1>2, SettleTypes DEF TypeOK
<1> QED
  BY <1>3 DEF Jump, TypeOK, TypeShared

LEMMA InitTypes == Init => TypeOK
<1> SUFFICES ASSUME Init PROVE TypeOK
  OBVIOUS
<1>1. "off" \in PlaybackPcs
  BY DEF PlaybackPcs
<1>2. TypeShared
  BY ConstantFacts DEF Init, TypeShared
<1>3. TypeThread
  BY <1>1 DEF Init, TypeThread
<1>4. TypeTimeline
  BY ConstantFacts DEF Init, TypeTimeline
<1>5. TypeControl
  BY DEF Init, TypeControl, Requests
<1> QED BY <1>2, <1>3, <1>4, <1>5 DEF TypeOK

\* Wherever the playback thread goes is one of its places.
LEMMA Places ==
  ASSUME TypeOK, Playback \/ Run \/ Interrupted \/ Expired
  PROVE  pc' \in PlaybackPcs
<1>1. CASE Start \/ Pump \/ Poll \/ Checks \/ Row \/ End \/ Clear \/ Publish
  BY <1>1 DEF TypeOK, TypeThread, PlaybackPcs, At, Start, Pump, Poll, Checks, Row, End, Clear, Publish
<1>2. CASE Service
  BY <1>2 DEF TypeOK, TypeThread, PlaybackPcs, At, Service, Exchange, Retime, TakeSeek, Proceed, Pause
<1>3. CASE Hold \/ ReadEpoch \/ ChooseWait
  BY <1>3 DEF TypeOK, TypeThread, PlaybackPcs, At, Hold, HoldExchange, HoldSeek, HoldOn, Resume,
              ReadEpoch, ChooseWait
<1>4. CASE Woken \/ Sleep \/ Interrupted \/ Expired \/ Run
  BY <1>4 DEF TypeOK, TypeThread, PlaybackPcs, At, Woken, Sleep, Interrupted, Expired, Run
<1> QED BY <1>1, <1>2, <1>3, <1>4 DEF Playback

\* The playback thread leaves its callers' variables alone, but for the bits
\* it takes and, in run(), the pause.
LEMMA SharedStep ==
  ASSUME TypeOK, Playback \/ Run \/ Discard \/ Interrupted \/ Expired
  PROVE  TypeShared' /\ TypeControl'
<1>1. CASE Start \/ Pump \/ Poll \/ Checks \/ Row \/ End \/ Clear \/ Publish
  BY <1>1 DEF TypeOK, TypeShared, TypeControl, Start, Pump, Poll, Checks, Row, End, Clear, Publish
<1>2. CASE Exchange
  BY <1>2 DEF TypeOK, TypeShared, TypeControl, Exchange
<1>3. CASE Retime \/ TakeSeek
  BY <1>3 DEF TypeOK, TypeShared, TypeControl, Retime, TakeSeek
<1>4. CASE Proceed
  BY <1>4 DEF TypeOK, TypeShared, TypeControl, Proceed
<1>5. CASE Pause
  <2>1. UNCHANGED <<shared, control>>
    BY <1>5 DEF Pause
  <2> QED BY <2>1 DEF TypeOK, TypeShared, TypeControl
<1>6. CASE Hold \/ ReadEpoch \/ ChooseWait
  BY <1>6 DEF TypeOK, TypeShared, TypeControl, Hold, HoldExchange, HoldSeek, HoldOn, Resume,
              ReadEpoch, ChooseWait
<1>7. CASE Woken \/ Sleep \/ Interrupted \/ Expired
  BY <1>7 DEF TypeOK, TypeShared, TypeControl, Woken, Sleep, Interrupted, Expired
<1>8. CASE Discard
  BY <1>8 DEF TypeOK, TypeShared, TypeControl, Discard
<1>9. CASE Run
  <2>1. TypeShared'
    BY <1>9 DEF TypeOK, TypeShared, Run
  <2>2. TypeControl'
    BY <1>9 DEF TypeOK, TypeControl, Run
  <2> QED BY <2>1, <2>2
<1> QED BY <1>1, <1>2, <1>3, <1>4, <1>5, <1>6, <1>7, <1>8, <1>9 DEF Playback, Service

\* The locals of service(), hold_paused() and wait_to().
LEMMA ThreadStep ==
  ASSUME TypeOK, Playback \/ Run \/ Discard \/ Interrupted \/ Expired
  PROVE  TypeThread'
<1>1. pc' \in PlaybackPcs
  <2>1. CASE Discard
    BY <2>1 DEF Discard, TypeOK, TypeThread
  <2> QED BY <2>1, Places
<1>2. CASE Start \/ Pump \/ Poll \/ Checks \/ Row
  BY <1>1, <1>2 DEF TypeOK, TypeThread, Start, Pump, Poll, Checks, Row
<1>3. CASE Clear \/ Publish \/ Run \/ Discard
  BY <1>1, <1>3 DEF TypeOK, TypeThread, Clear, Publish, Run, Discard
<1>4. CASE End
  <2>1. Return /\ EndWait
    BY <1>4 DEF End
  <2> QED BY <1>1, <2>1 DEF TypeThread, Return, EndWait
<1>5. CASE Exchange \/ HoldExchange
  BY <1>1, <1>5 DEF TypeOK, TypeShared, TypeThread, Exchange, HoldExchange
<1>6. CASE Retime \/ TakeSeek \/ Proceed
  BY <1>1, <1>6 DEF TypeOK, TypeThread, Retime, TakeSeek, Proceed, Return
<1>7. CASE Pause
  <2>1. Return /\ UNCHANGED waiting
    BY <1>7 DEF Pause
  <2> QED BY <1>1, <2>1 DEF TypeOK, TypeThread, Return
<1>8. CASE HoldSeek \/ HoldOn
  BY <1>1, <1>8 DEF TypeOK, TypeThread, HoldSeek, HoldOn, Return
<1>9. CASE Resume
  <2>1. Return /\ EndWait
    BY <1>9 DEF Resume
  <2> QED BY <1>1, <2>1 DEF TypeThread, Return, EndWait
<1>10. CASE ReadEpoch \/ ChooseWait
  BY <1>1, <1>10 DEF TypeOK, TypeShared, TypeThread, ReadEpoch, ChooseWait
<1>11. CASE Woken \/ Sleep \/ Interrupted \/ Expired
  BY <1>1, <1>11 DEF TypeOK, TypeThread, Woken, Sleep, Interrupted, Expired, EndWait
<1> QED
  BY <1>2, <1>3, <1>4, <1>5, <1>6, <1>7, <1>8, <1>9, <1>10, <1>11 DEF Playback, Service, Hold

LEMMA TimelineStep ==
  ASSUME TypeOK, Playback \/ Run \/ Discard \/ Interrupted \/ Expired
  PROVE  TypeTimeline'
<1>1. CASE Run \/ Discard \/ Pump \/ Poll \/ Checks \/ Clear \/ Publish
  BY <1>1 DEF TypeOK, TypeTimeline, Run, Discard, Pump, Poll, Checks, Clear, Publish, Flush
<1>2. CASE Start
  <2>1. PICK p \in Positions : Jump(p)
    BY <1>2 DEF Start
  <2> QED BY <1>2, <2>1, JumpTypes DEF Start, TypeOK, TypeTimeline
<1>3. CASE Row
  <2>1. HeldAt[row + 1] \in SUBSET Keys \/ row \notin 1 .. LastRow
    BY ConstantFacts
  <2>2. row \in 1 .. LastRow => row + 1 \in Positions
    BY ConstantFacts
  <2>3. row' \in Positions
    BY <1>3, <2>2 DEF Row, TypeOK, TypeTimeline
  <2>4. alive' \in BOOLEAN
    BY <1>3 DEF Row, Flush, TypeOK, TypeTimeline
  <2>5. held' \in SUBSET Keys
    BY <1>3, <2>1 DEF Row, TypeOK, TypeTimeline
  <2> QED BY <1>3, <2>3, <2>4, <2>5 DEF Row, TypeOK, TypeTimeline
<1>4. CASE End
  <2>1. held' \in SUBSET Keys /\ alive' \in BOOLEAN
    BY <1>4, SettleTypes DEF End, TypeOK
  <2> QED BY <1>4, <2>1 DEF End, TypeOK, TypeTimeline
<1>5. CASE Exchange \/ HoldExchange \/ Proceed \/ HoldOn
  BY <1>5 DEF TypeOK, TypeTimeline, Exchange, HoldExchange, Proceed, HoldOn
<1>6. CASE Retime \/ HoldSeek
  BY <1>6 DEF TypeOK, TypeShared, TypeTimeline, Retime, HoldSeek
<1>7. CASE TakeSeek
  <2>1. CASE "seek" \in pending
    <3>1. Jump(seek_target) /\ seek_target \in Positions
      BY <1>7, <2>1 DEF TakeSeek, TypeOK, TypeShared
    <3> QED BY <1>7, <3>1, JumpTypes DEF TakeSeek, TypeOK, TypeTimeline
  <2>2. CASE "seek" \notin pending
    BY <1>7, <2>2 DEF TakeSeek, TypeOK, TypeTimeline
  <2> QED BY <2>1, <2>2
<1>8. CASE Pause
  <2>1. held' \in SUBSET Keys /\ alive' \in BOOLEAN
    BY <1>8, SettleTypes DEF Pause, TypeOK
  <2>2. row' \in Positions
    BY <1>8 DEF Pause, TypeOK, TypeTimeline
  <2> QED BY <1>8, <2>1, <2>2 DEF Pause, TypeOK, TypeTimeline
<1>9. CASE Resume
  <2>1. Jump(row) /\ row \in Positions
    BY <1>9 DEF Resume, TypeOK, TypeTimeline
  <2> QED BY <1>9, <2>1, JumpTypes DEF Resume, TypeTimeline
<1>10. CASE ReadEpoch \/ ChooseWait \/ Woken \/ Sleep \/ Interrupted \/ Expired
  BY <1>10 DEF TypeOK, TypeTimeline, ReadEpoch, ChooseWait, Woken, Sleep, Interrupted, Expired
<1> QED
  BY <1>1, <1>2, <1>3, <1>4, <1>5, <1>6, <1>7, <1>8, <1>9, <1>10 DEF Playback, Service, Hold

LEMMA TypeStep == TypeOK /\ [Next]_vars => TypeOK'
<1> SUFFICES ASSUME TypeOK, [Next]_vars PROVE TypeOK'
  OBVIOUS
<1>1. CASE \E c \in Controllers : BeginCall(c) \/ Finish(c)
  BY <1>1, BeginCallTypes, FinishTypes
<1>2. CASE Playback \/ Run \/ Discard \/ Interrupted \/ Expired
  BY <1>2, SharedStep, ThreadStep, TimelineStep DEF TypeOK
<1>3. CASE UNCHANGED vars
  BY <1>3 DEF TypeOK, TypeShared, TypeThread, TypeTimeline, TypeControl
<1> QED BY <1>1, <1>2, <1>3 DEF Next

\* Every variable of the player keeps its type, for any number of callers and
\* calls and any script.
THEOREM TypeCorrect == Spec => []TypeOK
BY InitTypes, TypeStep, PTL DEF Spec

-----------------------------------------------------------------------------
(* No lost wakeup.  From the moment it reads the epoch, everything that    *)
(* happens too late for this turn of the loop will move the epoch: the     *)
(* call that caused it is at "bump", or the epoch has moved already.       *)

AfterRequests ==
  {"hold_seek", "hold_pause", "hold_limit", "wait_limit", "enter", "doze", "asleep"}

AfterPump == AfterRequests \union {"hold_exchange", "wait_poll"}

AfterEpoch == AfterPump \union {"hold_pump", "wait_pump"}

Calling(place) == \E c \in Controllers : cpc[c] = place

WakeInv ==
  /\ pc \in AfterEpoch => seen <= epoch
  /\ pc \in AfterPump /\ inbox /\ epoch = seen => Calling("bump")
  /\ pc \in AfterRequests /\ requests # {} /\ epoch = seen => Calling("bump")
  /\ pc = "asleep" /\ epoch # seen => Calling("wake")

USE DEF AfterRequests, AfterPump, AfterEpoch

\* Beginning a call leaves alone every call that is at "bump" or "wake".
LEMMA WakeBeginCall ==
  ASSUME TypeOK, WakeInv, NEW c \in Controllers, BeginCall(c)
  PROVE  WakeInv'
<1>1. /\ cpc[c] = "idle" /\ UNCHANGED <<pc, seen, epoch, requests>>
      /\ \E next \in {"or", "bump"} : cpc' = [cpc EXCEPT ![c] = next]
      /\ inbox' # inbox => cpc' = [cpc EXCEPT ![c] = "bump"]
  BY DEF BeginCall, Stop, SetPaused, Seek, SetSpeed, SetStopAt, AdjustOffset, WakeLive, Call
<1>2. cpc \in [Controllers -> {"idle", "or", "bump", "wake"}]
  BY DEF TypeOK, TypeControl
<1>3. (Calling("bump") => Calling("bump")') /\ (Calling("wake") => Calling("wake")')
  BY <1>1, <1>2 DEF Calling
<1>4. inbox' # inbox => Calling("bump")'
  BY <1>1, <1>2 DEF Calling
<1> QED BY <1>1, <1>3, <1>4 DEF WakeInv

LEMMA WakeFinish ==
  ASSUME TypeOK, WakeInv, NEW c \in Controllers, Finish(c)
  PROVE  WakeInv'
<1>1. cpc \in [Controllers -> {"idle", "or", "bump", "wake"}] /\ epoch \in Nat /\ seen \in Nat
  BY DEF TypeOK, TypeControl, TypeShared, TypeThread
<1>2. CASE FetchOr(c)
  <2>1. /\ cpc[c] = "or" /\ cpc' = [cpc EXCEPT ![c] = "bump"]
        /\ UNCHANGED <<pc, seen, epoch, inbox>>
    BY <1>2 DEF FetchOr, Step
  <2>2. Calling("bump")' /\ (Calling("wake") => Calling("wake")')
    BY <1>1, <2>1 DEF Calling
  <2> QED BY <2>1, <2>2 DEF WakeInv
<1>3. CASE Bump(c)
  <2>1. /\ cpc[c] = "bump" /\ cpc' = [cpc EXCEPT ![c] = "wake"]
        /\ epoch' = epoch + 1 /\ UNCHANGED <<pc, seen, requests, inbox>>
    BY <1>3 DEF Bump, Step
  <2>2. Calling("wake")'
    BY <1>1, <2>1 DEF Calling
  <2>3. pc \in AfterEpoch => epoch' # seen' /\ seen' <= epoch'
    BY <1>1, <2>1 DEF WakeInv
  <2> QED BY <2>1, <2>2, <2>3 DEF WakeInv
<1>4. CASE FutexWake(c)
  <2>1. /\ cpc[c] = "wake" /\ cpc' = [cpc EXCEPT ![c] = "idle"]
        /\ pc' = IF pc = "asleep" THEN "doze" ELSE pc
        /\ UNCHANGED <<seen, epoch, requests, inbox>>
    BY <1>4 DEF FutexWake, Step
  <2>2. Calling("bump") => Calling("bump")'
    BY <1>1, <2>1 DEF Calling
  <2>3. pc' # "asleep"
    BY <2>1
  <2> QED BY <2>1, <2>2, <2>3 DEF WakeInv
<1> QED BY <1>2, <1>3, <1>4 DEF Finish

\* The playback thread: only the steps into, along and out of its two loops
\* touch what WakeInv relates.
LEMMA WakeThread ==
  ASSUME TypeOK, WakeInv, Playback \/ Run \/ Discard \/ Interrupted \/ Expired
  PROVE  WakeInv'
<1>1. epoch \in Nat /\ seen \in Nat
  BY DEF TypeOK, TypeShared, TypeThread
<1>2. UNCHANGED <<cpc, epoch>>
  <2>1. CASE Start \/ Pump \/ Poll \/ Checks \/ Row \/ End \/ Clear \/ Publish
    BY <2>1 DEF Start, Pump, Poll, Checks, Row, End, Clear, Publish
  <2>2. CASE Service
    BY <2>2 DEF Service, Exchange, Retime, TakeSeek, Proceed, Pause
  <2>3. CASE Hold \/ ReadEpoch \/ ChooseWait \/ Woken \/ Sleep
    BY <2>3 DEF Hold, HoldExchange, HoldSeek, HoldOn, Resume, ReadEpoch, ChooseWait, Woken, Sleep
  <2>4. CASE Interrupted \/ Expired \/ Run \/ Discard
    BY <2>4 DEF Interrupted, Expired, Run, Discard
  <2> QED BY <2>1, <2>2, <2>3, <2>4 DEF Playback
<1>3. UNCHANGED <<Calling("bump"), Calling("wake")>>
  BY <1>2 DEF Calling
<1>4. CASE pc' \notin AfterEpoch
  BY <1>4 DEF WakeInv
<1>5. CASE ReadEpoch
  BY <1>1, <1>2, <1>5 DEF ReadEpoch, At, WakeInv
<1>6. CASE Pump
  BY <1>2, <1>3, <1>6 DEF Pump, At, WakeInv
<1>7. CASE Poll
  BY <1>2, <1>3, <1>7 DEF Poll, WakeInv
<1>8. CASE Hold
  BY <1>2, <1>3, <1>8 DEF Hold, HoldExchange, HoldSeek, HoldOn, Resume, At, WakeInv
<1>9. CASE ChooseWait \/ Sleep \/ Interrupted
  BY <1>2, <1>3, <1>9 DEF ChooseWait, Sleep, Interrupted, At, WakeInv
<1>10. CASE Start \/ Checks \/ Row \/ End \/ Clear \/ Publish \/ Service \/ Woken \/ Run \/ Expired
  <2>1. pc' \notin AfterEpoch
    BY <1>10 DEF Start, Checks, Row, End, Clear, Publish, Service, Exchange, Retime, TakeSeek,
                 Proceed, Pause, Woken, Run, Expired, At
  <2> QED BY <2>1, <1>4
<1>11. CASE Discard
  BY <1>2, <1>11 DEF Discard, WakeInv
<1> QED BY <1>5, <1>6, <1>7, <1>8, <1>9, <1>10, <1>11 DEF Playback

LEMMA WakeStep == TypeOK /\ WakeInv /\ [Next]_vars => WakeInv'
<1> SUFFICES ASSUME TypeOK, WakeInv, [Next]_vars PROVE WakeInv'
  OBVIOUS
<1>1. CASE \E c \in Controllers : BeginCall(c) \/ Finish(c)
  BY <1>1, WakeBeginCall, WakeFinish
<1>2. CASE Playback \/ Run \/ Discard \/ Interrupted \/ Expired
  BY <1>2, WakeThread
<1>3. CASE UNCHANGED vars
  BY <1>3 DEF WakeInv, Calling
<1> QED BY <1>1, <1>2, <1>3 DEF Next

\* A request or live input that is outstanding while the playback thread
\* sleeps has a control call on its way to wake it: the epoch is read before
\* the pump and the requests, and a call moves it after posting.
THEOREM WakeupsAreNotLost == Spec => []NoLostWakeup
<1>1. Init => WakeInv
  BY DEF Init, WakeInv
<1>2. TypeOK /\ WakeInv => NoLostWakeup
  BY DEF WakeInv, NoLostWakeup, Calling
<1> QED BY <1>1, <1>2, WakeStep, TypeCorrect, PTL DEF Spec

-----------------------------------------------------------------------------
(* A run that sleeps agrees with its controls.  A value that was stored    *)
(* and is not obeyed yet has its request bit set, taken and not yet        *)
(* served, or about to be set by the call that stored the value.           *)

HoldPcs == {"hold", "hold_pump", "hold_exchange", "hold_seek", "hold_pause", "hold_limit"}

SleepPcs == {"enter", "doze", "asleep"}

RunPcs == {"top", "poll", "exchange", "retime", "seek", "pause", "checks", "row", "wait",
           "wait_pump", "wait_poll", "wait_limit"}

Posting(bit) == \E c \in Controllers : cpc[c] = "or" /\ cbit[c] = bit

PausedWhere ==
  /\ pc \in HoldPcs => paused
  /\ pc \notin HoldPcs \union SleepPcs => ~paused

PauseAsked ==
  \/ "pause" \in requests \/ Posting("pause")
  \/ "pause" \in pending /\ pc \in {"retime", "seek", "pause", "hold_seek", "hold_pause"}

PauseInv ==
  want_paused # paused /\ pc \notin {"off", "end", "clear", "publish"} => PauseAsked

RetimeAsked ==
  \/ "retime" \in requests \/ Posting("retime")
  \/ "retime" \in pending /\ pc = "retime"

SpeedInv ==
  ~paused /\ pc \in RunPcs \union SleepPcs /\ anchor_speed # speed => RetimeAsked

SleepInv ==
  pc \in SleepPcs =>
    /\ sleep = "forever" => paused
    /\ sleep = "row" => ~paused
    /\ epoch = seen /\ ~Calling("bump") =>
         IF stop_at THEN sleep # "forever" ELSE sleep # "limit"

ControlInv == PausedWhere /\ PauseInv /\ SpeedInv /\ SleepInv

USE DEF HoldPcs, SleepPcs, RunPcs

LEMMA ControlBeginCall ==
  ASSUME TypeOK, ControlInv, NEW c \in Controllers, BeginCall(c)
  PROVE  ControlInv'
<1>1. /\ cpc[c] = "idle"
      /\ UNCHANGED <<pc, seen, sleep, epoch, requests, pending, paused, anchor_speed>>
      /\ \E next \in {"or", "bump"}, bit \in Requests :
           /\ cpc' = [cpc EXCEPT ![c] = next] /\ cbit' = [cbit EXCEPT ![c] = bit]
           /\ want_paused' # want_paused => next = "or" /\ bit = "pause"
           /\ speed' # speed => next = "or" /\ bit = "retime"
           /\ stop_at' # stop_at => next = "bump"
  BY DEF Requests, BeginCall, Stop, SetPaused, Seek, SetSpeed, SetStopAt, AdjustOffset, WakeLive, Call
<1>2. cpc \in [Controllers -> {"idle", "or", "bump", "wake"}] /\ cbit \in [Controllers -> Requests]
  BY DEF TypeOK, TypeControl
<1>3. \A bit \in Requests : Posting(bit) => Posting(bit)'
  BY <1>1, <1>2 DEF Posting
<1>4. Calling("bump") => Calling("bump")'
  BY <1>1, <1>2 DEF Calling
<1>5. want_paused' # want_paused => Posting("pause")'
  BY <1>1, <1>2 DEF Posting
<1>6. speed' # speed => Posting("retime")'
  BY <1>1, <1>2 DEF Posting
<1>7. stop_at' # stop_at => Calling("bump")'
  BY <1>1, <1>2 DEF Calling
<1>8. PausedWhere'
  BY <1>1 DEF ControlInv, PausedWhere
<1>9. PauseInv'
  BY <1>1, <1>3, <1>5 DEF ControlInv, PauseInv, PauseAsked, Requests
<1>10. SpeedInv'
  BY <1>1, <1>3, <1>6 DEF ControlInv, SpeedInv, RetimeAsked, Requests
<1>11. SleepInv'
  BY <1>1, <1>4, <1>7 DEF ControlInv, SleepInv
<1> QED BY <1>8, <1>9, <1>10, <1>11 DEF ControlInv

LEMMA ControlFinish ==
  ASSUME TypeOK, WakeInv, ControlInv, NEW c \in Controllers, Finish(c)
  PROVE  ControlInv'
<1>1. /\ cpc \in [Controllers -> {"idle", "or", "bump", "wake"}]
      /\ cbit \in [Controllers -> Requests] /\ epoch \in Nat /\ seen \in Nat
  BY DEF TypeOK, TypeControl, TypeShared, TypeThread
<1>2. UNCHANGED <<requested, sleep, seen, pending, paused, anchor_speed, cbit>>
  BY DEF Finish, FetchOr, Bump, FutexWake, Step
<1>3. pc' = pc \/ (pc = "asleep" /\ pc' = "doze")
  <2>1. CASE FetchOr(c) \/ Bump(c)
    BY <2>1 DEF FetchOr, Bump
  <2>2. CASE FutexWake(c)
    BY <2>2 DEF FutexWake
  <2> QED BY <2>1, <2>2 DEF Finish
<1>4. requests \subseteq requests'
  BY DEF Finish, FetchOr, Bump, FutexWake
<1>5. \A bit \in Requests : Posting(bit) => Posting(bit)' \/ bit \in requests'
  <2>1. CASE FetchOr(c)
    BY <1>1, <2>1 DEF Posting, FetchOr, Step
  <2>2. CASE Bump(c) \/ FutexWake(c)
    BY <1>1, <2>2 DEF Posting, Bump, FutexWake, Step
  <2> QED BY <2>1, <2>2 DEF Finish
<1>6. PausedWhere'
  BY <1>2, <1>3 DEF ControlInv, PausedWhere
<1>7. PauseInv'
  BY <1>2, <1>3, <1>4, <1>5 DEF ControlInv, PauseInv, PauseAsked, Requests
<1>8. SpeedInv'
  BY <1>2, <1>3, <1>4, <1>5 DEF ControlInv, SpeedInv, RetimeAsked, Requests
<1>9. SleepInv'
  <2>1. CASE Bump(c)
    <3>1. pc \in SleepPcs => epoch' # seen'
      BY <1>1, <1>2, <2>1 DEF Bump, WakeInv
    <3> QED BY <1>2, <1>3, <3>1 DEF ControlInv, SleepInv
  <2>2. CASE FetchOr(c) \/ FutexWake(c)
    <3>1. UNCHANGED epoch /\ (Calling("bump") => Calling("bump")')
      BY <1>1, <2>2 DEF FetchOr, FutexWake, Step, Calling
    <3> QED BY <1>2, <1>3, <3>1 DEF ControlInv, SleepInv
  <2> QED BY <2>1, <2>2 DEF Finish
<1> QED BY <1>6, <1>7, <1>8, <1>9 DEF ControlInv

\* The playback thread takes a request before it obeys it, and what it has
\* taken it serves before it sleeps.
LEMMA ControlThread ==
  ASSUME TypeOK, ControlInv, Playback \/ Run \/ Discard \/ Interrupted \/ Expired
  PROVE  ControlInv'
<1>1. UNCHANGED <<cpc, cbit>>
  <2>1. CASE Start \/ Pump \/ Poll \/ Checks \/ Row \/ End \/ Clear \/ Publish
    BY <2>1 DEF Start, Pump, Poll, Checks, Row, End, Clear, Publish
  <2>2. CASE Service
    BY <2>2 DEF Service, Exchange, Retime, TakeSeek, Proceed, Pause
  <2>3. CASE Hold \/ ReadEpoch \/ ChooseWait \/ Woken \/ Sleep
    BY <2>3 DEF Hold, HoldExchange, HoldSeek, HoldOn, Resume, ReadEpoch, ChooseWait, Woken, Sleep
  <2>4. CASE Interrupted \/ Expired \/ Run \/ Discard
    BY <2>4 DEF Interrupted, Expired, Run, Discard
  <2> QED BY <2>1, <2>2, <2>3, <2>4 DEF Playback
<1>2. (Posting("pause"))' = Posting("pause") /\ (Posting("retime"))' = Posting("retime")
      /\ (Calling("bump"))' = Calling("bump")
  BY <1>1 DEF Posting, Calling
<1> USE DEF ControlInv, PausedWhere, PauseInv, PauseAsked, SpeedInv, RetimeAsked, SleepInv
<1>3. CASE Run
  <2>1. pc' = "start" /\ paused' = FALSE
    BY <1>3 DEF Run, At
  <2>2. want_paused' = FALSE
    BY <1>3 DEF Run
  <2> QED BY <2>1, <2>2
<1>4. CASE Discard
  BY <1>2, <1>4 DEF Discard
<1>5. CASE Start
  BY <1>2, <1>5 DEF Start, At, Jump
<1>6. CASE Pump \/ Poll \/ Checks \/ Row
  BY <1>2, <1>6 DEF Pump, Poll, Checks, Row, At
<1>7. CASE End \/ Clear \/ Publish
  BY <1>2, <1>7 DEF End, Clear, Publish, At
<1>8. CASE Exchange
  BY <1>2, <1>8 DEF Exchange
<1>9. CASE Retime
  BY <1>2, <1>9 DEF Retime, At
<1>10. CASE TakeSeek
  BY <1>2, <1>10 DEF TakeSeek, Jump, At
<1>11. CASE Proceed
  <2>1. /\ pc = "pause" /\ pc' \in {"top", "checks", "wait"}
        /\ UNCHANGED <<requests, want_paused, speed, paused, anchor_speed>>
        /\ "pause" \in pending => ~want_paused
    BY <1>11 DEF Proceed
  <2>2. ~paused /\ paused \in BOOLEAN /\ want_paused \in BOOLEAN
    BY <2>1 DEF TypeOK, TypeShared, TypeTimeline
  <2>3. pc' # "exchange" /\ pc' \notin HoldPcs /\ pc' \notin SleepPcs
    BY <2>1
  <2>4. PauseInv'
    BY <1>2, <2>1, <2>2
  <2>5. SpeedInv'
    BY <1>2, <2>1, <2>2
  <2> QED BY <2>1, <2>2, <2>3, <2>4, <2>5
<1>12. CASE Pause
  BY <1>2, <1>12 DEF Pause, At
<1>13. CASE HoldExchange \/ HoldSeek
  BY <1>2, <1>13 DEF HoldExchange, HoldSeek, At
<1>14. CASE HoldOn
  BY <1>2, <1>14 DEF HoldOn
<1>15. CASE Resume
  <2>1. /\ pc' = "top" /\ paused' = FALSE /\ ~want_paused' /\ want_paused' = want_paused
        /\ speed' = speed /\ anchor_speed' = speed
    BY <1>15 DEF Resume, Jump, At
  <2>2. want_paused' = FALSE
    BY <2>1 DEF TypeOK, TypeShared
  <2> QED BY <2>1, <2>2
<1>16. CASE ReadEpoch
  BY <1>2, <1>16 DEF ReadEpoch, At
<1>17. CASE ChooseWait
  BY <1>2, <1>17 DEF ChooseWait, At
<1>18. CASE Woken
  BY <1>2, <1>18 DEF Woken
<1>19. CASE Sleep \/ Interrupted
  BY <1>2, <1>19 DEF Sleep, Interrupted, At
<1>20. CASE Expired
  BY <1>2, <1>20 DEF Expired, At
<1> QED
  BY <1>3, <1>4, <1>5, <1>6, <1>7, <1>8, <1>9, <1>10, <1>11, <1>12, <1>13, <1>14, <1>15,
     <1>16, <1>17, <1>18, <1>19, <1>20 DEF Playback, Service, Hold

LEMMA ControlStep == TypeOK /\ WakeInv /\ ControlInv /\ [Next]_vars => ControlInv'
<1> SUFFICES ASSUME TypeOK, WakeInv, ControlInv, [Next]_vars PROVE ControlInv'
  OBVIOUS
<1>1. CASE \E c \in Controllers : BeginCall(c) \/ Finish(c)
  BY <1>1, ControlBeginCall, ControlFinish
<1>2. CASE Playback \/ Run \/ Discard \/ Interrupted \/ Expired
  BY <1>2, ControlThread
<1>3. CASE UNCHANGED vars
  BY <1>3 DEF ControlInv, PausedWhere, PauseInv, PauseAsked, SpeedInv, RetimeAsked, SleepInv,
              Posting, Calling
<1> QED BY <1>1, <1>2, <1>3 DEF Next

LEMMA ControlInvariant == Spec => []ControlInv
<1>1. Init => ControlInv
  BY DEF Init, ControlInv, PausedWhere, PauseInv, SpeedInv, SleepInv
<1>2. Init => WakeInv
  BY DEF Init, WakeInv
<1> QED BY <1>1, <1>2, WakeStep, ControlStep, TypeCorrect, PTL DEF Spec

\* A run that sleeps while no call is under way is paused or not, plays at
\* the speed and watches the time limit that the last calls asked for.
THEOREM SleepAgreesWithControls == Spec => []ControlsAgree
<1>1. Init => WakeInv
  BY DEF Init, WakeInv
<1>2. ASSUME TypeOK, WakeInv, ControlInv PROVE ControlsAgree
  <2> SUFFICES ASSUME pc = "asleep", ~InFlight
               PROVE  /\ requests = {} /\ ~inbox /\ paused = want_paused
                      /\ paused \/ anchor_speed = speed
                      /\ IF stop_at THEN sleep # "forever" ELSE sleep # "limit"
                      /\ sleep = "forever" => paused
    BY DEF ControlsAgree
  <2>1. ~Calling("bump") /\ ~Calling("wake") /\ \A bit : ~Posting(bit)
    BY DEF InFlight, Calling, Posting
  <2>2. epoch = seen /\ requests = {} /\ ~inbox
    BY <1>2, <2>1 DEF WakeInv
  <2>3. ~PauseAsked /\ ~RetimeAsked
    BY <2>1, <2>2 DEF PauseAsked, RetimeAsked
  <2>4. paused \in BOOLEAN /\ want_paused \in BOOLEAN
    BY <1>2 DEF TypeOK, TypeShared, TypeTimeline
  <2>5. paused = want_paused
    BY <1>2, <2>3, <2>4 DEF ControlInv, PauseInv
  <2>6. paused \/ anchor_speed = speed
    BY <1>2, <2>3 DEF ControlInv, SpeedInv
  <2>7. /\ IF stop_at THEN sleep # "forever" ELSE sleep # "limit"
        /\ sleep = "forever" => paused
    BY <1>2, <2>1, <2>2 DEF ControlInv, SleepInv
  <2> QED BY <2>2, <2>5, <2>6, <2>7
<1> QED BY <1>1, <1>2, WakeStep, TypeCorrect, ControlInvariant, PTL DEF Spec

-----------------------------------------------------------------------------
(* What is held.  HoldsTheScript is inductive once it is known where the   *)
(* player is paused.                                                       *)

LEMMA Settled ==
  ASSUME NEW target, Settle(target)
  PROVE  alive' => held' = target
BY DEF Settle, Flush

LEMMA HeldThread ==
  ASSUME TypeOK, PausedWhere, PausedWhere', HoldsTheScript,
         Playback \/ Run \/ Discard \/ Interrupted \/ Expired
  PROVE  HoldsTheScript'
<1> USE DEF PausedWhere, HoldsTheScript, Holding, Stopped, At
<1>1. CASE Run
  BY <1>1 DEF Run
<1>2. CASE Discard \/ Pump \/ Clear \/ Publish
  BY <1>2 DEF Discard, Pump, Clear, Publish
<1>3. CASE Start
  <2>1. PICK p \in Positions : Jump(p)
    BY <1>3 DEF Start
  <2>2. alive' => held' = HeldAt[row']
    BY <2>1, Settled DEF Jump
  <2> QED BY <1>3, <2>2 DEF Start
<1>4. CASE Poll
  BY <1>4 DEF Poll
<1>5. CASE Checks
  BY <1>5 DEF Checks, Flush
<1>6. CASE Row
  <2>1. CASE pc' = "end"
    BY <2>1
  <2>2. CASE pc' = "top"
    <3>1. row' = row + 1 /\ ~paused' /\ (alive' => held' = HeldAt[row + 1])
      BY <1>6, <2>2 DEF Row
    <3> QED BY <2>2, <3>1
  <2> QED BY <1>6, <2>1, <2>2 DEF Row
<1>7. CASE End
  BY <1>7, Settled DEF End
<1>8. CASE Exchange
  BY <1>8 DEF Exchange
<1>9. CASE Retime
  BY <1>9 DEF Retime
<1>10. CASE TakeSeek
  <2>1. CASE "seek" \in pending
    <3>1. alive' => held' = HeldAt[row']
      BY <1>10, <2>1, Settled DEF TakeSeek, Jump
    <3> QED BY <1>10, <3>1 DEF TakeSeek
  <2>2. CASE "seek" \notin pending
    BY <1>10, <2>2 DEF TakeSeek
  <2> QED BY <2>1, <2>2
<1>11. CASE Proceed
  <2>1. /\ pc = "pause" /\ pc' \in {"top", "checks", "wait"}
        /\ UNCHANGED <<row, held, paused, alive>>
    BY <1>11 DEF Proceed
  <2> QED BY <2>1
<1>12. CASE Pause
  <2>1. pc' = "hold" /\ (alive' => held' = {})
    BY <1>12, Settled DEF Pause
  <2> QED BY <2>1
<1>13. CASE HoldExchange
  BY <1>13 DEF HoldExchange
<1>14. CASE HoldSeek
  <2>1. pc = "hold_seek" /\ pc' = "hold_pause" /\ UNCHANGED <<held, paused, alive>>
    BY <1>14 DEF HoldSeek
  <2> QED BY <2>1
<1>15. CASE HoldOn
  <2>1. pc = "hold_pause" /\ pc' \in {"hold_limit", "hold"} /\ UNCHANGED <<held, paused, alive>>
    BY <1>15 DEF HoldOn
  <2> QED BY <2>1
<1>16. CASE Resume
  <2>1. alive' => held' = HeldAt[row']
    BY <1>16, Settled DEF Resume, Jump
  <2> QED BY <1>16, <2>1 DEF Resume
<1>17. CASE ReadEpoch \/ ChooseWait
  BY <1>17 DEF ReadEpoch, ChooseWait
<1>18. CASE Woken
  BY <1>18 DEF Woken
<1>19. CASE Sleep \/ Interrupted
  BY <1>19 DEF Sleep, Interrupted
<1>20. CASE Expired
  BY <1>20 DEF Expired
<1> QED
  BY <1>1, <1>2, <1>3, <1>4, <1>5, <1>6, <1>7, <1>8, <1>9, <1>10, <1>11, <1>12, <1>13, <1>14,
     <1>15, <1>16, <1>17, <1>18, <1>19, <1>20 DEF Playback, Service, Hold

LEMMA HeldControl ==
  ASSUME HoldsTheScript, NEW c \in Controllers, BeginCall(c) \/ Finish(c)
  PROVE  HoldsTheScript'
<1>1. UNCHANGED timeline
  BY DEF BeginCall, Stop, SetPaused, Seek, SetSpeed, SetStopAt, AdjustOffset, WakeLive, Call,
         Finish, FetchOr, Bump, FutexWake, Step
<1>2. pc' = pc \/ (pc = "asleep" /\ pc' = "doze")
  <2>1. CASE BeginCall(c) \/ FetchOr(c) \/ Bump(c)
    BY <2>1 DEF BeginCall, Stop, SetPaused, Seek, SetSpeed, SetStopAt, AdjustOffset, WakeLive,
                Call, FetchOr, Bump
  <2>2. CASE FutexWake(c)
    BY <2>2 DEF FutexWake
  <2> QED BY <2>1, <2>2 DEF Finish
<1> QED BY <1>1, <1>2 DEF HoldsTheScript, Holding, Stopped

LEMMA HeldStep ==
  TypeOK /\ PausedWhere /\ PausedWhere' /\ HoldsTheScript /\ [Next]_vars => HoldsTheScript'
<1> SUFFICES ASSUME TypeOK, PausedWhere, PausedWhere', HoldsTheScript, [Next]_vars
             PROVE  HoldsTheScript'
  OBVIOUS
<1>1. CASE \E c \in Controllers : BeginCall(c) \/ Finish(c)
  BY <1>1, HeldControl
<1>2. CASE Playback \/ Run \/ Discard \/ Interrupted \/ Expired
  BY <1>2, HeldThread
<1>3. CASE UNCHANGED vars
  BY <1>3 DEF HoldsTheScript, Holding, Stopped
<1> QED BY <1>1, <1>2, <1>3 DEF Next

\* After any number of seeks, pauses, resumes and losses, a device that is
\* still there holds what uninterrupted playback holds at the current row, and
\* nothing while the player is paused or stopped.
THEOREM HeldFollowsTheScript == Spec => []HoldsTheScript
<1>1. Init => HoldsTheScript
  BY DEF Init, HoldsTheScript, Stopped
<1>2. ControlInv => PausedWhere
  BY DEF ControlInv
<1> QED BY <1>1, <1>2, HeldStep, TypeCorrect, ControlInvariant, PTL DEF Spec

-----------------------------------------------------------------------------
(* The player implements the abstract playback.                            *)

ServicePcs == {"retime", "seek", "pause", "hold_seek", "hold_pause"}

\* What is reported while a run goes on, and that a stop which was taken is
\* acted on first.
ReportInv ==
  /\ pc \in HoldPcs \union SleepPcs \union RunPcs => pub = IF paused THEN "paused" ELSE "playing"
  /\ pc = "end" => pub \in {"playing", "paused"}
  /\ pc \in ServicePcs => "stop" \notin pending

\* What was taken is gone when it has been served.
PendingInv == pc \notin ServicePcs \union {"end"} => pending = {}

USE DEF ServicePcs

LEMMA ReportControl ==
  ASSUME ReportInv, NEW c \in Controllers, BeginCall(c) \/ Finish(c)
  PROVE  ReportInv'
<1>1. UNCHANGED <<timeline, pending>>
  BY DEF BeginCall, Stop, SetPaused, Seek, SetSpeed, SetStopAt, AdjustOffset, WakeLive, Call,
         Finish, FetchOr, Bump, FutexWake, Step
<1>2. pc' = pc \/ (pc = "asleep" /\ pc' = "doze")
  <2>1. CASE BeginCall(c) \/ FetchOr(c) \/ Bump(c)
    BY <2>1 DEF BeginCall, Stop, SetPaused, Seek, SetSpeed, SetStopAt, AdjustOffset, WakeLive,
                Call, FetchOr, Bump
  <2>2. CASE FutexWake(c)
    BY <2>2 DEF FutexWake
  <2> QED BY <2>1, <2>2 DEF Finish
<1> QED BY <1>1, <1>2 DEF ReportInv

LEMMA ReportThread ==
  ASSUME TypeOK, PausedWhere, ReportInv, Playback \/ Run \/ Discard \/ Interrupted \/ Expired
  PROVE  ReportInv'
<1> USE DEF PausedWhere, ReportInv, At
<1>1. CASE Run
  <2>1. pc' = "start"
    BY <1>1 DEF Run
  <2> QED BY <2>1
<1>2. CASE Discard
  BY <1>2 DEF Discard
<1>3. CASE Start
  <2>1. pc' = "top" /\ pub' = "playing" /\ UNCHANGED paused /\ ~paused
    BY <1>3 DEF Start, Jump
  <2> QED BY <2>1
<1>4. CASE Pump \/ Poll \/ Checks \/ Row
  BY <1>4 DEF Pump, Poll, Checks, Row
<1>5. CASE End \/ Clear \/ Publish
  <2>1. pc' \in {"clear", "publish", "off"}
    BY <1>5 DEF End, Clear, Publish
  <2> QED BY <2>1
<1>6. CASE Exchange
  <2>1. /\ pc = "exchange" /\ UNCHANGED <<pub, paused>> /\ pending' = requests
        /\ pc' = IF "stop" \in requests THEN "end" ELSE "retime"
    BY <1>6 DEF Exchange
  <2> QED BY <2>1
<1>7. CASE Retime
  BY <1>7 DEF Retime
<1>8. CASE TakeSeek
  <2>1. /\ pc = "seek" /\ pc' = "pause" /\ UNCHANGED <<pending, paused>> /\ ~paused
        /\ pub' \in {pub, "playing"}
    BY <1>8 DEF TakeSeek, Jump
  <2> QED BY <2>1
<1>9. CASE Proceed
  <2>1. pc = "pause" /\ pc' \in {"top", "checks", "wait"} /\ UNCHANGED <<pub, paused>>
    BY <1>9 DEF Proceed
  <2> QED BY <2>1
<1>10. CASE Pause
  <2>1. pc' = "hold" /\ paused' = TRUE /\ pub' = "paused"
    BY <1>10 DEF Pause
  <2> QED BY <2>1
<1>11. CASE HoldExchange
  <2>1. /\ pc = "hold_exchange" /\ UNCHANGED pub /\ pending' = requests
        /\ \/ pc' = "end"
           \/ pc' = "hold_seek" /\ "stop" \notin requests /\ UNCHANGED paused
    BY <1>11 DEF HoldExchange
  <2> QED BY <2>1
<1>12. CASE HoldSeek
  BY <1>12 DEF HoldSeek
<1>13. CASE HoldOn
  <2>1. pc = "hold_pause" /\ pc' \in {"hold_limit", "hold"} /\ UNCHANGED <<pub, paused>>
    BY <1>13 DEF HoldOn
  <2> QED BY <2>1
<1>14. CASE Resume
  <2>1. pc' = "top" /\ paused' = FALSE /\ pub' = "playing"
    BY <1>14 DEF Resume, Jump
  <2> QED BY <2>1
<1>15. CASE ReadEpoch \/ ChooseWait \/ Sleep \/ Interrupted
  BY <1>15 DEF ReadEpoch, ChooseWait, Sleep, Interrupted
<1>16. CASE Woken
  BY <1>16 DEF Woken
<1>17. CASE Expired
  <2>1. /\ pc = "doze" /\ UNCHANGED pub
        /\ pc' = "end" \/ (pc' = "row" /\ UNCHANGED paused)
    BY <1>17 DEF Expired
  <2>2. pub \in {"playing", "paused"}
    BY <2>1
  <2> QED BY <2>1, <2>2
<1> QED
  BY <1>1, <1>2, <1>3, <1>4, <1>5, <1>6, <1>7, <1>8, <1>9, <1>10, <1>11, <1>12, <1>13, <1>14,
     <1>15, <1>16, <1>17 DEF Playback, Service, Hold

LEMMA PendingStep ==
  ASSUME PendingInv, [Next]_vars
  PROVE  PendingInv'
<1> USE DEF PendingInv, At
<1>1. ASSUME NEW c \in Controllers, BeginCall(c) \/ Finish(c) PROVE PendingInv'
  <2>1. UNCHANGED pending
    BY <1>1 DEF BeginCall, Stop, SetPaused, Seek, SetSpeed, SetStopAt, AdjustOffset, WakeLive, Call,
           Finish, FetchOr, Bump, FutexWake, Step
  <2>2. CASE BeginCall(c) \/ FetchOr(c) \/ Bump(c)
    <3>1. UNCHANGED pc
      BY <2>2 DEF BeginCall, Stop, SetPaused, Seek, SetSpeed, SetStopAt, AdjustOffset, WakeLive,
                  Call, FetchOr, Bump
    <3> QED BY <2>1, <3>1
  <2>3. CASE FutexWake(c)
    BY <2>1, <2>3 DEF FutexWake
  <2> QED BY <1>1, <2>2, <2>3 DEF Finish
<1>2. CASE Run \/ Discard
  BY <1>2 DEF Run, Discard
<1>3. CASE Start \/ Pump \/ Checks \/ Row \/ Clear \/ Publish
  BY <1>3 DEF Start, Pump, Checks, Row, Clear, Publish
<1>4. CASE Poll
  BY <1>4 DEF Poll
<1>5. CASE End \/ Proceed \/ Pause \/ HoldOn \/ Resume
  BY <1>5 DEF End, Proceed, Pause, HoldOn, Resume, Return
<1>6. CASE Exchange \/ HoldExchange
  <2>1. pc' \in {"end", "retime", "hold_seek"}
    BY <1>6 DEF Exchange, HoldExchange
  <2> QED BY <2>1
<1>7. CASE Retime \/ TakeSeek \/ HoldSeek
  <2>1. pc' \in {"seek", "pause", "hold_pause"}
    BY <1>7 DEF Retime, TakeSeek, HoldSeek
  <2> QED BY <2>1
<1>8. CASE ReadEpoch \/ ChooseWait \/ Woken \/ Sleep \/ Interrupted \/ Expired
  BY <1>8 DEF ReadEpoch, ChooseWait, Woken, Sleep, Interrupted, Expired
<1>9. CASE UNCHANGED vars
  BY <1>9
<1> QED
  BY <1>1, <1>2, <1>3, <1>4, <1>5, <1>6, <1>7, <1>8, <1>9 DEF Next, Playback, Service, Hold

LEMMA ReportInvariant == Spec => []ReportInv /\ []PendingInv
<1>1. Init => ReportInv /\ PendingInv
  BY DEF Init, ReportInv, PendingInv
<1>2. TypeOK /\ ControlInv /\ ReportInv /\ [Next]_vars => ReportInv'
  <2> SUFFICES ASSUME TypeOK, ControlInv, ReportInv, [Next]_vars PROVE ReportInv'
    OBVIOUS
  <2>1. CASE \E c \in Controllers : BeginCall(c) \/ Finish(c)
    BY <2>1, ReportControl
  <2>2. CASE Playback \/ Run \/ Discard \/ Interrupted \/ Expired
    BY <2>2, ReportThread DEF ControlInv
  <2>3. CASE UNCHANGED vars
    BY <2>3 DEF ReportInv
  <2> QED BY <2>1, <2>2, <2>3 DEF Next
<1>3. PendingInv /\ [Next]_vars => PendingInv'
  BY PendingStep
<1> QED BY <1>1, <1>2, <1>3, TypeCorrect, ControlInvariant, PTL DEF Spec

\* A step that the abstract playback does not see.
Hidden == UNCHANGED <<Mode, row, held, alive, Asked>>

LEMMA RefineControl ==
  ASSUME TypeOK, NEW c \in Controllers, BeginCall(c) \/ Finish(c)
  PROVE  [PB!Next]_PB!vars
<1>1. UNCHANGED <<timeline, pending>>
  BY DEF BeginCall, Stop, SetPaused, Seek, SetSpeed, SetStopAt, AdjustOffset, WakeLive, Call,
         Finish, FetchOr, Bump, FutexWake, Step
<1>2. CASE BeginCall(c)
  <2>1. UNCHANGED <<pc, requests>>
    BY <1>2 DEF BeginCall, Stop, SetPaused, Seek, SetSpeed, SetStopAt, AdjustOffset, WakeLive, Call
  <2> QED BY <1>1, <2>1 DEF PB!vars, Mode, Asked, Stopped, Unserved
<1>3. CASE FetchOr(c)
  <2>1. UNCHANGED pc /\ requests' = requests \union {cbit[c]} /\ cbit[c] \in PB!Controls
    BY <1>3 DEF FetchOr, TypeOK, TypeControl, Requests, PB!Controls
  <2>2. UNCHANGED <<Mode, Unserved>>
    BY <1>1, <2>1 DEF Mode, Stopped, Unserved
  <2>3. Asked' = Asked \union {cbit[c]}
    BY <2>1, <2>2 DEF Asked
  <2>4. PB!Ask
    BY <1>1, <2>1, <2>2, <2>3 DEF PB!Ask
  <2> QED BY <2>4 DEF PB!Next
<1>4. CASE Bump(c)
  <2>1. UNCHANGED <<pc, requests>>
    BY <1>4 DEF Bump
  <2> QED BY <1>1, <2>1 DEF PB!vars, Mode, Asked, Stopped, Unserved
<1>5. CASE FutexWake(c)
  <2>1. UNCHANGED requests /\ (pc' = pc \/ (pc = "asleep" /\ pc' = "doze"))
    BY <1>5 DEF FutexWake
  <2> QED BY <1>1, <2>1 DEF PB!vars, Mode, Asked, Stopped, Unserved
<1> QED BY <1>2, <1>3, <1>4, <1>5 DEF Finish

LEMMA SettleHolds ==
  ASSUME TypeOK, NEW target, Settle(target)
  PROVE  PB!Holds(target)
<1>1. alive' \in {alive, FALSE}
  BY DEF Settle, Flush
<1> QED BY <1>1, Settled DEF PB!Holds

LEMMA JumpHolds ==
  ASSUME TypeOK, NEW p, Jump(p)
  PROVE  row' = p /\ PB!Holds(HeldAt[row']) /\ pub' = "playing"
BY SettleHolds DEF Jump

LEMMA RefineThread ==
  ASSUME TypeOK, TypeOK', PausedWhere, ReportInv, PendingInv,
         Playback \/ Run \/ Discard \/ Interrupted \/ Expired
  PROVE  [PB!Next]_PB!vars
<1> USE DEF At, Mode, Asked, Stopped
<1>0. row \in Positions /\ row' \in Positions /\ Positions = PB!Positions
  BY DEF TypeOK, TypeTimeline, Positions, PB!Positions
<1>1. CASE Run
  <2>1. PB!Prepare
    BY <1>1 DEF Run, Unserved, PB!Prepare
  <2> QED BY <2>1 DEF PB!Next
<1>2. CASE Discard \/ Clear
  <2>1. Stopped /\ Stopped' /\ Asked' = {} /\ UNCHANGED <<row, held, alive>>
    BY <1>2 DEF Discard, Clear, Unserved
  <2>2. PB!Discard
    BY <2>1 DEF PB!Discard
  <2> QED BY <2>2 DEF PB!Next
<1>3. CASE Start
  <2>1. PICK p \in Positions : Jump(p)
    BY <1>3 DEF Start
  <2>2. row' \in Positions /\ PB!Holds(HeldAt[row']) /\ pub' = "playing"
    BY <2>1, JumpHolds
  <2>3. PB!Play
    BY <1>0, <1>3, <2>2 DEF Start, Unserved, PB!Play
  <2> QED BY <2>3 DEF PB!Next
<1>4. CASE Pump \/ Poll
  <2>1. Hidden
    BY <1>4 DEF Pump, Poll, Unserved, Hidden
  <2> QED BY <2>1 DEF Hidden, PB!vars
<1>5. CASE Checks
  <2>1. /\ pc = "checks" /\ pc' \in {"end", "wait", "row"} /\ pending = {}
        /\ UNCHANGED <<requests, pending, pub, row, held>>
    BY <1>5 DEF Checks, PendingInv
  <2>2. alive' = alive \/ alive' = FALSE
    BY <1>5 DEF Checks, Flush
  <2>3. UNCHANGED <<Mode, row, held, Asked>>
    BY <2>1 DEF Unserved
  <2> QED BY <2>2, <2>3 DEF PB!Next, PB!Lose, PB!vars
<1>6. CASE Row
  <2>1. CASE pc' = "end"
    <3>1. /\ pc = "row" /\ pending = {} /\ UNCHANGED <<requests, pending, pub, row, held>>
          /\ alive' = alive \/ alive' = FALSE
      BY <1>6, <2>1 DEF Row, Flush, PendingInv
    <3>2. UNCHANGED <<Mode, row, held, Asked>>
      BY <2>1, <3>1 DEF Unserved
    <3> QED BY <3>1, <3>2 DEF PB!Next, PB!Lose, PB!vars
  <2>2. CASE pc' = "top"
    <3>1. /\ pc = "row" /\ row \in 1 .. LastRow /\ row' = row + 1 /\ pub = "playing"
          /\ UNCHANGED <<requests, pending, pub>>
      BY <1>6, <2>2 DEF Row, PausedWhere, ReportInv
    <3>2. PB!Holds(HeldAt[row'])
      BY <1>6, <2>2, <3>1 DEF Row, Flush, PB!Holds
    <3>3. PB!Advance
      BY <2>2, <3>1, <3>2 DEF PB!Advance, Unserved
    <3> QED BY <3>3 DEF PB!Next
  <2> QED BY <1>6, <2>1, <2>2 DEF Row
<1>7. CASE End
  <2>1. /\ pc = "end" /\ pc' = "clear" /\ pub \in {"playing", "paused"}
        /\ UNCHANGED <<requests, row, pub>> /\ Settle({})
    BY <1>7 DEF End, ReportInv
  <2>2. Asked' \subseteq Asked
    BY <2>1 DEF Unserved
  <2>3. PB!Stop
    BY <2>1, <2>2, SettleHolds DEF PB!Stop
  <2> QED BY <2>3 DEF PB!Next
<1>8. CASE Publish
  BY <1>8 DEF Publish, PB!vars, Unserved
<1>9. CASE Exchange
  <2>1. /\ pc = "exchange" /\ pc' \in {"end", "retime"}
        /\ requests' = {} /\ pending' = requests /\ UNCHANGED <<pub, row, held, alive>>
    BY <1>9 DEF Exchange
  <2>2. Hidden
    BY <2>1 DEF Unserved, Hidden
  <2> QED BY <2>2 DEF Hidden, PB!vars
<1>10. CASE Retime
  <2>1. /\ pc = "retime" /\ pc' = "seek" /\ pub = "playing" /\ pub' = "playing"
        /\ UNCHANGED <<requests, pending, row, held, alive>>
    BY <1>10 DEF Retime, PausedWhere, ReportInv
  <2>2. CASE "retime" \in pending
    <3>1. "retime" \in Asked /\ Asked' \in {Asked, Asked \ {"retime"}}
      BY <2>1, <2>2 DEF Unserved
    <3>2. PB!Ignore
      BY <2>1, <3>1 DEF PB!Ignore, PB!Serve
    <3> QED BY <3>2 DEF PB!Next
  <2>3. CASE "retime" \notin pending
    BY <2>1, <2>3 DEF PB!vars, Unserved
  <2> QED BY <2>2, <2>3
<1>11. CASE TakeSeek
  <2>1. /\ pc = "seek" /\ pc' = "pause" /\ pub = "playing"
        /\ UNCHANGED <<requests, pending>>
    BY <1>11 DEF TakeSeek, PausedWhere, ReportInv
  <2>2. CASE "seek" \in pending
    <3>1. PB!Holds(HeldAt[row']) /\ pub' = "playing"
      BY <1>11, <2>2, JumpHolds DEF TakeSeek
    <3>2. "seek" \in Asked /\ Asked' \in {Asked, Asked \ {"seek"}}
      BY <2>1, <2>2 DEF Unserved
    <3>3. PB!Seek
      BY <1>0, <2>1, <3>1, <3>2 DEF PB!Seek, PB!Serve
    <3> QED BY <3>3 DEF PB!Next
  <2>3. CASE "seek" \notin pending
    BY <1>11, <2>1, <2>3 DEF TakeSeek, PB!vars, Unserved
  <2> QED BY <2>2, <2>3
<1>12. CASE Proceed \/ HoldOn
  <2>1. /\ pc \in {"pause", "hold_pause"}
        /\ pc' \in {"top", "checks", "wait", "hold_limit", "hold"}
        /\ pending' = {} /\ UNCHANGED <<requests, pub, row, held, alive>>
    BY <1>12 DEF Proceed, HoldOn, Return
  <2>2. Unserved = pending \ {"retime", "seek"} /\ Unserved' = {}
    BY <2>1 DEF Unserved
  <2>3. pending \subseteq {"pause", "seek", "retime"}
    BY <2>1 DEF ReportInv, TypeOK, TypeThread, Requests
  <2>4. CASE "pause" \in pending
    <3>1. "pause" \in Asked /\ Asked' \in {Asked, Asked \ {"pause"}}
      BY <2>1, <2>2, <2>3, <2>4
    <3>2. PB!Ignore
      BY <2>1, <3>1 DEF PB!Ignore, PB!Serve
    <3> QED BY <3>2 DEF PB!Next
  <2>5. CASE "pause" \notin pending
    <3>1. Unserved = {}
      BY <2>2, <2>3, <2>5
    <3> QED BY <2>1, <2>2, <3>1 DEF PB!vars
  <2> QED BY <2>4, <2>5
<1>13. CASE Pause \/ Resume
  <2>1. /\ pc \in {"pause", "hold_pause"} /\ "pause" \in pending
        /\ pc' \in {"hold", "top"} /\ pending' = {} /\ UNCHANGED requests
    BY <1>13 DEF Pause, Resume, Return
  <2>2. Unserved = pending \ {"retime", "seek"} /\ Unserved' = {}
    BY <2>1 DEF Unserved
  <2>3. pending \subseteq {"pause", "seek", "retime"}
    BY <2>1 DEF ReportInv, TypeOK, TypeThread, Requests
  <2>4. "pause" \in Asked /\ Asked' \in {Asked, Asked \ {"pause"}}
    BY <2>1, <2>2, <2>3
  <2>5. CASE Pause
    <3>1. pc = "pause" /\ pub = "playing" /\ pub' = "paused" /\ Settle({})
      BY <2>5 DEF Pause, PausedWhere, ReportInv
    <3>2. PB!Pause
      BY <1>0, <2>1, <2>4, <3>1, SettleHolds DEF PB!Pause, PB!Serve
    <3> QED BY <3>2 DEF PB!Next
  <2>6. CASE Resume
    <3>1. pc = "hold_pause" /\ pub = "paused" /\ Jump(row)
      BY <2>6 DEF Resume, PausedWhere, ReportInv
    <3>2. PB!Resume
      BY <2>1, <2>4, <3>1, JumpHolds DEF PB!Resume, PB!Serve
    <3> QED BY <3>2 DEF PB!Next
  <2> QED BY <1>13, <2>5, <2>6
<1>14. CASE HoldExchange
  <2>1. /\ pc = "hold_exchange" /\ pc' \in {"end", "hold_seek"}
        /\ requests' = {} /\ pending' = requests /\ UNCHANGED <<pub, row, held, alive>>
    BY <1>14 DEF HoldExchange
  <2>2. Asked = requests /\ Asked' \in {requests, requests \ {"retime"}}
    BY <2>1 DEF Unserved
  <2>3. CASE "retime" \in requests
    <3>1. PB!Ignore
      BY <2>1, <2>2, <2>3 DEF PB!Ignore, PB!Serve
    <3> QED BY <3>1 DEF PB!Next
  <2>4. CASE "retime" \notin requests
    BY <2>1, <2>2, <2>4 DEF PB!vars
  <2> QED BY <2>3, <2>4
<1>15. CASE HoldSeek
  <2>1. /\ pc = "hold_seek" /\ pc' = "hold_pause" /\ pub = "paused"
        /\ UNCHANGED <<requests, pending, pub, held, alive>>
    BY <1>15 DEF HoldSeek, PausedWhere, ReportInv
  <2>2. CASE "seek" \in pending
    <3>1. "seek" \in Asked /\ Asked' \in {Asked, Asked \ {"seek"}}
      BY <2>1, <2>2 DEF Unserved
    <3>2. PB!Seek
      BY <1>0, <2>1, <3>1 DEF PB!Seek, PB!Serve
    <3> QED BY <3>2 DEF PB!Next
  <2>3. CASE "seek" \notin pending
    BY <1>15, <2>1, <2>3 DEF HoldSeek, PB!vars, Unserved
  <2> QED BY <2>2, <2>3
<1>16. CASE ReadEpoch \/ ChooseWait \/ Sleep \/ Interrupted
  <2>1. Hidden
    BY <1>16 DEF ReadEpoch, ChooseWait, Sleep, Interrupted, Unserved, Hidden
  <2> QED BY <2>1 DEF Hidden, PB!vars
<1>17. CASE Woken
  <2>1. pc \in {"enter", "doze"} /\ pc' \in {"hold", "wait"}
        /\ UNCHANGED <<requests, pub, row, held, alive>>
    BY <1>17 DEF Woken
  <2> QED BY <2>1 DEF PB!vars, Unserved
<1>18. CASE Expired
  <2>1. pending = {} /\ pc = "doze" /\ pc' \in {"end", "row"}
        /\ UNCHANGED <<requests, pending, pub, row, held, alive>>
    BY <1>18 DEF Expired, PendingInv
  <2> QED BY <2>1 DEF PB!vars, Unserved
<1> QED
  BY <1>1, <1>2, <1>3, <1>4, <1>5, <1>6, <1>7, <1>8, <1>9, <1>10, <1>11, <1>12, <1>13, <1>14,
     <1>15, <1>16, <1>17, <1>18 DEF Playback, Service, Hold

\* The player implements the abstract playback: the threads, the request
\* bits and the wake word are not seen, only the rows, what is held, what is
\* reported and which controls were asked for.
THEOREM PlayerImplementsPlayback == Spec => ImplementsPlayback
<1>1. Init => PB!Init
  BY ConstantFacts DEF Init, PB!Init, Mode, Asked, Stopped, Unserved, Positions, PB!Positions
<1>2. /\ TypeOK /\ TypeOK' /\ ControlInv /\ ReportInv /\ PendingInv
      /\ [Next]_vars
      => [PB!Next]_PB!vars
  <2> SUFFICES ASSUME TypeOK, TypeOK', ControlInv, ReportInv, PendingInv, [Next]_vars
               PROVE  [PB!Next]_PB!vars
    OBVIOUS
  <2>1. CASE \E c \in Controllers : BeginCall(c) \/ Finish(c)
    BY <2>1, RefineControl
  <2>2. CASE Playback \/ Run \/ Discard \/ Interrupted \/ Expired
    BY <2>2, RefineThread DEF ControlInv
  <2>3. CASE UNCHANGED vars
    BY <2>3 DEF PB!vars, Mode, Asked, Stopped, Unserved
  <2> QED BY <2>1, <2>2, <2>3 DEF Next
<1> QED
  BY <1>1, <1>2, TypeCorrect, ControlInvariant, ReportInvariant, PTL
  DEF Spec, ImplementsPlayback, PB!Spec
=============================================================================
