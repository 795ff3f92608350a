---------------------------- MODULE EngineProofs ----------------------------
(***************************************************************************)
(* For any number of callers, calls and runs: a stop never outlives the     *)
(* playback it was posted for; and while no call is overtaken, there is at  *)
(* most one playback, the phase on show is the session's when nothing is    *)
(* under way, and live control that is on is served.  And the answer of a  *)
(* route of the control API says what happened (Requests).                 *)
(***************************************************************************)
EXTENDS Engine, Requests, SequenceFacts, TLAPS

-----------------------------------------------------------------------------
(* Stops                                                                   *)

\* Where the worker is from taking a playback command to its finish_run(), or
\* to its return without one.
PlayPlaces == {"play", "playlist", "run", "list_check", "list_run", "list_next", "finish", "done"}

\* What makes StopsOnlyItsOwn inductive: a command is the running playback
\* only while the worker executes it.
StopInv ==
  /\ running_play \in BOOLEAN
  /\ running_play => pc \in PlayPlaces
  /\ StopsOnlyItsOwn

LEMMA StopInvInit == Init => StopInv
  BY DEF Init, StopInv, StopsOnlyItsOwn

\* A call that posts no stop and leaves the worker where it is.
LEMMA StopInvKept ==
  ASSUME StopInv, UNCHANGED <<running_play, pc, runs, stop_of>>
  PROVE  StopInv'
  BY DEF StopInv, StopsOnlyItsOwn

\* A call that posts a stop under the lock.
LEMMA StopInvPosted ==
  ASSUME StopInv, StopRunning, UNCHANGED <<running_play, pc, runs>>
  PROVE  StopInv'
  BY DEF StopInv, StopsOnlyItsOwn, StopRunning

\* A step that drops the requests or finds none, as a playback command ends.
LEMMA StopInvDropped ==
  ASSUME StopInv, stop_of' = 0, running_play' \in BOOLEAN,
         running_play' => pc' \in PlayPlaces
  PROVE  StopInv'
  BY DEF StopInv, StopsOnlyItsOwn

LEMMA CallsKeepStopInv ==
  ASSUME StopInv, NEW c \in Callers, NewCall(c) \/ FinishCall(c)
  PROVE  StopInv'
<1>1. CASE Stop(c)
  <2>1. StopRunning /\ UNCHANGED <<running_play, pc, runs>>
    BY <1>1 DEF Stop, Begin, session
  <2> QED BY <2>1, StopInvPosted
<1>2. CASE DisconnectClear(c)
  <2>1. StopRunning /\ UNCHANGED <<running_play, pc, runs>>
    BY <1>2 DEF DisconnectClear, Continue, session
  <2> QED BY <2>1, StopInvPosted
<1>3. CASE Refresh(c) \/ Connect(c) \/ Accessory(c) \/ Play(c) \/ PlayPlaylist(c)
  <2>1. UNCHANGED <<running_play, pc, runs, stop_of>>
    BY <1>3 DEF Refresh, Connect, Accessory, Play, PlayPlaylist, PushFrom, Push, Begin, session, player
  <2> QED BY <2>1, StopInvKept
<1>4. CASE Seek(c) \/ LiveStart(c) \/ LiveStop(c) \/ Disconnect(c)
  <2>1. UNCHANGED <<running_play, pc, runs, stop_of>>
    BY <1>4 DEF Seek, LiveStart, LiveStop, Disconnect, Begin, engine, session, player
  <2> QED BY <2>1, StopInvKept
<1>5. CASE SeekPost(c) \/ LiveReset(c) \/ LiveOn(c) \/ LivePush(c) \/ LiveClear(c) \/ DisconnectPush(c)
  <2>1. UNCHANGED <<running_play, pc, runs, stop_of>>
    BY <1>5 DEF SeekPost, LiveReset, LiveOn, LivePush, LiveClear, DisconnectPush, Push, Continue,
                engine, session, player
  <2> QED BY <2>1, StopInvKept
<1> QED BY <1>1, <1>2, <1>3, <1>4, <1>5 DEF NewCall, FinishCall

LEMMA WorkerKeepsStopInv ==
  ASSUME StopInv, Worker \/ RunEnds \/ LiveDrops
  PROVE  StopInv'
<1>1. CASE Take
  \* Nothing is running while the worker waits, so nothing is pending.
  <2>1. stop_of = 0
    BY <1>1 DEF Take, WorkerAt, StopInv, StopsOnlyItsOwn, PlayPlaces
  <2>2. stop_of' = 0 /\ pc' = Head(queue) /\ running_play' = (Head(queue) \in Plays)
    BY <1>1, <2>1 DEF Take, WorkerAt, player
  <2>3. Plays \subseteq PlayPlaces
    BY DEF Plays, PlayPlaces
  <2>4. running_play' \in BOOLEAN
    <3>1. (Head(queue) \in Plays) \in BOOLEAN
      OBVIOUS
    <3> QED BY <2>2, <3>1
  <2>5. running_play' => pc' \in PlayPlaces
    BY <2>2, <2>3, Zenon
  <2> QED BY <2>2, <2>4, <2>5, StopInvDropped
<1>2. CASE RunEnds \/ RunStops
  <2>1. stop_of' = 0 /\ running_play' = running_play /\ pc' \in {"finish", "list_next"}
    BY <1>2 DEF RunEnds, RunStops, EndRun, WorkerAt, engine
  <2> QED BY <2>1, StopInvDropped DEF StopInv, PlayPlaces
<1>3. CASE FinishRun
  <2>1. stop_of' = 0 /\ running_play' = FALSE
    BY <1>3 DEF FinishRun
  <2> QED BY <2>1, StopInvDropped
<1>4. CASE Done
  <2>1. running_play' = FALSE /\ stop_of' = IF running_play THEN 0 ELSE stop_of
    BY <1>4 DEF Done, player
  <2>2. stop_of' = 0
    BY <2>1 DEF StopInv, StopsOnlyItsOwn
  <2> QED BY <2>1, <2>2, StopInvDropped
<1>5. CASE Rescan \/ Open \/ Switch \/ Close \/ Gone \/ Quit \/ LiveLeaves \/ LiveDrops \/ LiveOff
  \* Each of them but Gone executes a command that is no playback.
  <2>1. running_play' = running_play /\ stop_of' = stop_of
    BY <1>5 DEF Rescan, Open, Switch, Close, Gone, Quit, LiveLeaves, LiveDrops, LiveOff,
                Push, engine, player
  <2>2. pc' \in {"done", "finish"} \/ pc \notin PlayPlaces
    BY <1>5 DEF Rescan, Open, Switch, Close, Gone, Quit, LiveLeaves, LiveDrops, LiveOff,
                WorkerAt, PlayPlaces
  <2>3. pc' \notin {"play", "run"}
    BY <1>5 DEF Rescan, Open, Switch, Close, Gone, Quit, LiveLeaves, LiveDrops, LiveOff, WorkerAt
  <2> QED BY <2>1, <2>2, <2>3 DEF StopInv, StopsOnlyItsOwn, PlayPlaces
<1>6. CASE Start
  <2>1. UNCHANGED <<running_play, runs, stop_of>>
    BY <1>6 DEF Start, engine, session, player
  <2>2. \/ pc = "play" /\ pc' = "run"
        \/ pc' = "list_check"
        \/ pc = "live"
    BY <1>6 DEF Start, WorkerAt
  <2>3. pc = "live" => pc' \notin {"play", "run"}
    BY <1>6 DEF Start, WorkerAt
  <2> QED BY <2>1, <2>2, <2>3 DEF StopInv, StopsOnlyItsOwn, PlayPlaces
<1>7. CASE RunSeeks
  <2>1. UNCHANGED <<running_play, pc, runs, stop_of>>
    BY <1>7 DEF RunSeeks, WorkerAt, engine, session
  <2> QED BY <2>1, StopInvKept
<1>8. CASE ListCheck \/ ListNext
  <2>1. UNCHANGED <<running_play, stop_of>> /\ pc' \in {"finish", "list_run", "list_check"}
    BY <1>8 DEF ListCheck, ListNext, WorkerAt, engine, player
  <2> QED BY <2>1 DEF StopInv, StopsOnlyItsOwn, PlayPlaces
<1> QED BY <1>1, <1>2, <1>3, <1>4, <1>5, <1>6, <1>7, <1>8 DEF Worker

LEMMA DestroyKeepsStopInv ==
  ASSUME StopInv, Destroy
  PROVE  StopInv'
<1>1. StopRunning /\ UNCHANGED <<running_play, pc, runs>>
  BY DEF Destroy, session
<1> QED BY <1>1, StopInvPosted

LEMMA StepsKeepStopInv == StopInv /\ [Next]_vars => StopInv'
<1> SUFFICES ASSUME StopInv, [Next]_vars PROVE StopInv'
  OBVIOUS
<1>1. CASE UNCHANGED vars
  <2>1. UNCHANGED <<running_play, pc, runs, stop_of>>
    BY <1>1 DEF vars, engine, session, player
  <2> QED BY <2>1, StopInvKept
<1>2. CASE Next
  BY <1>2, CallsKeepStopInv, WorkerKeepsStopInv, DestroyKeepsStopInv DEF Next
<1> QED BY <1>1, <1>2

\* A stop ends only the playback it was posted for: whatever the callers do and
\* however many runs there are, none is pending when a playback command is
\* taken.  (Engine::stop, finish_run and loop.)
THEOREM StopEndsOnlyItsOwn == Spec => []StopsOnlyItsOwn
<1>1. StopInv => StopsOnlyItsOwn
  BY DEF StopInv
<1> QED BY <1>1, StopInvInit, StepsKeepStopInv, PTL DEF Spec

-----------------------------------------------------------------------------
(* What the queue holds in a session                                       *)

Lives(q) == q \in Seq(Kinds) /\ \A n \in 1..Len(q) : q[n] = "live"

\* A playback waits behind what live control has queued.
LivesThenPlay(q) ==
  /\ q \in Seq(Kinds) /\ Len(q) >= 1 /\ q[Len(q)] \in Plays
  /\ \A n \in 1..(Len(q) - 1) : q[n] = "live"

\* None of the kinds a call takes back is a playback and live at once.
LEMMA LiveIsNoPlay == "live" \in Kinds /\ "live" \notin Plays /\ Plays \subseteq Kinds
  BY DEF Kinds, Plays

LEMMA NothingIsLives == Lives(<<>>) /\ \A q : ~(LivesThenPlay(q) /\ q = <<>>)
  BY DEF Lives, LivesThenPlay

\* live_start() and play() queue.
LEMMA LivesAppended ==
  ASSUME NEW q, Lives(q)
  PROVE  Lives(Append(q, "live")) /\ \A k \in Plays : LivesThenPlay(Append(q, k))
<1>1. Len(q) \in Nat /\ q \in Seq(Kinds)
  BY DEF Lives
<1>2. \A k \in Kinds : /\ Append(q, k) \in Seq(Kinds) /\ Len(Append(q, k)) = Len(q) + 1
                       /\ Append(q, k)[Len(q) + 1] = k
                       /\ \A n \in 1..Len(q) : Append(q, k)[n] = q[n]
  BY <1>1
<1>3. Lives(Append(q, "live"))
  BY <1>1, <1>2, LiveIsNoPlay DEF Lives
<1>4. ASSUME NEW k \in Plays PROVE LivesThenPlay(Append(q, k))
  BY <1>1, <1>2, LiveIsNoPlay DEF Lives, LivesThenPlay
<1> QED BY <1>3, <1>4

\* The worker takes the front command.
LEMMA LivesTaken ==
  ASSUME NEW q, Lives(q), q # <<>>
  PROVE  Head(q) = "live" /\ Lives(Tail(q))
<1>1. q \in Seq(Kinds) /\ Len(q) \in Nat /\ Len(q) >= 1
  BY DEF Lives
<1>2. /\ Tail(q) \in Seq(Kinds) /\ Len(Tail(q)) = Len(q) - 1 /\ Head(q) = q[1]
      /\ \A n \in 1..(Len(q) - 1) : Tail(q)[n] = q[n + 1]
  BY <1>1
<1> QED BY <1>1, <1>2 DEF Lives

LEMMA PlayTaken ==
  ASSUME NEW q, LivesThenPlay(q)
  PROVE  \/ Head(q) \in Plays /\ Tail(q) = <<>>
         \/ Head(q) = "live" /\ LivesThenPlay(Tail(q))
<1>1. q \in Seq(Kinds) /\ Len(q) \in Nat /\ Len(q) >= 1
  BY DEF LivesThenPlay
<1>2. /\ Tail(q) \in Seq(Kinds) /\ Len(Tail(q)) = Len(q) - 1 /\ Head(q) = q[1]
      /\ \A n \in 1..(Len(q) - 1) : Tail(q)[n] = q[n + 1]
  BY <1>1
<1>3. CASE Len(q) = 1
  <2>1. Tail(q) \in Seq(Kinds) /\ Len(Tail(q)) = 0
    BY <1>2, <1>3
  <2>2. Tail(q) = <<>>
    BY <2>1, NoLength, Zenon
  <2>3. Head(q) \in Plays
    BY <1>2, <1>3, Zenon DEF LivesThenPlay
  <2> QED BY <2>2, <2>3, Zenon
<1>4. CASE Len(q) # 1
  <2>1. Len(q) \in Nat /\ Len(q) > 1
    <3>1. \A n \in Nat : n >= 1 /\ n # 1 => n > 1
      OBVIOUS
    <3> QED BY <1>1, <1>4, <3>1, Zenon
  <2>2. Head(q) = "live"
    <3>1. 1 \in 1..(Len(q) - 1)
      BY <2>1
    <3> QED BY <1>2, <3>1, Zenon DEF LivesThenPlay
  <2>3. Tail(q)[Len(q) - 1] = q[Len(q)] /\ Len(q) - 1 >= 1
    <3>1. Len(q) - 1 \in 1..(Len(q) - 1) /\ (Len(q) - 1) + 1 = Len(q)
      BY <2>1
    <3> QED BY <1>2, <3>1
  <2>4. \A n \in 1..((Len(q) - 1) - 1) : Tail(q)[n] = "live"
    <3>1. \A n \in 1..((Len(q) - 1) - 1) : n \in 1..(Len(q) - 1) /\ n + 1 \in 1..(Len(q) - 1)
      BY <2>1
    <3> QED BY <1>2, <3>1 DEF LivesThenPlay
  <2>5. LivesThenPlay(Tail(q))
    BY <1>2, <2>3, <2>4 DEF LivesThenPlay
  <2> QED BY <2>2, <2>5, Zenon
<1> QED BY <1>3, <1>4

\* stop() finds no playback among what live control has queued.
LEMMA NoPlayAmongLives == ASSUME NEW q, Lives(q) PROVE RemoveFirstMatch(q, IsPlay) = q
  BY LiveIsNoPlay DEF Lives, RemoveFirstMatch, IsPlay

\* stop() takes a queued playback back.
LEMMA PlayTakenBack ==
  ASSUME NEW q, LivesThenPlay(q)
  PROVE  Lives(RemoveFirstMatch(q, IsPlay)) /\ RemoveFirstMatch(q, IsPlay) # q
<1> DEFINE I == {n \in 1..Len(q) : IsPlay(q[n])}
<1>1. q \in Seq(Kinds) /\ Len(q) \in Nat /\ Len(q) >= 1 /\ Len(q) \in 1..Len(q)
  BY DEF LivesThenPlay
<1>2. I = {Len(q)}
  <2>1. \A n \in 1..Len(q) : n # Len(q) => ~IsPlay(q[n])
    BY <1>1, LiveIsNoPlay DEF LivesThenPlay, IsPlay
  <2>2. IsPlay(q[Len(q)])
    BY DEF LivesThenPlay, IsPlay
  <2> QED BY <1>1, <2>1, <2>2, Zenon
<1>3. Min(I) = Len(q)
  <2>1. {Len(q)} \subseteq Nat /\ {Len(q)} # {}
    BY <1>1
  <2>2. Min({Len(q)}) \in {Len(q)}
    BY <2>1, LeastNumber, Zenon
  <2> QED BY <1>2, <2>2
<1>4. RemoveFirstMatch(q, IsPlay) = RemoveAt(q, Len(q))
  <2>1. SelectInSeq(q, IsPlay) = Len(q)
    BY <1>2, <1>3 DEF SelectInSeq
  <2>2. \E n \in 1..Len(q) : IsPlay(q[n])
    BY <1>2
  <2> QED BY <2>1, <2>2 DEF RemoveFirstMatch
<1>5. /\ RemoveAt(q, Len(q)) \in Seq(Kinds) /\ Len(RemoveAt(q, Len(q))) = Len(q) - 1
      /\ \A n \in 1..(Len(q) - 1) :
            RemoveAt(q, Len(q))[n] = IF n < Len(q) THEN q[n] ELSE q[n + 1]
  BY <1>1, Removed, Zenon
<1>6. Lives(RemoveAt(q, Len(q)))
  BY <1>1, <1>5 DEF Lives, LivesThenPlay
<1>7. RemoveAt(q, Len(q)) # q
  BY <1>1, <1>5
<1> QED BY <1>4, <1>6, <1>7

\* live_stop() takes one queued command of live control back.
LEMMA LiveTakenBack ==
  ASSUME NEW q \in Seq(Kinds), NEW k \in 1..Len(q), q[k] = "live"
  PROVE  \E n \in 1..Len(q) : q[n] = "live" /\ RemoveFirst(q, "live") = RemoveAt(q, n)
<1> DEFINE I == {n \in 1..Len(q) : q[n] = "live"}
<1>1. I \subseteq Nat /\ I # {}
  OBVIOUS
<1>2. Min(I) \in I
  BY <1>1, LeastNumber, Zenon
<1>3. SelectInSeq(q, LAMBDA v : v = "live") = Min(I)
  BY <1>1 DEF SelectInSeq
<1>4. RemoveFirst(q, "live") = RemoveAt(q, Min(I))
  BY <1>3 DEF RemoveFirst
<1> QED BY <1>2, <1>4

LEMMA LivesLeft == ASSUME NEW q, Lives(q) PROVE Lives(RemoveFirst(q, "live"))
<1>1. q \in Seq(Kinds) /\ Len(q) \in Nat
  BY DEF Lives
<1>2. CASE \E k \in 1..Len(q) : q[k] = "live"
  <2>1. PICK n \in 1..Len(q) : RemoveFirst(q, "live") = RemoveAt(q, n)
    BY <1>1, <1>2, LiveTakenBack
  <2>2. /\ RemoveAt(q, n) \in Seq(Kinds) /\ Len(RemoveAt(q, n)) = Len(q) - 1
        /\ \A m \in 1..(Len(q) - 1) : RemoveAt(q, n)[m] = IF m < n THEN q[m] ELSE q[m + 1]
    BY <1>1, Removed, Zenon
  <2>3. \A m \in 1..(Len(q) - 1) : m \in 1..Len(q) /\ m + 1 \in 1..Len(q)
    BY <1>1
  <2>4. Lives(RemoveAt(q, n))
    BY <2>2, <2>3 DEF Lives
  <2> QED BY <2>1, <2>4, Zenon
<1>3. CASE ~\E k \in 1..Len(q) : q[k] = "live"
  BY <1>3 DEF RemoveFirst
<1> QED BY <1>2, <1>3

LEMMA PlayLeft == ASSUME NEW q, LivesThenPlay(q) PROVE LivesThenPlay(RemoveFirst(q, "live"))
<1>1. q \in Seq(Kinds) /\ Len(q) \in Nat /\ Len(q) >= 1
  BY DEF LivesThenPlay
<1>2. CASE \E k \in 1..Len(q) : q[k] = "live"
  <2>1. PICK n \in 1..Len(q) : q[n] = "live" /\ RemoveFirst(q, "live") = RemoveAt(q, n)
    BY <1>1, <1>2, LiveTakenBack
  <2>2. n # Len(q)
    BY <2>1, LiveIsNoPlay, Zenon DEF LivesThenPlay
  <2>3. n \in Nat /\ n < Len(q) /\ n >= 1
    BY <1>1, <2>2
  <2> DEFINE r == RemoveAt(q, n)
  <2>4. r \in Seq(Kinds) /\ Len(r) = Len(q) - 1
    BY <1>1, Removed, Zenon
  <2>5. \A m \in 1..(Len(q) - 1) : r[m] = IF m < n THEN q[m] ELSE q[m + 1]
    BY <1>1, Removed, Zenon
  <2> HIDE DEF r
  <2>6. Len(r) \in 1..(Len(q) - 1) /\ Len(r) + 1 = Len(q) /\ ~(Len(r) < n) /\ Len(r) >= 1
    BY <1>1, <2>3, <2>4
  <2>7. r[Len(r)] = q[Len(q)]
    BY <2>5, <2>6, Zenon
  <2>8. \A m \in 1..(Len(r) - 1) : r[m] = "live"
    <3>1. \A m \in 1..(Len(r) - 1) : m \in 1..(Len(q) - 1) /\ m + 1 \in 1..(Len(q) - 1)
      BY <1>1, <2>4
    <3> QED BY <2>5, <3>1, Zenon DEF LivesThenPlay
  <2>9. LivesThenPlay(r)
    BY <2>4, <2>6, <2>7, <2>8, Zenon DEF LivesThenPlay
  <2> QED BY <2>1, <2>9, Zenon DEF r
<1>3. CASE ~\E k \in 1..Len(q) : q[k] = "live"
  BY <1>3 DEF RemoveFirst
<1> QED BY <1>2, <1>3

\* disconnect() leaves nothing of what a session has queued.
LEMMA SessionPurged ==
  ASSUME NEW q, Lives(q) \/ LivesThenPlay(q)
  PROVE  Purged(q, Plays \union {"live"}) = <<>>
<1> DEFINE kept == {n \in DOMAIN q : q[n] \notin Plays \union {"live"}}
<1>1. q \in Seq(Kinds) /\ Len(q) \in Nat
  BY DEF Lives, LivesThenPlay
<1>2. \A n \in 1..Len(q) : n # Len(q) => n \in 1..(Len(q) - 1)
  BY <1>1
<1>3. \A n \in 1..Len(q) : q[n] \in Plays \union {"live"}
  BY <1>2, Zenon DEF Lives, LivesThenPlay
<1>4. kept = {}
  BY <1>1, <1>3
<1>5. Cardinality(kept) = 0
  BY <1>4, FS_EmptySet
<1>6. Purged(q, Plays \union {"live"}) \in [1..0 -> {}]
  BY <1>5 DEF Purged
<1> QED BY <1>6

\* A command that no call takes back.
LEMMA OneKept ==
  ASSUME NEW k \in Kinds, k \notin Plays \union {"live"}
  PROVE  /\ Append(<<>>, k) = <<k>> /\ Head(<<k>>) = k /\ Tail(<<k>>) = <<>> /\ <<k>> # <<>>
         /\ RemoveFirst(<<k>>, "live") = <<k>> /\ RemoveFirstMatch(<<k>>, IsPlay) = <<k>>
         /\ Purged(<<k>>, Plays \union {"live"}) = <<k>>
<1> DEFINE q == <<k>>
           kept == {n \in DOMAIN q : q[n] \notin Plays \union {"live"}}
<1>1. Append(<<>>, k) = <<k>> /\ Head(<<k>>) = k /\ Tail(<<k>>) = <<>> /\ <<k>> # <<>>
  OBVIOUS
<1>2. Len(q) = 1 /\ q[1] = k /\ DOMAIN q = {1} /\ 1..Len(q) = {1}
  OBVIOUS
<1>3. RemoveFirst(q, "live") = q
  BY <1>2, Zenon DEF RemoveFirst
<1>4. RemoveFirstMatch(q, IsPlay) = q
  BY <1>2, Zenon DEF RemoveFirstMatch, IsPlay
<1>5. kept = {1}
  BY <1>2, Zenon
<1>6. Cardinality(kept) = 1
  BY <1>5, FS_Singleton
<1>7. (CHOOSE n \in kept : Cardinality({m \in kept : m < n}) = 1 - 1) = 1
  <2>1. {m \in kept : m < 1} = {}
    <3>1. ~(1 < 1)
      OBVIOUS
    <3> QED BY <1>5, <3>1, Zenon
  <2>2. Cardinality({m \in kept : m < 1}) = 1 - 1
    BY <2>1, FS_EmptySet
  <2> QED BY <1>5, <2>2, Zenon
<1>8. Purged(q, Plays \union {"live"}) = [i \in 1..1 |-> k]
  <2>1. Purged(q, Plays \union {"live"})
          = [i \in 1..1 |-> q[CHOOSE n \in kept : Cardinality({m \in kept : m < n}) = i - 1]]
    BY <1>6, Zenon DEF Purged
  <2>2. \A i \in 1..1 : i = 1
    OBVIOUS
  <2> QED BY <1>2, <1>7, <2>1, <2>2, Zenon
<1>9. [i \in 1..1 |-> k] = <<k>>
  OBVIOUS
<1> QED BY <1>1, <1>3, <1>4, <1>8, <1>9, Zenon

\* What Playing counts in the queue.
LEMMA PlaysCounted ==
  ASSUME NEW q
  PROVE  /\ q \in Seq(Kinds \ Plays) => Cardinality({n \in DOMAIN q : IsPlay(q[n])}) = 0
         /\ LivesThenPlay(q) => Cardinality({n \in DOMAIN q : IsPlay(q[n])}) = 1
<1> DEFINE plays == {n \in DOMAIN q : IsPlay(q[n])}
<1>1. ASSUME q \in Seq(Kinds \ Plays) PROVE Cardinality(plays) = 0
  <2>1. \A n \in DOMAIN q : q[n] \notin Plays
    BY <1>1
  <2>2. plays = {}
    BY <2>1 DEF IsPlay
  <2> QED BY <2>2, FS_EmptySet
<1>2. ASSUME LivesThenPlay(q) PROVE Cardinality(plays) = 1
  <2>1. Len(q) \in Nat /\ Len(q) >= 1
    BY <1>2 DEF LivesThenPlay
  <2>2. DOMAIN q = 1..Len(q)
    BY <1>2 DEF LivesThenPlay
  <2>3. \A n \in 1..Len(q) : n # Len(q) => n \in 1..(Len(q) - 1)
    BY <2>1
  <2>4. \A n \in 1..Len(q) : n # Len(q) => ~IsPlay(q[n])
    BY <1>2, <2>3, LiveIsNoPlay, Zenon DEF LivesThenPlay, IsPlay
  <2>5. IsPlay(q[Len(q)]) /\ Len(q) \in 1..Len(q)
    BY <1>2, <2>1 DEF LivesThenPlay, IsPlay
  <2>6. plays = {Len(q)}
    BY <2>2, <2>4, <2>5, Zenon
  <2> QED BY <2>6, FS_Singleton
<1> QED BY <1>1, <1>2

-----------------------------------------------------------------------------
(* The phase, while no call is overtaken                                   *)

Resting == {"wait", "done"}

LivePcs == {"live", "live_loop", "live_off"}

PlayPcs == {"play", "playlist", "run", "list_check", "list_run", "list_next"}

\* Where the worker may be in a session in which no script is executed.
SessionPcs == Resting \union LivePcs \union {"finish"}

PlayingPcs == PlayPcs \union {"finish"}

Disconnects == \E c \in Callers : cpc[c] = "dis_push"

LivePushes == \E c \in Callers : cpc[c] = "live_push"

\* The one command of its phase is queued, or executed.
OneCommand(kind) ==
  \/ queue = <<kind>> /\ pc \in Resting
  \/ queue = <<>> /\ pc = kind

\* What is queued, what the worker is at and whether there is a session, by the
\* phase that is on show.
IdleInv == phase = "idle" => ~connected /\ ~running_play /\ queue = <<>> /\ pc \in Resting

OpeningInv ==
  /\ phase = "refreshing" => ~connected /\ ~running_play /\ OneCommand("refresh")
  /\ phase = "connecting" =>
       ~connected /\ ~running_play /\ (OneCommand("connect") \/ OneCommand("accessory"))

ConnectedInv ==
  phase = "connected" => connected /\ ~running_play /\ Lives(queue) /\ pc \in SessionPcs

\* The playback is queued, executed, or was taken back by a disconnect that has
\* yet to queue its own command.
PlayingInv ==
  phase = "playing" =>
    /\ connected
    /\ \/ ~running_play /\ pc \in SessionPcs /\ LivesThenPlay(queue)
       \/ running_play /\ pc \in PlayingPcs /\ queue = <<>>
       \/ ~running_play /\ pc \in SessionPcs /\ queue = <<>> /\ Disconnects

ClosingInv ==
  phase = "disconnecting" =>
    /\ connected
    /\ \/ ~running_play /\ pc \in SessionPcs /\ queue = <<"disconnect">>
       \/ running_play /\ pc \in PlayingPcs /\ queue = <<"disconnect">>
       \/ ~running_play /\ pc = "disconnect" /\ queue = <<>>

\* Live control that is on has a command queued or executed, gets one, or is
\* taken up again by the end of the playback.
ServedInv ==
  live_active =>
    \/ phase = "playing" \/ LivePushes
    \/ phase = "connected" /\ (queue # <<>> \/ pc \in LivePcs \union {"finish"})

PhaseInv == IdleInv /\ OpeningInv /\ ConnectedInv /\ PlayingInv /\ ClosingInv /\ ServedInv

\* Leaving, nobody calls any more and no playback is queued.
LeavingInv == queue \in Seq(Kinds \ Plays) /\ \A c \in Callers : cpc[c] = "idle"

\* live_start() goes on only from a session.
CallsInv ==
  /\ cpc \in [Callers -> Places] /\ saw \in [Callers -> Phases]
  /\ phase \in Phases /\ raced \in BOOLEAN /\ leaving \in BOOLEAN
  /\ running_play \in BOOLEAN /\ live_active \in BOOLEAN /\ connected \in BOOLEAN
  /\ \A c \in Callers : cpc[c] \in {"live_reset", "live_on"} => saw[c] \in InSession

EngineInv == CallsInv /\ (~raced => IF leaving THEN LeavingInv ELSE PhaseInv)

LEMMA EngineInvInit == Init => EngineInv
  BY DEF Init, EngineInv, CallsInv, PhaseInv, IdleInv, OpeningInv, ConnectedInv, PlayingInv,
         ClosingInv, ServedInv, Places, Phases, Resting

\* The three properties follow from it.
LEMMA EngineInvHolds == EngineInv => OnePlayback /\ PhaseIsTrue /\ LiveIsServed
<1> SUFFICES ASSUME EngineInv, ~raced PROVE OnePlayback /\ PhaseIsTrue /\ LiveIsServed
  BY DEF OnePlayback, PhaseIsTrue, LiveIsServed
<1> DEFINE queued == Cardinality({n \in DOMAIN queue : IsPlay(queue[n])})
<1>1. ASSUME queue \in Seq(Kinds \ Plays) \/ (LivesThenPlay(queue) /\ ~running_play)
      PROVE  OnePlayback
  <2>1. queued = 0 \/ (queued = 1 /\ ~running_play)
    BY <1>1, PlaysCounted, Zenon
  <2> HIDE DEF queued
  <2>2. queued + (IF running_play THEN 1 ELSE 0) <= 1
    <3>1. CASE running_play
      BY <2>1, <3>1
    <3>2. CASE ~running_play
      BY <2>1, <3>2
    <3> QED BY <3>1, <3>2
  <2> QED BY <2>2, Zenon DEF OnePlayback, Playing, queued
<1>2. CASE leaving
  <2>1. queue \in Seq(Kinds \ Plays) /\ ~Quiet
    BY <1>2, Zenon DEF EngineInv, LeavingInv, Quiet
  <2>2. OnePlayback
    BY <1>1, <2>1
  <2> QED BY <2>1, <2>2, Zenon DEF PhaseIsTrue, LiveIsServed
<1>3. CASE ~leaving
  <2>1. PhaseInv /\ phase \in Phases
    BY <1>3 DEF EngineInv, CallsInv
  <2>2. queue \in Seq(Kinds \ Plays) \/ (LivesThenPlay(queue) /\ ~running_play)
    <3>1. ASSUME Lives(queue) PROVE queue \in Seq(Kinds \ Plays)
      <4>1. queue \in Seq(Kinds) /\ \A n \in 1..Len(queue) : queue[n] \in Kinds \ Plays
        BY <3>1, LiveIsNoPlay DEF Lives
      <4>2. Len(queue) \in Nat /\ queue \in [1..Len(queue) -> Kinds \ Plays]
        BY <4>1
      <4> QED BY <4>2, SeqDef
    <3>2. /\ <<"refresh">> \in Seq(Kinds \ Plays) /\ <<"connect">> \in Seq(Kinds \ Plays)
          /\ <<"accessory">> \in Seq(Kinds \ Plays) /\ <<"disconnect">> \in Seq(Kinds \ Plays)
          /\ <<>> \in Seq(Kinds \ Plays)
      BY DEF Kinds, Plays
    <3>3. CASE phase \in {"idle", "refreshing", "connecting"}
      <4>1. queue \in {<<>>, <<"refresh">>, <<"connect">>, <<"accessory">>}
        BY <2>1, <3>3, Zenon DEF PhaseInv, IdleInv, OpeningInv, OneCommand
      <4> QED BY <3>2, <4>1, Zenon
    <3>4. CASE phase \in {"connected", "playing"}
      <4>1. Lives(queue) \/ queue = <<>> \/ (LivesThenPlay(queue) /\ ~running_play)
        BY <2>1, <3>4, Zenon DEF PhaseInv, ConnectedInv, PlayingInv
      <4> QED BY <3>1, <3>2, <4>1, Zenon
    <3>5. CASE phase = "disconnecting"
      <4>1. queue \in {<<>>, <<"disconnect">>}
        BY <2>1, <3>5, Zenon DEF PhaseInv, ClosingInv
      <4> QED BY <3>2, <4>1, Zenon
    <3> QED BY <2>1, <3>3, <3>4, <3>5 DEF Phases
  <2>3. PhaseIsTrue /\ LiveIsServed
    <3>1. CASE Quiet
      <4>1. /\ queue = <<>> /\ pc = "wait" /\ ~LivePushes /\ ~Disconnects
            /\ \A k \in Kinds : <<k>> # queue
        BY <3>1 DEF Quiet, LivePushes, Disconnects
      <4>2. \/ phase = "idle" /\ ~connected
            \/ phase = "connected" /\ connected
        BY <2>1, <4>1, NothingIsLives, Zenon
           DEF PhaseInv, IdleInv, OpeningInv, ConnectedInv, PlayingInv, ClosingInv,
               OneCommand, Phases, Kinds, PlayingPcs, PlayPcs
      <4>3. ~live_active
        BY <2>1, <4>1, <4>2 DEF PhaseInv, ServedInv, LivePcs
      <4> QED BY <4>2, <4>3, Zenon DEF PhaseIsTrue, LiveIsServed
    <3>2. CASE ~Quiet
      BY <3>2 DEF PhaseIsTrue, LiveIsServed
    <3> QED BY <3>1, <3>2
  <2> QED BY <1>1, <2>2, <2>3
<1> QED BY <1>2, <1>3

\* A call begins or goes on: the marks of the others stay.
LEMMA CallMoves ==
  ASSUME CallsInv, NEW c \in Callers, NEW to \in Places, cpc' = [cpc EXCEPT ![c] = to]
  PROVE  /\ cpc' \in [Callers -> Places] /\ cpc'[c] = to
         /\ \A d \in Callers : d # c => cpc'[d] = cpc[d]
         /\ cpc[c] # "dis_push" /\ Disconnects => Disconnects'
         /\ cpc[c] # "live_push" /\ LivePushes => LivePushes'
         /\ to = "dis_push" => Disconnects'
         /\ to = "live_push" => LivePushes'
<1>1. cpc \in [Callers -> Places]
  BY DEF CallsInv
<1>2. /\ cpc' \in [Callers -> Places] /\ cpc'[c] = to
      /\ \A d \in Callers : d # c => cpc'[d] = cpc[d]
  BY <1>1
<1> QED BY <1>2, Zenon DEF Disconnects, LivePushes

\* Every step of a caller or of the worker keeps CallsInv.
LEMMA CallsKeepCallsInv ==
  ASSUME CallsInv, NEW c \in Callers, NewCall(c) \/ FinishCall(c)
  PROVE  CallsInv'
<1>1. /\ cpc \in [Callers -> Places] /\ saw \in [Callers -> Phases]
      /\ \A d \in Callers : cpc[d] \in {"live_reset", "live_on"} => saw[d] \in InSession
  BY DEF CallsInv
<1>2. phase' \in Phases /\ running_play' \in BOOLEAN /\ live_active' \in BOOLEAN
      /\ connected' \in BOOLEAN /\ leaving' \in BOOLEAN /\ raced' \in BOOLEAN
  <2>1. CASE NewCall(c)
    BY <2>1 DEF CallsInv, Phases, NewCall, Refresh, Connect, Accessory, Play, PlayPlaylist, Stop,
                Seek, LiveStart, LiveStop, Disconnect, PushFrom, Push, Begin, Overtaken, engine, session
  <2>2. CASE FinishCall(c)
    BY <2>2 DEF CallsInv, Phases, FinishCall, SeekPost, LiveReset, LiveOn, LivePush, LiveClear,
                DisconnectClear, DisconnectPush, Push, Continue, Overtaken, engine, session
  <2> QED BY <2>1, <2>2
<1>3. CASE LiveStart(c)
  <2>1. /\ cpc' = [cpc EXCEPT ![c] = "live_reset"] /\ saw' = [saw EXCEPT ![c] = phase]
        /\ phase \in InSession /\ phase \in Phases
    BY <1>3 DEF LiveStart, Begin, CallsInv
  <2>2. /\ cpc' \in [Callers -> Places] /\ saw' \in [Callers -> Phases]
        /\ \A d \in Callers : cpc'[d] \in {"live_reset", "live_on"} => saw'[d] \in InSession
    BY <1>1, <2>1 DEF Places
  <2> QED BY <1>2, <2>2, Zenon DEF CallsInv
<1>4. CASE LiveReset(c)
  <2>1. cpc' = [cpc EXCEPT ![c] = "live_on"] /\ cpc[c] = "live_reset" /\ saw' = saw
    BY <1>4 DEF LiveReset, Continue
  <2>2. /\ cpc' \in [Callers -> Places] /\ saw' \in [Callers -> Phases]
        /\ \A d \in Callers : cpc'[d] \in {"live_reset", "live_on"} => saw'[d] \in InSession
    BY <1>1, <2>1 DEF Places
  <2> QED BY <1>2, <2>2, Zenon DEF CallsInv
<1>5. CASE ~LiveStart(c) /\ ~LiveReset(c)
  <2>1. \E to \in Places \ {"live_reset", "live_on"} :
          cpc' = [cpc EXCEPT ![c] = to] /\ saw' = saw
    <3>1. CASE NewCall(c)
      BY <1>5, <3>1 DEF NewCall, Refresh, Connect, Accessory, Play, PlayPlaylist, Stop,
                Seek, LiveStop, Disconnect, PushFrom, Begin, Places
    <3>2. CASE FinishCall(c)
      BY <1>5, <3>2 DEF FinishCall, SeekPost, LiveOn, LivePush, LiveClear,
                DisconnectClear, DisconnectPush, Continue, Places
    <3> QED BY <3>1, <3>2
  <2>2. /\ cpc' \in [Callers -> Places] /\ saw' \in [Callers -> Phases]
        /\ \A d \in Callers : cpc'[d] \in {"live_reset", "live_on"} => saw'[d] \in InSession
    BY <1>1, <2>1
  <2> QED BY <1>2, <2>2, Zenon DEF CallsInv
<1> QED BY <1>3, <1>4, <1>5

\* A step that moves neither the queue, the phase nor the worker.
LEMMA PhaseInvKept ==
  ASSUME PhaseInv, UNCHANGED <<queue, phase, running_play, pc, connected>>,
         Disconnects => Disconnects', LivePushes => LivePushes', live_active' => live_active
  PROVE  PhaseInv'
<1>1. IdleInv' /\ OpeningInv' /\ ConnectedInv' /\ ClosingInv'
  BY Zenon DEF PhaseInv, IdleInv, OpeningInv, OneCommand, ConnectedInv, ClosingInv
<1>2. PlayingInv'
  BY Zenon DEF PhaseInv, PlayingInv
<1>3. ServedInv'
  BY Zenon DEF PhaseInv, ServedInv
<1> QED BY <1>1, <1>2, <1>3 DEF PhaseInv

\* A command is queued from the phase in which it is the first.
LEMMA OpeningKeepsPhaseInv ==
  ASSUME CallsInv, PhaseInv, NEW c \in Callers, Refresh(c) \/ Connect(c) \/ Accessory(c)
  PROVE  PhaseInv'
<1>1. /\ cpc' = [cpc EXCEPT ![c] = "idle"] /\ cpc[c] = "idle"
      /\ UNCHANGED <<pc, connected, running_play, live_active>> /\ phase = "idle"
      /\ \/ phase' = "refreshing" /\ queue' = Append(queue, "refresh")
         \/ phase' = "connecting" /\ queue' = Append(queue, "connect")
         \/ phase' = "connecting" /\ queue' = Append(queue, "accessory")
  BY DEF Refresh, Connect, Accessory, PushFrom, Push, Begin, session
<1>2. ~connected /\ ~running_play /\ queue = <<>> /\ pc \in Resting
  BY <1>1 DEF PhaseInv, IdleInv
<1>3. \/ phase' = "refreshing" /\ queue' = <<"refresh">>
      \/ phase' = "connecting" /\ queue' = <<"connect">>
      \/ phase' = "connecting" /\ queue' = <<"accessory">>
  BY <1>1, <1>2
<1>4. LivePushes => LivePushes'
  BY <1>1, CallMoves DEF Places
<1>5. ServedInv'
  BY <1>1, <1>4, Zenon DEF PhaseInv, ServedInv
<1>6. IdleInv' /\ OpeningInv' /\ ConnectedInv' /\ PlayingInv' /\ ClosingInv'
  BY <1>1, <1>2, <1>3, Zenon DEF IdleInv, OpeningInv, OneCommand, ConnectedInv, PlayingInv, ClosingInv
<1> QED BY <1>5, <1>6 DEF PhaseInv

LEMMA PlayKeepsPhaseInv ==
  ASSUME PhaseInv, NEW c \in Callers, Play(c) \/ PlayPlaylist(c)
  PROVE  PhaseInv'
<1>1. /\ UNCHANGED <<pc, connected, running_play, live_active>>
      /\ phase = "connected" /\ phase' = "playing"
      /\ \E k \in Plays : queue' = Append(queue, k)
  BY DEF Play, PlayPlaylist, PushFrom, Push, Begin, session, Plays
<1>2. connected /\ ~running_play /\ Lives(queue) /\ pc \in SessionPcs
  BY <1>1 DEF PhaseInv, ConnectedInv
<1>3. LivesThenPlay(queue')
  BY <1>1, <1>2, LivesAppended
<1> QED BY <1>1, <1>2, <1>3, Zenon
        DEF PhaseInv, IdleInv, OpeningInv, ConnectedInv, PlayingInv, ClosingInv, ServedInv

LEMMA StopKeepsPhaseInv ==
  ASSUME CallsInv, PhaseInv, NEW c \in Callers, Stop(c), ~raced'
  PROVE  PhaseInv'
<1>1. /\ cpc' = [cpc EXCEPT ![c] = "idle"] /\ cpc[c] = "idle"
      /\ UNCHANGED <<pc, connected, running_play, live_active>>
      /\ queue' = RemoveFirstMatch(queue, IsPlay)
      /\ phase' = IF queue' # queue /\ ~running_play THEN "connected" ELSE phase
      /\ ~(queue' # queue /\ live_active)
  BY DEF Stop, Begin, session, Overtaken
<1>2. (LivePushes => LivePushes') /\ (Disconnects => Disconnects')
  BY <1>1, CallMoves DEF Places
<1>3. CASE queue' = queue
  BY <1>1, <1>2, <1>3, PhaseInvKept
<1>4. CASE queue' # queue
  \* It is a queued playback that was taken back.
  <2>1. ~Lives(queue)
    BY <1>1, <1>4, NoPlayAmongLives
  <2>2. queue # <<>>
    BY <2>1, NothingIsLives
  <2>3. \A k \in Kinds \ (Plays \union {"live"}) : queue # <<k>>
    BY <1>1, <1>4, OneKept
  <2>4. /\ "refresh" \in Kinds \ (Plays \union {"live"}) /\ "connect" \in Kinds \ (Plays \union {"live"})
        /\ "accessory" \in Kinds \ (Plays \union {"live"}) /\ "disconnect" \in Kinds \ (Plays \union {"live"})
    BY DEF Kinds, Plays
  <2>5. queue \notin {<<"refresh">>} /\ queue \notin {<<"connect">>}
        /\ queue \notin {<<"accessory">>} /\ queue \notin {<<"disconnect">>}
    BY <2>3, <2>4, Zenon
  <2>6. connected /\ ~running_play /\ pc \in SessionPcs /\ LivesThenPlay(queue)
    BY <2>1, <2>2, <2>5, Zenon
       DEF PhaseInv, IdleInv, OpeningInv, OneCommand, ConnectedInv, PlayingInv, ClosingInv,
           CallsInv, Phases
  <2>7. Lives(queue') /\ phase' = "connected" /\ ~live_active'
    <3>1. Lives(queue')
      BY <1>1, <2>6, PlayTakenBack, Zenon
    <3> QED BY <1>1, <1>4, <2>6, <3>1, Zenon
  <2> QED BY <1>1, <2>6, <2>7, Zenon
          DEF PhaseInv, IdleInv, OpeningInv, ConnectedInv, PlayingInv, ClosingInv, ServedInv
<1> QED BY <1>3, <1>4

\* The calls that only look, mark or switch off.
LEMMA MarksKeepPhaseInv ==
  ASSUME CallsInv, PhaseInv, NEW c \in Callers,
         Seek(c) \/ SeekPost(c) \/ LiveStart(c) \/ LiveReset(c) \/ LiveStop(c) \/ Disconnect(c)
  PROVE  PhaseInv'
<1>1. \E to \in Places : cpc' = [cpc EXCEPT ![c] = to] /\ cpc[c] \notin {"dis_push", "live_push"}
  BY DEF Seek, SeekPost, LiveStart, LiveReset, LiveStop, Disconnect, Begin, Continue, Places
<1>2. UNCHANGED <<queue, phase, running_play, pc, connected>> /\ (live_active' => live_active)
  BY DEF Seek, SeekPost, LiveStart, LiveReset, LiveStop, Disconnect, Begin, Continue,
         engine, session
<1>3. (LivePushes => LivePushes') /\ (Disconnects => Disconnects')
  BY <1>1, CallMoves, Zenon
<1> QED BY <1>2, <1>3, PhaseInvKept

\* live_start() switches live control on for a playback, or goes on to queue it.
LEMMA LiveOnKeepsPhaseInv ==
  ASSUME CallsInv, PhaseInv, NEW c \in Callers, LiveOn(c), ~raced'
  PROVE  PhaseInv'
<1>1. /\ cpc[c] = "live_on" /\ cpc' = [cpc EXCEPT ![c] = IF saw[c] = "connected" THEN "live_push" ELSE "idle"]
      /\ UNCHANGED <<queue, phase, running_play, pc, connected>>
      /\ saw[c] \in {"connected", phase}
  BY DEF LiveOn, Continue, Overtaken, engine, session
<1>2. saw[c] \in InSession
  BY <1>1 DEF CallsInv
<1> DEFINE to == IF saw[c] = "connected" THEN "live_push" ELSE "idle"
<1>3. to \in Places
  BY DEF Places
<1>4. /\ Disconnects => Disconnects'
      /\ saw[c] = "connected" => LivePushes'
  BY <1>1, <1>3, CallMoves, Zenon
<1>5. LivePushes' \/ phase = "playing"
  BY <1>1, <1>2, <1>4 DEF InSession
<1>6. IdleInv' /\ OpeningInv' /\ ConnectedInv' /\ ClosingInv' /\ PlayingInv'
  BY <1>1, <1>4, Zenon DEF PhaseInv, IdleInv, OpeningInv, OneCommand, ConnectedInv, ClosingInv, PlayingInv
<1>7. ServedInv'
  BY <1>1, <1>5, Zenon DEF ServedInv
<1> QED BY <1>6, <1>7 DEF PhaseInv

LEMMA LivePushKeepsPhaseInv ==
  ASSUME PhaseInv, NEW c \in Callers, LivePush(c), ~raced'
  PROVE  PhaseInv'
<1>1. /\ UNCHANGED <<running_play, pc, connected, live_active>> /\ queue' = Append(queue, "live")
      /\ phase = "connected" /\ phase' = "connected"
  BY DEF LivePush, Continue, Push, Overtaken, session
<1>2. connected /\ ~running_play /\ Lives(queue) /\ pc \in SessionPcs
  BY <1>1 DEF PhaseInv, ConnectedInv
<1>3. Lives(queue') /\ queue' # <<>>
  <2>1. queue \in Seq(Kinds)
    BY <1>2 DEF Lives
  <2> QED BY <1>1, <1>2, <2>1, LivesAppended
<1> QED BY <1>1, <1>2, <1>3, Zenon
        DEF PhaseInv, IdleInv, OpeningInv, ConnectedInv, PlayingInv, ClosingInv, ServedInv

\* What queue_ may hold when the phase says so, in one place.
LEMMA QueueForms ==
  ASSUME CallsInv, PhaseInv
  PROVE  \/ Lives(queue) /\ (phase \in {"connected", "playing"} \/ queue = <<>>)
         \/ LivesThenPlay(queue) /\ phase = "playing" /\ ~running_play
         \/ /\ phase \notin {"connected", "playing"}
            /\ \E k \in Kinds \ (Plays \union {"live"}) : queue = <<k>>
<1>1. /\ "refresh" \in Kinds \ (Plays \union {"live"}) /\ "connect" \in Kinds \ (Plays \union {"live"})
      /\ "accessory" \in Kinds \ (Plays \union {"live"}) /\ "disconnect" \in Kinds \ (Plays \union {"live"})
  BY DEF Kinds, Plays
<1>2. queue = <<>> => Lives(queue)
  BY NothingIsLives
<1>3. phase \in Phases
  BY DEF CallsInv
<1>4. CASE phase \in {"idle", "refreshing", "connecting"}
  BY <1>1, <1>2, <1>4, Zenon DEF PhaseInv, IdleInv, OpeningInv, OneCommand
<1>5. CASE phase \in {"connected", "playing"}
  BY <1>2, <1>5, Zenon DEF PhaseInv, ConnectedInv, PlayingInv
<1>6. CASE phase = "disconnecting"
  BY <1>1, <1>2, <1>6, Zenon DEF PhaseInv, ClosingInv
<1> QED BY <1>3, <1>4, <1>5, <1>6 DEF Phases

LEMMA LiveClearKeepsPhaseInv ==
  ASSUME CallsInv, PhaseInv, NEW c \in Callers, LiveClear(c), ~raced'
  PROVE  PhaseInv'
<1>1. /\ cpc[c] = "live_clear" /\ cpc' = [cpc EXCEPT ![c] = "idle"]
      /\ UNCHANGED <<phase, running_play, pc, connected, live_active>>
      /\ queue' = RemoveFirst(queue, "live") /\ ~live_active
  BY DEF LiveClear, Continue, Overtaken, session
<1>2. (LivePushes => LivePushes') /\ (Disconnects => Disconnects')
  BY <1>1, CallMoves DEF Places
<1>3. CASE queue' = queue
  BY <1>1, <1>2, <1>3, PhaseInvKept
<1>4. CASE queue' # queue
  <2>1. \A k \in Kinds \ (Plays \union {"live"}) : queue # <<k>>
    BY <1>1, <1>4, OneKept
  <2>2. queue # <<>>
    BY <1>1, <1>4 DEF RemoveFirst
  <2>3. \/ Lives(queue) /\ phase \in {"connected", "playing"}
        \/ LivesThenPlay(queue) /\ phase = "playing" /\ ~running_play
    BY <2>1, <2>2, QueueForms, Zenon
  <2>4. phase = "playing" => ~Lives(queue)
    <3>1. \A q : LivesThenPlay(q) => ~Lives(q)
      BY LiveIsNoPlay DEF Lives, LivesThenPlay
    <3> QED BY <2>2, <3>1, Zenon DEF PhaseInv, PlayingInv
  <2>5. CASE Lives(queue) /\ phase = "connected"
    <3>1. Lives(queue')
      BY <1>1, <2>5, LivesLeft, Zenon
    <3> QED BY <1>1, <2>5, <3>1, Zenon
            DEF PhaseInv, IdleInv, OpeningInv, ConnectedInv, PlayingInv, ClosingInv, ServedInv
  <2>6. CASE LivesThenPlay(queue) /\ phase = "playing" /\ ~running_play
    <3>1. LivesThenPlay(queue')
      BY <1>1, <2>6, PlayLeft, Zenon
    <3>2. pc \in SessionPcs /\ connected
      BY <2>6, Zenon DEF PhaseInv, PlayingInv
    <3> QED BY <1>1, <2>6, <3>1, <3>2, Zenon
            DEF PhaseInv, IdleInv, OpeningInv, ConnectedInv, PlayingInv, ClosingInv, ServedInv
  <2> QED BY <2>3, <2>4, <2>5, <2>6
<1> QED BY <1>3, <1>4

LEMMA DisconnectClearKeepsPhaseInv ==
  ASSUME CallsInv, PhaseInv, NEW c \in Callers, DisconnectClear(c), ~raced'
  PROVE  PhaseInv'
<1>1. /\ cpc[c] = "dis_clear" /\ cpc' = [cpc EXCEPT ![c] = "dis_push"]
      /\ UNCHANGED <<phase, running_play, pc, connected, live_active>>
      /\ queue' = Purged(queue, Plays \union {"live"}) /\ ~live_active
  BY DEF DisconnectClear, Continue, Overtaken, session
<1>2. (LivePushes => LivePushes') /\ Disconnects'
  BY <1>1, CallMoves DEF Places
<1>3. CASE Lives(queue) \/ LivesThenPlay(queue)
  <2>1. queue' = <<>>
    BY <1>1, <1>3, SessionPurged, Zenon
  <2>2. ~(\E k \in Kinds \ (Plays \union {"live"}) : queue = <<k>>)
    <3>1. \A k \in Kinds \ (Plays \union {"live"}) : ~Lives(<<k>>) /\ ~LivesThenPlay(<<k>>)
      <4> TAKE k \in Kinds \ (Plays \union {"live"})
      <4>1. Len(<<k>>) = 1 /\ <<k>>[1] = k /\ 1 \in 1..1
        OBVIOUS
      <4> QED BY <4>1, Zenon DEF Lives, LivesThenPlay
    <3> QED BY <1>3, <3>1, Zenon
  <2>3. (phase \in {"connected", "playing"} \/ queue = <<>>)
    BY <2>2, QueueForms, Zenon
  <2>4. CASE queue = <<>>
    BY <1>1, <1>2, <2>1, <2>4, PhaseInvKept, Zenon
  <2>5. CASE phase = "connected"
    BY <1>1, <2>1, <2>5, NothingIsLives, Zenon
       DEF PhaseInv, IdleInv, OpeningInv, ConnectedInv, PlayingInv, ClosingInv, ServedInv
  <2>6. CASE phase = "playing"
    BY <1>1, <1>2, <2>1, <2>6, Zenon
       DEF PhaseInv, IdleInv, OpeningInv, ConnectedInv, PlayingInv, ClosingInv, ServedInv
  <2> QED BY <2>3, <2>4, <2>5, <2>6
<1>4. CASE \E k \in Kinds \ (Plays \union {"live"}) : queue = <<k>>
  <2>1. queue' = queue
    BY <1>1, <1>4, OneKept, Zenon
  <2> QED BY <1>1, <1>2, <2>1, PhaseInvKept, Zenon
<1> QED BY <1>3, <1>4, QueueForms

LEMMA DisconnectPushKeepsPhaseInv ==
  ASSUME PhaseInv, NEW c \in Callers, DisconnectPush(c), ~raced'
  PROVE  PhaseInv'
<1>1. /\ UNCHANGED <<running_play, pc, connected, live_active>> /\ ~live_active
      /\ queue = <<>> /\ queue' = Append(queue, "disconnect")
      /\ phase \in {"connected", "playing"} /\ phase' = "disconnecting"
  BY DEF DisconnectPush, Continue, Push, Overtaken, session, InSession
<1>2. queue' = <<"disconnect">>
  BY <1>1
<1>3. /\ connected
      /\ \/ ~running_play /\ pc \in SessionPcs
         \/ running_play /\ pc \in PlayingPcs
  BY <1>1, NothingIsLives, Zenon DEF PhaseInv, ConnectedInv, PlayingInv
<1> QED BY <1>1, <1>2, <1>3, Zenon
        DEF PhaseInv, IdleInv, OpeningInv, ConnectedInv, PlayingInv, ClosingInv, ServedInv

\* A call that is not overtaken keeps what the phase says.
LEMMA CallsKeepPhaseInv ==
  ASSUME CallsInv, PhaseInv, NEW c \in Callers, NewCall(c) \/ FinishCall(c), ~raced'
  PROVE  PhaseInv'
BY OpeningKeepsPhaseInv, PlayKeepsPhaseInv, StopKeepsPhaseInv, MarksKeepPhaseInv,
   LiveOnKeepsPhaseInv, LivePushKeepsPhaseInv, LiveClearKeepsPhaseInv,
   DisconnectClearKeepsPhaseInv, DisconnectPushKeepsPhaseInv DEF NewCall, FinishCall

LEMMA WorkerKeepsCallsInv ==
  ASSUME CallsInv, Worker \/ RunEnds \/ LiveDrops
  PROVE  CallsInv' /\ leaving' = leaving /\ raced' = raced /\ cpc' = cpc
<1>1. UNCHANGED callers
  BY DEF Worker, RunEnds, LiveDrops, Take, Rescan, Open, Switch, Close, Gone, Start, RunStops,
         RunSeeks, EndRun, ListCheck, ListNext, LiveLeaves, LiveOff, FinishRun, Done, Quit, WorkerAt
<1>2. CASE Take
  <2>1. (Head(queue) \in Plays) \in BOOLEAN
    OBVIOUS
  <2> QED BY <1>1, <1>2, <2>1 DEF Take, CallsInv, callers
<1>3. CASE Open
  <2>1. phase' \in Phases /\ UNCHANGED <<running_play, live_active>>
    BY <1>3 DEF Open, Phases, engine
  <2>2. connected' \in BOOLEAN
    <3>1. PICK opened \in BOOLEAN : connected' = (connected \/ opened)
      BY <1>3 DEF Open
    <3> QED BY <3>1, Zenon DEF CallsInv
  <2> QED BY <1>1, <2>1, <2>2, Zenon DEF CallsInv, callers
<1>4. CASE ~Take /\ ~Open
  <2>1. /\ phase' \in Phases \union {phase} /\ running_play' \in {running_play, FALSE}
        /\ live_active' \in {live_active, FALSE} /\ connected' \in {connected, FALSE}
    BY <1>4 DEF Worker, RunEnds, LiveDrops, Rescan, Switch, Close, Gone, Start, RunStops,
         RunSeeks, EndRun, ListCheck, ListNext, LiveLeaves, LiveOff, FinishRun, Done, Quit,
         Push, Phases, engine, session
  <2> QED BY <1>1, <2>1 DEF CallsInv, callers
<1> QED BY <1>1, <1>2, <1>3, <1>4 DEF callers

\* The worker takes what the phase has announced.
LEMMA TakeKeepsPhaseInv ==
  ASSUME CallsInv, PhaseInv, Take, cpc' = cpc
  PROVE  PhaseInv'
<1>1. /\ queue # <<>> /\ pc = "wait" /\ pc' = Head(queue) /\ queue' = Tail(queue)
      /\ running_play' = (Head(queue) \in Plays)
      /\ UNCHANGED <<phase, live_active, connected>>
  BY DEF Take, WorkerAt
<1>2. (LivePushes => LivePushes') /\ (Disconnects => Disconnects')
  BY Zenon DEF LivePushes, Disconnects
<1>3. CASE Lives(queue)
  <2>1. Head(queue) = "live" /\ Lives(queue')
    BY <1>1, <1>3, LivesTaken, Zenon
  <2>2. pc' = "live" /\ ~running_play'
    BY <1>1, <2>1, LiveIsNoPlay, Zenon
  <2>3. \A k \in Kinds \ (Plays \union {"live"}) : queue # <<k>>
    <3> TAKE k \in Kinds \ (Plays \union {"live"})
    <3>1. Head(<<k>>) = k /\ k # "live"
      BY OneKept
    <3> QED BY <2>1, <3>1, Zenon
  <2>4. phase = "connected" \/ LivesThenPlay(queue)
    BY <1>1, <1>3, <2>3, QueueForms, Zenon DEF PhaseInv, PlayingInv
  <2>5. ~LivesThenPlay(queue)
    BY <1>3, LiveIsNoPlay DEF Lives, LivesThenPlay
  <2>6. connected
    BY <2>4, <2>5 DEF PhaseInv, ConnectedInv
  <2> QED BY <1>1, <2>1, <2>2, <2>4, <2>5, <2>6, Zenon
          DEF PhaseInv, IdleInv, OpeningInv, ConnectedInv, PlayingInv, ClosingInv, ServedInv,
              SessionPcs, LivePcs
<1>4. CASE LivesThenPlay(queue) /\ phase = "playing" /\ ~running_play
  <2>1. \/ Head(queue) \in Plays /\ queue' = <<>>
        \/ Head(queue) = "live" /\ LivesThenPlay(queue')
    BY <1>1, <1>4, PlayTaken, Zenon
  <2>2. \/ pc' \in PlayPcs /\ running_play' /\ queue' = <<>>
        \/ pc' = "live" /\ ~running_play' /\ LivesThenPlay(queue')
    <3>1. \A k \in Plays : k \in PlayPcs
      BY DEF Plays, PlayPcs
    <3> QED BY <1>1, <2>1, <3>1, LiveIsNoPlay, Zenon
  <2>3. connected
    BY <1>4 DEF PhaseInv, PlayingInv
  <2> QED BY <1>1, <1>4, <2>2, <2>3, Zenon
          DEF PhaseInv, IdleInv, OpeningInv, ConnectedInv, PlayingInv, ClosingInv, ServedInv,
              SessionPcs, LivePcs, PlayingPcs
<1>5. ASSUME NEW k \in Kinds \ (Plays \union {"live"}), queue = <<k>>,
             phase \notin {"connected", "playing"}
      PROVE  PhaseInv'
  <2>1. pc' = k /\ queue' = <<>> /\ ~running_play' /\ Head(queue) = k
    BY <1>1, <1>5, OneKept, Zenon
  <2>2. \A j \in Kinds \ (Plays \union {"live"}) : queue = <<j>> => j = k
    BY <2>1, OneKept, Zenon
  <2>3. /\ "refresh" \in Kinds \ (Plays \union {"live"}) /\ "connect" \in Kinds \ (Plays \union {"live"})
        /\ "accessory" \in Kinds \ (Plays \union {"live"}) /\ "disconnect" \in Kinds \ (Plays \union {"live"})
    BY DEF Kinds, Plays
  <2>4. /\ phase = "refreshing" => k = "refresh" /\ ~connected
        /\ phase = "connecting" => k \in {"connect", "accessory"} /\ ~connected
        /\ phase = "disconnecting" => k = "disconnect" /\ connected
        /\ phase # "idle"
    BY <1>1, <2>2, <2>3, Zenon DEF PhaseInv, IdleInv, OpeningInv, OneCommand, ClosingInv
  <2>5. ServedInv'
    BY <1>1, <1>2, <1>5, Zenon DEF PhaseInv, ServedInv
  <2>6. IdleInv' /\ OpeningInv' /\ ConnectedInv' /\ PlayingInv' /\ ClosingInv'
    BY <1>1, <1>5, <2>1, <2>4, Zenon
       DEF IdleInv, OpeningInv, OneCommand, ConnectedInv, PlayingInv, ClosingInv
  <2> QED BY <2>5, <2>6 DEF PhaseInv
<1> QED BY <1>3, <1>4, <1>5, QueueForms, Zenon

\* Where the worker is tells the phase.
LEMMA WorkerTellsPhase ==
  ASSUME CallsInv, PhaseInv
  PROVE  /\ pc = "refresh" => phase = "refreshing"
         /\ pc \in {"connect", "accessory"} => phase = "connecting"
         /\ pc = "disconnect" => phase = "disconnecting" /\ ~running_play
         /\ pc # "quit"
         /\ pc \in PlayPcs => running_play /\ connected
         /\ pc \in LivePcs => ~running_play /\ connected
         /\ pc = "finish" => connected /\ phase \in {"connected", "playing", "disconnecting"}
         /\ pc = "done" => ~running_play
<1>1. phase \in Phases
  BY DEF CallsInv
<1> QED BY <1>1 DEF PhaseInv, IdleInv, OpeningInv, OneCommand, ConnectedInv, PlayingInv, ClosingInv,
              Phases, Resting, SessionPcs, PlayingPcs, LivePcs, PlayPcs

\* A step of a session's command: the phase, the queue and what is executed
\* stay, and the worker stays among the places of it.
LEMMA WorkerMoves ==
  ASSUME CallsInv, PhaseInv, cpc' = cpc,
         UNCHANGED <<queue, phase, running_play, connected>>, live_active' => live_active,
         \/ pc \in PlayPcs /\ pc' \in PlayingPcs
         \/ /\ pc \in LivePcs /\ pc' \in LivePcs \union {"finish"}
         \/ /\ pc = "done" /\ pc' = "wait"
  PROVE  PhaseInv'
<1>1. (LivePushes => LivePushes') /\ (Disconnects => Disconnects')
  BY Zenon DEF LivePushes, Disconnects
<1>2. phase \in Phases /\ (pc \in PlayPcs => phase \in {"playing", "disconnecting"} /\ running_play)
      /\ (pc \in LivePcs => phase \in {"connected", "playing", "disconnecting"} /\ ~running_play)
  BY DEF CallsInv, PhaseInv, IdleInv, OpeningInv, OneCommand, ConnectedInv, PlayingInv, ClosingInv,
         Phases, Resting, SessionPcs, PlayingPcs, LivePcs, PlayPcs
<1>3. CASE pc \in PlayPcs /\ pc' \in PlayingPcs
  BY <1>1, <1>2, <1>3, Zenon
     DEF PhaseInv, IdleInv, OpeningInv, ConnectedInv, PlayingInv, ClosingInv, ServedInv
<1>4. CASE pc \in LivePcs /\ pc' \in LivePcs \union {"finish"}
  <2>1. pc' \in SessionPcs /\ pc # "disconnect" /\ pc \notin {"refresh", "connect", "accessory"}
    BY <1>4 DEF SessionPcs, LivePcs
  <2>2. IdleInv' /\ OpeningInv' /\ ConnectedInv' /\ PlayingInv' /\ ClosingInv'
    BY <1>1, <1>2, <1>4, <2>1, Zenon
       DEF PhaseInv, IdleInv, OpeningInv, ConnectedInv, PlayingInv, ClosingInv
  <2>3. ServedInv'
    BY <1>1, <1>4, Zenon DEF PhaseInv, ServedInv
  <2> QED BY <2>2, <2>3 DEF PhaseInv
<1>5. CASE pc = "done" /\ pc' = "wait"
  <2>1. ~running_play /\ pc' \in Resting /\ pc \in Resting /\ pc' \in SessionPcs
        /\ pc \notin PlayingPcs /\ pc \notin LivePcs \union {"finish"}
        /\ pc \notin {"refresh", "connect", "accessory", "disconnect"}
    BY <1>5, WorkerTellsPhase DEF Resting, SessionPcs, PlayingPcs, PlayPcs, LivePcs
  <2>2. IdleInv' /\ ConnectedInv' /\ PlayingInv'
    BY <1>1, <2>1, Zenon DEF PhaseInv, IdleInv, ConnectedInv, PlayingInv
  <2>3. OpeningInv'
    BY <2>1 DEF PhaseInv, OpeningInv, OneCommand
  <2>4. ClosingInv'
    BY <1>5, <2>1 DEF PhaseInv, ClosingInv
  <2>5. ServedInv'
    BY <1>1, <2>1, Zenon DEF PhaseInv, ServedInv
  <2> QED BY <2>2, <2>3, <2>4, <2>5 DEF PhaseInv
<1> QED BY <1>3, <1>4, <1>5

LEMMA WorkerKeepsPhaseInv ==
  ASSUME CallsInv, PhaseInv, cpc' = cpc, Worker \/ RunEnds \/ LiveDrops
  PROVE  PhaseInv'
<1>1. (LivePushes => LivePushes') /\ (Disconnects => Disconnects')
  BY Zenon DEF LivePushes, Disconnects
<1>2. CASE Take
  BY <1>2, TakeKeepsPhaseInv
<1>3. CASE Rescan
  <2>1. /\ pc = "refresh" /\ pc' = "done" /\ phase' = "idle"
        /\ UNCHANGED <<queue, running_play, live_active, connected>>
    BY <1>3 DEF Rescan, WorkerAt, engine, session
  <2>2. ~connected /\ ~running_play /\ queue = <<>> /\ phase = "refreshing"
    BY <2>1, WorkerTellsPhase DEF PhaseInv, OpeningInv, OneCommand, Resting
  <2> QED BY <1>1, <2>1, <2>2, Zenon
          DEF PhaseInv, IdleInv, OpeningInv, ConnectedInv, PlayingInv, ClosingInv, ServedInv, Resting
<1>4. CASE Open
  <2>1. PICK opened \in BOOLEAN :
          /\ connected' = (connected \/ opened)
          /\ phase' = IF opened THEN "connected" ELSE "idle"
    BY <1>4 DEF Open
  <2>2. /\ pc = "connect" /\ pc' = "done" /\ UNCHANGED <<queue, running_play, live_active>>
    BY <1>4 DEF Open, WorkerAt, engine
  <2>3. ~connected /\ ~running_play /\ queue = <<>> /\ phase = "connecting"
    BY <2>2, WorkerTellsPhase DEF PhaseInv, OpeningInv, OneCommand, Resting
  <2>4. \/ phase' = "connected" /\ connected'
        \/ phase' = "idle" /\ ~connected'
    BY <2>1, <2>3, Zenon
  <2>5. pc' \in Resting /\ pc' \in SessionPcs
    BY <2>2 DEF Resting, SessionPcs
  <2> QED BY <1>1, <2>2, <2>3, <2>4, <2>5, NothingIsLives, Zenon
          DEF PhaseInv, IdleInv, OpeningInv, ConnectedInv, PlayingInv, ClosingInv, ServedInv
<1>5. CASE Switch
  <2>1. /\ pc = "accessory" /\ pc' = "done" /\ phase' = "refreshing" /\ queue' = Append(queue, "refresh")
        /\ UNCHANGED <<running_play, live_active, connected>>
    BY <1>5 DEF Switch, WorkerAt, Push, session
  <2>2. ~connected /\ ~running_play /\ queue = <<>> /\ phase = "connecting"
    BY <2>1, WorkerTellsPhase DEF PhaseInv, OpeningInv, OneCommand, Resting
  <2>3. queue' = <<"refresh">> /\ pc' \in Resting
    BY <2>1, <2>2 DEF Resting
  <2> QED BY <1>1, <2>1, <2>2, <2>3, Zenon
          DEF PhaseInv, IdleInv, OpeningInv, OneCommand, ConnectedInv, PlayingInv, ClosingInv, ServedInv
<1>6. CASE Close
  <2>1. /\ pc = "disconnect" /\ pc' = "done" /\ phase' = "idle" /\ ~connected'
        /\ UNCHANGED <<queue, running_play, live_active>>
    BY <1>6 DEF Close, WorkerAt, engine
  <2>2. ~running_play /\ queue = <<>> /\ phase = "disconnecting"
    BY <2>1, WorkerTellsPhase DEF PhaseInv, ClosingInv, Resting, SessionPcs, LivePcs, PlayingPcs, PlayPcs
  <2> QED BY <1>1, <2>1, <2>2, Zenon
          DEF PhaseInv, IdleInv, OpeningInv, ConnectedInv, PlayingInv, ClosingInv, ServedInv, Resting
<1>7. CASE Gone
  \* There is a session whenever one of these is executed.
  <2>1. ~connected /\ pc \in PlayPcs \union LivePcs
    BY <1>7 DEF Gone, WorkerAt, PlayPcs, LivePcs
  <2> QED BY <2>1, WorkerTellsPhase, Zenon
<1>8. CASE Start \/ RunStops \/ RunEnds \/ RunSeeks \/ ListCheck \/ ListNext
  <2>1. /\ UNCHANGED <<queue, phase, running_play, connected, live_active>>
        /\ \/ pc \in PlayPcs /\ pc' \in PlayingPcs
           \/ pc = "live" /\ pc' = "live_loop"
    BY <1>8 DEF Start, RunStops, RunEnds, EndRun, RunSeeks, ListCheck, ListNext, WorkerAt,
                engine, session, PlayPcs, PlayingPcs
  <2> QED BY <2>1, WorkerMoves DEF LivePcs
<1>9. CASE LiveLeaves \/ LiveDrops \/ LiveOff \/ Done
  <2>1. /\ UNCHANGED <<queue, phase, connected>> /\ (live_active' => live_active)
        /\ \/ /\ pc \in LivePcs /\ pc' \in LivePcs \union {"finish"} /\ running_play' = running_play
           \/ pc = "done" /\ pc' = "wait" /\ running_play' = FALSE
    BY <1>9 DEF LiveLeaves, LiveDrops, LiveOff, Done, WorkerAt, engine, session, LivePcs
  <2>2. pc = "done" => running_play = FALSE
    BY WorkerTellsPhase DEF CallsInv
  <2>3. running_play' = running_play
    BY <2>1, <2>2
  <2> QED BY <2>1, <2>3, WorkerMoves
<1>10. CASE FinishRun
  <2>1. /\ pc = "finish" /\ pc' = "done" /\ ~running_play' /\ UNCHANGED <<live_active, connected>>
        /\ queue = <<>> => phase' = "connected" /\ queue' = IF live_active THEN <<"live">> ELSE <<>>
        /\ queue # <<>> => UNCHANGED <<phase, queue>>
    BY <1>10 DEF FinishRun, WorkerAt, session
  <2>2. connected /\ phase \in {"connected", "playing", "disconnecting"}
    BY <2>1, WorkerTellsPhase
  <2>3. pc' \in Resting /\ pc' \in SessionPcs /\ pc \notin Resting /\ pc # "disconnect"
    BY <2>1 DEF Resting, SessionPcs
  <2>4. CASE queue = <<>>
    <3>1. Lives(<<"live">>) /\ <<"live">> # <<>>
      <4>1. Append(<<>>, "live") = <<"live">>
        OBVIOUS
      <4> QED BY <4>1, NothingIsLives, LivesAppended
    <3>2. Lives(queue') /\ (live_active' => queue' # <<>>)
      BY <2>1, <2>4, <3>1, NothingIsLives, Zenon
    <3> QED BY <2>1, <2>2, <2>3, <2>4, <3>2, Zenon
            DEF PhaseInv, IdleInv, OpeningInv, ConnectedInv, PlayingInv, ClosingInv, ServedInv
  <2>5. CASE queue # <<>>
    <3>1. IdleInv' /\ OpeningInv' /\ ConnectedInv' /\ PlayingInv' /\ ClosingInv'
      BY <1>1, <2>1, <2>2, <2>3, <2>5, Zenon
         DEF PhaseInv, IdleInv, OpeningInv, ConnectedInv, PlayingInv, ClosingInv
    <3>2. ServedInv'
      BY <1>1, <2>1, <2>5, Zenon DEF PhaseInv, ServedInv
    <3> QED BY <3>1, <3>2 DEF PhaseInv
  <2> QED BY <2>4, <2>5
<1>11. CASE Quit
  BY <1>11, WorkerTellsPhase DEF Quit, WorkerAt
<1> QED BY <1>2, <1>3, <1>4, <1>5, <1>6, <1>7, <1>8, <1>9, <1>10, <1>11 DEF Worker

-----------------------------------------------------------------------------
(* Leaving                                                                 *)

LEMMA LeavingKept ==
  ASSUME LeavingInv, leaving, cpc' = cpc, Worker \/ RunEnds \/ LiveDrops
  PROVE  LeavingInv'
<1>1. queue \in Seq(Kinds \ Plays)
  BY DEF LeavingInv
<1>2. queue' \in Seq(Kinds \ Plays)
  <2>1. CASE Take
    BY <1>1, <2>1 DEF Take
  <2>2. CASE Switch
    <3>1. "refresh" \in Kinds \ Plays
      BY DEF Kinds, Plays
    <3>2. queue' = Append(queue, "refresh")
      BY <2>2 DEF Switch, Push
    <3> QED BY <1>1, <3>1, <3>2
  <2>3. CASE FinishRun
    <3>1. queue' = queue \/ queue' = <<"live">> \/ queue' = <<>>
      BY <2>3 DEF FinishRun
    <3>2. <<"live">> \in Seq(Kinds \ Plays) /\ <<>> \in Seq(Kinds \ Plays)
      BY LiveIsNoPlay
    <3> QED BY <1>1, <3>1, <3>2, Zenon
  <2>4. CASE ~Take /\ ~Switch /\ ~FinishRun
    <3>1. queue' = queue
      BY <2>4 DEF Worker, RunEnds, LiveDrops, Rescan, Open, Close, Gone, Start, RunStops, RunSeeks,
             EndRun, ListCheck, ListNext, LiveLeaves, LiveOff, Done, Quit, engine
    <3> QED BY <1>1, <3>1
  <2> QED BY <2>1, <2>2, <2>3, <2>4
<1> QED BY <1>2, Zenon DEF LeavingInv

\* The destructor leaves nothing but its own command.
LEMMA DestroyLeaves ==
  ASSUME CallsInv, Destroy
  PROVE  CallsInv' /\ LeavingInv' /\ leaving'
<1>1. /\ queue' = <<"quit">> /\ leaving' = TRUE /\ \A c \in Callers : cpc[c] = "idle"
      /\ UNCHANGED <<cpc, saw, phase, running_play, live_active, connected, raced>>
  BY DEF Destroy, session
<1>2. <<"quit">> \in Seq(Kinds \ Plays)
  BY DEF Kinds, Plays
<1>3. LeavingInv'
  BY <1>1, <1>2, Zenon DEF LeavingInv
<1>4. CallsInv'
  BY <1>1 DEF CallsInv
<1> QED BY <1>1, <1>3, <1>4

-----------------------------------------------------------------------------
(* All steps                                                               *)

LEMMA StepsKeepEngineInv == EngineInv /\ [Next]_vars => EngineInv'
<1> SUFFICES ASSUME EngineInv, [Next]_vars PROVE EngineInv'
  OBVIOUS
<1>1. CallsInv
  BY DEF EngineInv
<1>2. CASE UNCHANGED vars
  <2>1. UNCHANGED <<queue, phase, running_play, pc, connected, live_active, cpc, saw, leaving, raced>>
    BY <1>2 DEF vars, engine, session, callers
  <2>2. CallsInv'
    BY <1>1, <2>1 DEF CallsInv
  <2>3. LeavingInv => LeavingInv'
    BY <2>1 DEF LeavingInv
  <2>4. (Disconnects => Disconnects') /\ (LivePushes => LivePushes')
    BY <2>1, Zenon DEF Disconnects, LivePushes
  <2>5. PhaseInv => PhaseInv'
    BY <2>1, <2>4, PhaseInvKept, Zenon
  <2> QED BY <2>1, <2>2, <2>3, <2>5, Zenon DEF EngineInv
<1>3. CASE \E c \in Callers : NewCall(c) \/ FinishCall(c)
  <2>1. PICK c \in Callers : NewCall(c) \/ FinishCall(c)
    BY <1>3
  <2>2. CallsInv'
    BY <1>1, <2>1, CallsKeepCallsInv
  <2>3. (raced => raced') /\ leaving' = leaving
    <3>1. leaving' = leaving
      BY <2>1 DEF NewCall, Refresh, Connect, Accessory, Play, PlayPlaylist, Stop, Seek, LiveStart,
                  LiveStop, Disconnect, PushFrom, Begin, FinishCall, SeekPost, LiveReset,
                  LiveOn, LivePush, LiveClear, DisconnectClear, DisconnectPush, Continue
    <3>2. raced' = raced \/ \E now \in BOOLEAN : raced' = (raced \/ now)
      BY <2>1, Zenon
         DEF NewCall, Refresh, Connect, Accessory, Play, PlayPlaylist, Stop, Seek, LiveStart,
             LiveStop, Disconnect, PushFrom, Overtaken, FinishCall, SeekPost, LiveReset,
             LiveOn, LivePush, LiveClear, DisconnectClear, DisconnectPush
    <3>3. raced => raced'
      BY <3>2, Zenon
    <3> QED BY <3>1, <3>3
  <2>4. LeavingInv => ~leaving
    <3>1. leaving => cpc[c] # "idle"
      BY <2>1 DEF NewCall, Refresh, Connect, Accessory, Play, PlayPlaylist, Stop, Seek, LiveStart,
                  LiveStop, Disconnect, PushFrom, Begin, FinishCall, SeekPost, LiveReset,
                  LiveOn, LivePush, LiveClear, DisconnectClear, DisconnectPush, Continue
    <3> QED BY <3>1 DEF LeavingInv
  <2>5. PhaseInv /\ ~raced' => PhaseInv'
    BY <1>1, <2>1, CallsKeepPhaseInv
  <2> QED BY <2>2, <2>3, <2>4, <2>5, Zenon DEF EngineInv
<1>4. CASE Worker \/ RunEnds \/ LiveDrops
  <2>1. CallsInv' /\ leaving' = leaving /\ raced' = raced /\ cpc' = cpc
    BY <1>1, <1>4, WorkerKeepsCallsInv
  <2>2. leaving /\ LeavingInv => LeavingInv'
    BY <1>4, <2>1, LeavingKept
  <2>3. PhaseInv => PhaseInv'
    BY <1>1, <1>4, <2>1, WorkerKeepsPhaseInv
  <2> QED BY <2>1, <2>2, <2>3, Zenon DEF EngineInv
<1>5. CASE Destroy
  BY <1>1, <1>5, DestroyLeaves, Zenon DEF EngineInv
<1> QED BY <1>2, <1>3, <1>4, <1>5 DEF Next

\* "The check and the queueing share one lock, so two callers cannot both pass
\* it": however many callers there are, at most one playback is queued or
\* executed, while no call is overtaken.  (Engine::push_from and stop.)
THEOREM AtMostOneIsPlayed == Spec => []OnePlayback
<1> QED BY EngineInvInit, StepsKeepEngineInv, EngineInvHolds, PTL DEF Spec

\* When nothing is queued or under way, the phase on show is the session's,
\* while no call is overtaken.  (Engine::push, stop, finish_run and execute.)
THEOREM ShownPhaseIsTrue == Spec => []PhaseIsTrue
<1> QED BY EngineInvInit, StepsKeepEngineInv, EngineInvHolds, PTL DEF Spec

\* Live control that is on is not left without somebody to serve it, while no
\* call is overtaken.  (Engine::live_start, live_stop, run_live, finish_run.)
THEOREM LiveControlIsServed == Spec => []LiveIsServed
<1> QED BY EngineInvInit, StepsKeepEngineInv, EngineInvHolds, PTL DEF Spec

-----------------------------------------------------------------------------
(* The routes                                                              *)

\* The kinds of effect a route can have.
Effects ==
  {"ask_window", "disconnect", "play", "stop", "player", "live_start", "live_stop", "send"}

\* What the proof needs of the table of routes.
InTable(route) ==
  /\ \E n \in Nat : DOMAIN route.reads = 1..n
  /\ route.does \in {"disconnect", "live_start"} => route.guard = Connected1
  /\ route.does \in Effects

LEMMA EveryRoute == \A route \in Routes : InTable(route)
<1>1. /\ InTable(RefreshRoute) /\ InTable(DisconnectRoute) /\ InTable(StopRoute)
      /\ InTable(LiveStartRoute) /\ InTable(LiveStopRoute)
  <2>1. DOMAIN <<>> = 1..0
    OBVIOUS
  <2> QED BY <2>1 DEF InTable, Effects, Route, RefreshRoute, DisconnectRoute, StopRoute,
                      LiveStartRoute, LiveStopRoute
<1>2. /\ InTable(ConnectRoute) /\ InTable(RecordRoutes) /\ InTable(WheelRoute)
      /\ InTable(PauseRoute)
  BY DEF InTable, Effects, Route, ConnectRoute, RecordRoutes, WheelRoute, PauseRoute
<1>3. /\ InTable(PlayRoute) /\ InTable(SeekRoute) /\ InTable(MoveRoute) /\ InTable(ButtonRoute)
      /\ InTable(KeyRoute) /\ InTable(PadButtonRoute) /\ InTable(AxisRoute) /\ InTable(MediaRoute)
  BY DEF InTable, Effects, Route, PlayRoute, SeekRoute, MoveRoute, ButtonRoute, KeyRoute,
         PadButtonRoute, AxisRoute, MediaRoute
<1>4. InTable(BridgeRoute) /\ InTable(HidRoute) /\ InTable(TouchRoute)
  BY DEF InTable, Effects, Route, BridgeRoute, HidRoute, TouchRoute
<1>5. InTable(DpadRoute) /\ InTable(StylusRoute) /\ InTable(BatteryRoute)
  BY DEF InTable, Effects, Route, DpadRoute, StylusRoute, BatteryRoute
<1> QED BY <1>1, <1>2, <1>3, <1>4, <1>5, Zenon DEF Routes

-----------------------------------------------------------------------------
(* The inductive invariant                                                 *)

\* Every parameter that was given was read as it was given, or is one that
\* only a number of more than 32 bits can differ from.
ReadWell(h) ==
  \A i \in DOMAIN h.given :
    \/ h.given[i] = Absent
    \/ h.given[i] \in h.route.reads[i].good /\ (h.given[i] < UintSize => h.read[i] = h.given[i])

\* A request that is handled, or was.
IsHandling(h) ==
  h = [step |-> h.step, route |-> h.route, given |-> h.given, read |-> h.read, web |-> h.web,
       status |-> h.status, stale |-> h.stale]

\* What a handler has looked at and read, and what was done for it.
Handled(h, done) ==
  /\ IsHandling(h) /\ h.route \in Routes
  /\ h.step \in {"guard", "read", "act"} => done = {} /\ ~h.web
  /\ h.step \in {"guard", "read"} => DOMAIN h.given = DOMAIN h.route.reads
  /\ h.step = "act" => ReadWell(h)
  /\ h.step = "answered" =>
       /\ h.status # 200 => done = {}
       /\ h.status = 200 => ~h.web /\ ReadWell(h)
       /\ h.status = 200 /\ done = {} => h.route.does # "play" /\ (h.stale \/ h.route.does = "send")

\* The invariant of the routes.
RequestsInv ==
  /\ DOMAIN handling = Handlers /\ DOMAIN done_for = Handlers
  /\ \A c \in Handlers : Handled(handling[c], done_for[c])

LEMMA RequestsInvInit == RequestsInit => RequestsInv
<1> SUFFICES ASSUME RequestsInit PROVE RequestsInv
  OBVIOUS
<1>1. StopRoute \in Routes
  BY DEF Routes
<1>2. Handled(Waiting, {})
  BY <1>1 DEF Handled, IsHandling, Waiting
<1> QED BY <1>2 DEF RequestsInit, RequestsInv

\* One handler moves, for which this was done.
LEMMA OneMoves ==
  ASSUME RequestsInv, NEW c \in Handlers, NEW h, NEW done, Handled(h, done),
         handling' = [handling EXCEPT ![c] = h],
         done_for' = [done_for EXCEPT ![c] = done]
  PROVE  RequestsInv'
  BY DEF RequestsInv

\* One handler moves, and nothing was done.
LEMMA OneMovesOn ==
  ASSUME RequestsInv, NEW c \in Handlers, NEW h, Handled(h, done_for[c]),
         handling' = [handling EXCEPT ![c] = h], done_for' = done_for
  PROVE  RequestsInv'
  BY DEF RequestsInv

-----------------------------------------------------------------------------
(* The steps of a handler                                                  *)

LEMMA ArriveKeeps ==
  ASSUME RequestsInv, NEW c \in Handlers, Arrive(c) PROVE RequestsInv'
<1>1. PICK route \in Routes, web \in BOOLEAN :
        \E args \in Given(route) : handling' = [handling EXCEPT ![c] = Begun(route, args, web)]
  BY Zenon DEF Arrive
<1>2. PICK args \in Given(route) : handling' = [handling EXCEPT ![c] = Begun(route, args, web)]
  BY <1>1, Zenon
<1> DEFINE h == Begun(route, args, web)
<1>3. DOMAIN args = DOMAIN route.reads
  BY DEF Given, Usual
<1>4. Handled(h, {})
  <2>1. CASE web
    BY <2>1 DEF Begun, Handled, IsHandling
  <2>2. CASE ~web
    BY <1>3, <2>2 DEF Begun, Handled, IsHandling
  <2> QED BY <2>1, <2>2
<1>5. done_for' = [done_for EXCEPT ![c] = {}]
  BY DEF Arrive
<1> QED BY <1>2, <1>4, <1>5, OneMoves

\* A handler that goes on to another step.
Becomes(h, step, read, status, stale) ==
  [step |-> step, route |-> h.route, given |-> h.given, read |-> read, web |-> h.web,
   status |-> status, stale |-> stale]

LEMMA GoesOn ==
  ASSUME RequestsInv, NEW c \in Handlers, NEW step, To(c, step)
  PROVE  LET h == handling[c]
         IN handling' = [handling EXCEPT ![c] = Becomes(h, step, h.read, h.status, h.stale)]
<1> DEFINE h == handling[c]
<1>1. IsHandling(h) /\ DOMAIN handling = Handlers
  BY DEF RequestsInv, Handled
<1>2. handling' = [handling EXCEPT ![c] = [h EXCEPT !.step = step]]
  BY DEF To
<1> HIDE DEF h
<1>3. [h EXCEPT !.step = step] = Becomes(h, step, h.read, h.status, h.stale)
  BY <1>1 DEF IsHandling, Becomes
<1> QED BY <1>2, <1>3 DEF h

LEMMA AnswersIt ==
  ASSUME RequestsInv, NEW c \in Handlers, NEW status, Answer(c, status)
  PROVE  LET h == handling[c]
         IN handling' = [handling EXCEPT ![c] = Becomes(h, "answered", h.read, status, h.stale)]
<1> DEFINE h == handling[c]
           g == [h EXCEPT !.step = "answered", !.status = status]
<1>1. IsHandling(h) /\ DOMAIN handling = Handlers
  BY DEF RequestsInv, Handled
<1>2. handling' = [handling EXCEPT ![c] = g]
  BY <1>1 DEF Answer
<1> HIDE DEF h
<1>3. g = Becomes(h, "answered", h.read, status, h.stale)
  <2> DEFINE f == [h EXCEPT !.step = "answered"]
  <2>1. f = Becomes(h, "answered", h.read, h.status, h.stale)
    BY <1>1 DEF IsHandling, Becomes
  <2>2. g = [f EXCEPT !.status = status]
    BY <1>1 DEF IsHandling
  <2> HIDE DEF f, g
  <2> QED BY <2>1, <2>2 DEF Becomes
<1> QED BY <1>2, <1>3 DEF h

LEMMA LookKeeps ==
  ASSUME RequestsInv, NEW c \in Handlers, LookAtPhase(c) PROVE RequestsInv'
<1> DEFINE h == handling[c]
<1>1. /\ h.step = "guard" /\ done_for' = done_for /\ Handled(h, done_for[c])
      /\ To(c, "read") \/ Answer(c, 409)
  BY DEF LookAtPhase, Stays, RequestsInv
<1> HIDE DEF h
<1>2. /\ Handled(Becomes(h, "read", h.read, h.status, h.stale), done_for[c])
      /\ Handled(Becomes(h, "answered", h.read, 409, h.stale), done_for[c])
  BY <1>1 DEF Handled, IsHandling, Becomes
<1> QED BY <1>1, <1>2, GoesOn, AnswersIt, OneMovesOn DEF h

\* A list without a value has it nowhere.
LEMMA NotContained ==
  ASSUME NEW list, NEW n \in Nat, DOMAIN list = 1..n, list = [i \in 1..n |-> list[i]], NEW e,
         ~Contains(list, e)
  PROVE  \A i \in 1..n : list[i] # e
<1> DEFINE S == {list[i] : i \in 1..n}
<1>1. list \in [1..n -> S]
  OBVIOUS
<1> HIDE DEF S
<1>2. list \in Seq(S) /\ Len(list) = n
  BY <1>1
<1> QED BY <1>2 DEF Contains

\* A button's number is narrowed; a small one stays what it is.
LEMMA NarrowedRight ==
  ASSUME NEW route \in Routes, NEW args, DOMAIN args = DOMAIN route.reads, NEW i \in DOMAIN args,
         args[i] \in route.reads[i].good, args[i] < UintSize
  PROVE  Narrowed(route, args)[i] = args[i]
<1>1. CASE route \notin {ButtonRoute, PadButtonRoute}
  BY <1>1 DEF Narrowed
<1>2. CASE route \in {ButtonRoute, PadButtonRoute} /\ i # 1
  BY <1>2 DEF Narrowed
<1>3. CASE route \in {ButtonRoute, PadButtonRoute} /\ i = 1
  <2>1. route.reads[1].good = OneBased
    BY <1>3 DEF ButtonRoute, PadButtonRoute, Route, Required
  <2>2. args[1] \in 1..8 /\ args[1] < 4
    BY <1>3, <2>1 DEF OneBased, UintSize
  <2>3. args[1] % UintSize = args[1]
    BY <2>2 DEF UintSize
  <2> QED BY <1>3, <2>3 DEF Narrowed
<1> QED BY <1>1, <1>2, <1>3

LEMMA ReadKeeps ==
  ASSUME RequestsInv, NEW c \in Handlers, ReadParameters(c) PROVE RequestsInv'
<1> DEFINE h == handling[c]
           route == h.route
           args == [i \in DOMAIN route.reads |-> ReadParameter(h.given[i], route.reads[i])]
           refused == Contains(args, Unreadable) \/ ~Fits(route, args)
           g == Becomes(h, "act", Narrowed(route, args), h.status, h.stale)
<1>1. /\ h.step = "read" /\ done_for' = done_for /\ Handled(h, done_for[c])
      /\ refused => Answer(c, 400)
      /\ ~refused => handling' = [handling EXCEPT ![c] =
                       [h EXCEPT !.step = "act", !.read = Narrowed(route, args)]]
  BY DEF ReadParameters, Stays, RequestsInv
<1>2. route \in Routes /\ DOMAIN h.given = DOMAIN route.reads
  BY <1>1 DEF Handled
<1>3. CASE refused
  <2> HIDE DEF h
  <2>1. Handled(Becomes(h, "answered", h.read, 400, h.stale), done_for[c])
    BY <1>1 DEF Handled, IsHandling, Becomes
  <2> HIDE DEF refused
  <2> QED BY <1>1, <1>3, <2>1, AnswersIt, OneMovesOn DEF h
<1>4. CASE ~refused
  <2>1. PICK n \in Nat : DOMAIN route.reads = 1..n
    BY <1>2, EveryRoute DEF InTable
  <2>2. \A i \in 1..n : args[i] # Unreadable
    BY <1>4, <2>1, NotContained
  <2>3. ASSUME NEW i \in DOMAIN h.given, h.given[i] # Absent
        PROVE  /\ h.given[i] \in route.reads[i].good
               /\ h.given[i] < UintSize => Narrowed(route, args)[i] = h.given[i]
    <3>1. h.given[i] \in route.reads[i].good /\ args[i] = h.given[i]
      BY <1>2, <2>1, <2>2, <2>3 DEF ReadParameter
    <3> QED BY <1>2, <3>1, NarrowedRight
  <2>4. ReadWell(g)
    BY <2>3 DEF ReadWell, Becomes
  <2>5. [h EXCEPT !.step = "act", !.read = Narrowed(route, args)] = g
    <3> DEFINE read == Narrowed(route, args)
    <3> HIDE DEF read
    <3>1. IsHandling(h)
      BY <1>1 DEF Handled
    <3>2. [h EXCEPT !.step = "act", !.read = read] = Becomes(h, "act", read, h.status, h.stale)
      <4> HIDE DEF h
      <4> DEFINE f == [h EXCEPT !.step = "act"]
      <4>1. f = Becomes(h, "act", h.read, h.status, h.stale)
        BY <3>1 DEF IsHandling, Becomes
      <4>2. [h EXCEPT !.step = "act", !.read = read] = [f EXCEPT !.read = read]
        BY <3>1 DEF IsHandling
      <4> HIDE DEF f
      <4> QED BY <4>1, <4>2 DEF Becomes
    <3> QED BY <3>2 DEF read
  <2>6. Handled(g, done_for[c])
    <3> DEFINE read == Narrowed(route, args)
    <3> HIDE DEF read
    <3> QED BY <1>1, <2>4 DEF Handled, IsHandling, Becomes, read
  <2>7. handling' = [handling EXCEPT ![c] = g]
    BY <1>1, <1>4, <2>5
  <2> HIDE DEF g
  <2> QED BY <1>1, <2>6, <2>7, OneMovesOn
<1> QED BY <1>3, <1>4

LEMMA WindowKeeps ==
  ASSUME RequestsInv, NEW c \in Handlers, WindowAnswers(c) PROVE RequestsInv'
<1> DEFINE h == handling[c]
<1>1. h.step = "act" /\ Handled(h, done_for[c])
  BY DEF WindowAnswers, RequestsInv
<1>2. PICK status \in {200, 400, 409, 503} :
        /\ Answer(c, status)
        /\ Did(c, IF status = 200 THEN {<<"ask_window", h.read>>} ELSE {})
  BY DEF WindowAnswers
<1> DEFINE done == IF status = 200 THEN {<<"ask_window", h.read>>} ELSE {}
           g == Becomes(h, "answered", h.read, status, h.stale)
<1>3. handling' = [handling EXCEPT ![c] = g]
  BY <1>2, AnswersIt
<1>4. done_for' = [done_for EXCEPT ![c] = done]
  BY <1>2 DEF Did
<1>5. done = {} <=> status # 200
  OBVIOUS
<1> HIDE DEF h, done
<1>6. Handled(g, done)
  BY <1>1, <1>2, <1>5 DEF Handled, IsHandling, Becomes, ReadWell
<1> HIDE DEF g
<1> QED BY <1>3, <1>4, <1>6, OneMoves

LEMMA ActKeeps ==
  ASSUME RequestsInv, NEW c \in Handlers, ActAndAnswer(c) PROVE RequestsInv'
<1> DEFINE h == handling[c]
           does == h.route.does
           status == IF does = "play" /\ done_for'[c] = {} THEN 409 ELSE 200
           g == Becomes(h, "answered", h.read, status, Stale(c))
<1>1. /\ h.step = "act" /\ Handled(h, done_for[c]) /\ does # "ask_window" /\ Calls(c)
      /\ handling' = [handling EXCEPT ![c].step = "answered", ![c].stale = Stale(c),
                                      ![c].status = status]
      /\ DOMAIN handling = Handlers /\ DOMAIN done_for = Handlers
  BY DEF ActAndAnswer, RequestsInv
<1>2. PICK done :
        /\ Did(c, done)
        /\ done = {} => does \in {"play", "disconnect", "live_start", "send"}
        /\ done = {} /\ does \in {"disconnect", "live_start"} => engine_phase \notin Connected1
  BY <1>1 DEF Calls
<1>3. done_for' = [done_for EXCEPT ![c] = done] /\ done_for'[c] = done
  <2> HIDE DEF status, g, h
  <2>1. Did(c, done) /\ DOMAIN done_for = Handlers
    BY <1>1, <1>2
  <2> QED BY <2>1 DEF Did
<1>4. h.route \in Routes /\ IsHandling(h) /\ ReadWell(h) /\ ~h.web
  BY <1>1 DEF Handled
<1>5. done = {} => does \in {"play", "send"} \/ Stale(c)
  <2>1. does \in {"disconnect", "live_start"} => h.route.guard = Connected1
    BY <1>4, EveryRoute DEF InTable
  <2>2. Stale(c) <=> engine_phase \notin h.route.guard
    BY DEF Stale
  <2> HIDE DEF does, h, status, g
  <2>3. CASE done = {} /\ does \in {"disconnect", "live_start"}
    BY <1>2, <2>1, <2>2, <2>3
  <2>4. CASE ~(done = {} /\ does \in {"disconnect", "live_start"})
    BY <1>2, <2>4
  <2> QED BY <2>3, <2>4
<1>6. handling' = [handling EXCEPT ![c] = g]
  <2> DEFINE stale == Stale(c)
  <2>1. handling' = [handling EXCEPT ![c] =
                      [h EXCEPT !.step = "answered", !.stale = stale, !.status = status]]
    BY <1>1
  <2> HIDE DEF h, stale, status
  <2> DEFINE e == [h EXCEPT !.step = "answered"]
             f == [e EXCEPT !.stale = stale]
  <2>2. e = Becomes(h, "answered", h.read, h.status, h.stale)
    BY <1>4 DEF IsHandling, Becomes
  <2>3. [h EXCEPT !.step = "answered", !.stale = stale, !.status = status]
        = [f EXCEPT !.status = status]
    BY <1>4 DEF IsHandling
  <2> HIDE DEF e
  <2>4. f = Becomes(h, "answered", h.read, h.status, stale)
    BY <2>2 DEF Becomes
  <2> HIDE DEF f
  <2>5. [f EXCEPT !.status = status] = Becomes(h, "answered", h.read, status, stale)
    BY <2>4 DEF Becomes
  <2> QED BY <2>1, <2>3, <2>5 DEF stale
<1>7. status = IF does = "play" /\ done = {} THEN 409 ELSE 200
  BY <1>3
<1> HIDE DEF status
<1>8. Handled(g, done)
  <2>1. /\ g.step = "answered" /\ g.route = h.route /\ g.status = status /\ g.web = h.web
        /\ g.stale = Stale(c) /\ g.given = h.given /\ g.read = h.read /\ IsHandling(g)
    BY DEF Becomes, IsHandling
  <2> HIDE DEF g, h
  <2>2. ReadWell(g)
    BY <1>4, <2>1 DEF ReadWell
  <2>3. status # 200 => done = {}
    BY <1>7
  <2>4. status = 200 /\ done = {} => g.route.does # "play" /\ (g.stale \/ g.route.does = "send")
    BY <1>5, <1>7, <2>1
  <2> QED BY <1>4, <2>1, <2>2, <2>3, <2>4, Zenon DEF Handled
<1> HIDE DEF g
<1> QED BY <1>3, <1>6, <1>8, OneMoves

LEMMA StepsKeepRequestsInv == RequestsInv /\ [RequestsNext]_requestsVars => RequestsInv'
<1> SUFFICES ASSUME RequestsInv, [RequestsNext]_requestsVars PROVE RequestsInv'
  OBVIOUS
<1>1. CASE EngineMoves \/ RunIsOver \/ UNCHANGED requestsVars
  <2>1. handling' = handling /\ done_for' = done_for
    BY <1>1 DEF EngineMoves, RunIsOver, requestsVars
  <2> QED BY <2>1 DEF RequestsInv
<1>2. ASSUME NEW c \in Handlers,
             Arrive(c) \/ LookAtPhase(c) \/ ReadParameters(c) \/ ActAndAnswer(c) \/ WindowAnswers(c)
      PROVE  RequestsInv'
  BY <1>2, ArriveKeeps, LookKeeps, ReadKeeps, ActKeeps, WindowKeeps
<1> QED BY <1>1, <1>2 DEF RequestsNext

LEMMA AnswersAreTrue == RequestsInv => OkIsTrue
<1> SUFFICES ASSUME RequestsInv, NEW c \in Handlers, handling[c].step = "answered"
             PROVE  LET h == handling[c]
                    IN /\ h.status # 200 => done_for[c] = {}
                       /\ h.status = 200 =>
                            /\ ~h.web
                            /\ \A i \in DOMAIN h.given :
                                 \/ h.given[i] = Absent
                                 \/ h.given[i] \in h.route.reads[i].good
                                      /\ (h.given[i] < UintSize => h.read[i] = h.given[i])
                            /\ done_for[c] = {} =>
                                 h.route.does # "play" /\ (h.stale \/ h.route.does = "send")
  BY Zenon DEF OkIsTrue
<1> DEFINE h == handling[c]
<1>1. Handled(h, done_for[c]) /\ h.step = "answered"
  BY DEF RequestsInv
<1> HIDE DEF h
<1>2. /\ h.status # 200 => done_for[c] = {}
      /\ h.status = 200 => ~h.web /\ ReadWell(h)
      /\ h.status = 200 /\ done_for[c] = {} =>
           h.route.does # "play" /\ (h.stale \/ h.route.does = "send")
  BY <1>1, Zenon DEF Handled
<1> QED BY <1>2, Zenon DEF ReadWell, h

\* The handlers of ControlApi: whatever the engine does between a handler's look,
\* its reading and its call, an answer says what happened.
THEOREM AnswersSayWhatHappened == RequestsSpec => []OkIsTrue
  BY RequestsInvInit, StepsKeepRequestsInv, AnswersAreTrue, PTL DEF RequestsSpec
===============================================================================
