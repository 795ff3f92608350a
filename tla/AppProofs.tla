------------------------------ MODULE AppProofs ------------------------------
(***************************************************************************)
(* What the threads of the application hand to each other, and what it      *)
(* leaves on the disk, for any number of threads, calls and edits.  Live    *)
(* input is never left in the inbox unmarked, its edges keep their order,   *)
(* and its motion is sent once (LiveInput); a request to the window is      *)
(* carried out and answered, or it is withdrawn, and the window does not    *)
(* sleep over it (Desk); and a recording (Recorder) and the settings,       *)
(* presets and playlists (Stores) survive whatever fails or dies on the way.*)
(***************************************************************************)
EXTENDS LiveInput, Desk, Recorder, Stores, SequenceFacts, TLAPS

-----------------------------------------------------------------------------
(* Live input                                                               *)

\* A call that has input in the inbox and has not set live_pending_ yet.
Marking == \E c \in Callers : cpc[c] = "pend"

\* The invariant is inductive with the domain of cpc alone: who empties
\* live_pending_ goes on to empty the inbox.
PendingInv ==
  /\ cpc \in [Callers -> Places]
  /\ InputIsPending

LEMMA PendingInvInit == Init => PendingInv
  BY DEF Init, PendingInv, InputIsPending, Places

LEMMA BeginKeepsMarking ==
  ASSUME PendingInv, NEW c \in Callers, NEW place \in Places, Begin(c, place)
  PROVE  cpc' \in [Callers -> Places] /\ (Marking => Marking')
<1>1. cpc' = [cpc EXCEPT ![c] = place] /\ cpc[c] = "idle"
  BY DEF Begin
<1> QED BY <1>1 DEF PendingInv, Marking

LEMMA ContinueKeepsMarking ==
  ASSUME PendingInv, NEW c \in Callers, NEW from \in Places \ {"pend"}, NEW to \in Places,
         Continue(c, from, to)
  PROVE  cpc' \in [Callers -> Places] /\ (Marking => Marking')
<1>1. cpc' = [cpc EXCEPT ![c] = to] /\ cpc[c] = from
  BY DEF Continue
<1> QED BY <1>1 DEF PendingInv, Marking

\* A step that neither fills the inbox nor takes a mark away.
LEMMA MarksStay ==
  ASSUME PendingInv, cpc' \in [Callers -> Places], Marking => Marking',
         live_inbox' # <<>> => live_inbox # <<>>,
         live_pending => live_pending', pc = "swap" => pc' = "swap"
  PROVE  PendingInv'
  BY DEF PendingInv, InputIsPending, Marking

LEMMA InboxEmptied ==
  ASSUME cpc' \in [Callers -> Places], live_inbox' = <<>>
  PROVE  PendingInv'
  BY DEF PendingInv, InputIsPending

LEMMA NewCallsKeepPendingInv ==
  ASSUME PendingInv, NEW c \in Callers, NewCall(c)
  PROVE  PendingInv'
<1>1. cpc' \in [Callers -> Places] /\ (Marking => Marking')
  <2>1. PICK place \in {"push", "reset_only", "reset", "clear", "notify", "idle"} : Begin(c, place)
    BY DEF NewCall, Input, LiveStart, LiveStop, Play, CancelPlay
  <2>2. place \in Places
    BY DEF Places
  <2> QED BY <2>1, <2>2, BeginKeepsMarking
<1>2. UNCHANGED <<live_inbox, live_pending, pc>>
  BY DEF NewCall, Input, LiveStart, LiveStop, Play, CancelPlay, flags, locked, worker
<1> QED BY <1>1, <1>2, MarksStay

LEMMA FinishedCallsKeepPendingInv ==
  ASSUME PendingInv, NEW c \in Callers, FinishCall(c)
  PROVE  PendingInv'
<1>1. CASE Push(c)
  <2>1. cpc' = [cpc EXCEPT ![c] = "pend"]
    BY <1>1 DEF Push, Accept, Continue
  <2>2. cpc' \in [Callers -> Places] /\ cpc'[c] = "pend"
    BY <2>1 DEF PendingInv, Places
  <2> QED BY <2>2 DEF PendingInv, InputIsPending
<1>2. CASE Pend(c)
  <2>1. cpc' = [cpc EXCEPT ![c] = "notify"] /\ live_pending' = TRUE
    BY <1>2 DEF Pend, Continue
  <2> QED BY <2>1 DEF PendingInv, InputIsPending, Places
<1>3. CASE LiveReset(c)
  <2>1. live_inbox' = <<>>
    BY <1>3 DEF LiveReset
  <2>2. \/ Continue(c, "reset", "on") \/ Continue(c, "reset_only", "on_only")
    BY <1>3 DEF LiveReset
  <2>3. cpc' \in [Callers -> Places]
    BY <2>2 DEF Continue, PendingInv, Places
  <2> QED BY <2>1, <2>3, InboxEmptied
<1>4. CASE Refuse(c) \/ Notify(c) \/ LiveOn(c) \/ LivePush(c) \/ LiveClear(c)
  <2>1. PICK from \in {"push", "notify", "on", "on_only", "live_push", "clear"},
             to \in {"idle", "live_push", "notify"} : Continue(c, from, to)
    BY <1>4 DEF Refuse, Notify, LiveOn, LivePush, LiveClear
  <2>2. from \in Places \ {"pend"} /\ to \in Places
    BY DEF Places
  <2>3. cpc' \in [Callers -> Places] /\ (Marking => Marking')
    BY <2>1, <2>2, ContinueKeepsMarking
  <2>4. UNCHANGED <<live_inbox, live_pending>> /\ (pc = "swap" => pc' = "swap")
    BY <1>4 DEF Refuse, Notify, LiveOn, LivePush, LiveClear, flags, locked, worker
  <2> QED BY <2>3, <2>4, MarksStay
<1> QED BY <1>1, <1>2, <1>3, <1>4 DEF FinishCall

LEMMA WorkerKeepsPendingInv ==
  ASSUME PendingInv, Worker \/ PlayEnds \/ Lose
  PROVE  PendingInv'
<1>1. cpc' = cpc /\ cpc' \in [Callers -> Places] /\ (Marking => Marking')
  <2>1. cpc' = cpc
    BY DEF Worker, Take, Check, Block, PlayPumps, PlayEnds, Return, PumpOff, PumpOn, Exchange, Swap,
           Apply, ApplyBatch, Flush, LiveOff, Release, FinishRun, Lose, Goto, callers
  <2> QED BY <2>1 DEF PendingInv, Marking
<1>2. CASE Swap
  BY <1>1, <1>2, InboxEmptied DEF Swap
<1>3. CASE Exchange
  \* Nothing is taken from a mark that is not there.
  <2>1. live_inbox' = live_inbox /\ pc = "exchange" /\ (live_pending => pc' = "swap")
    BY <1>3 DEF Exchange, Goto, Return, locked
  <2> QED BY <1>1, <2>1 DEF PendingInv, InputIsPending, Marking
<1>4. CASE Take \/ Check \/ Block \/ PlayPumps \/ PlayEnds \/ PumpOff \/ PumpOn \/ Apply \/ Flush
           \/ LiveOff \/ Release \/ FinishRun \/ Lose
  <2>1. UNCHANGED <<live_inbox, live_pending>>
    BY <1>4 DEF Take, Check, Block, PlayPumps, PlayEnds, PumpOff, PumpOn, Apply, ApplyBatch, Flush,
                LiveOff, Release, FinishRun, Lose, flags, locked
  <2>2. pc # "swap"
    BY <1>4 DEF Take, Check, Block, PlayPumps, PlayEnds, Return, PumpOff, PumpOn, Apply, ApplyBatch,
                Flush, LiveOff, Release, FinishRun, Lose, Goto
  <2> QED BY <1>1, <2>1, <2>2, MarksStay
<1> QED BY <1>2, <1>3, <1>4 DEF Worker

LEMMA StepsKeepPendingInv == PendingInv /\ [Next]_vars => PendingInv'
<1> SUFFICES ASSUME PendingInv, [Next]_vars PROVE PendingInv'
  OBVIOUS
<1>1. CASE UNCHANGED vars
  BY <1>1 DEF vars, flags, locked, worker, callers, PendingInv, InputIsPending
<1>2. CASE Next
  BY <1>2, NewCallsKeepPendingInv, FinishedCallsKeepPendingInv, WorkerKeepsPendingInv DEF Next
<1> QED BY <1>1, <1>2

\* Input in the inbox is marked as pending, or the call that brought it is
\* about to mark it: pump_live() may skip the mutex when live_pending_ is not
\* set.  (Engine::live_send and pump_live.)
THEOREM InputIsNeverMissed == Spec => []InputIsPending
<1>1. PendingInv => InputIsPending
  BY DEF PendingInv
<1> QED BY <1>1, PendingInvInit, StepsKeepPendingInv, PTL DEF Spec

-----------------------------------------------------------------------------
(* What items leave held, and the motion in them                           *)

\* A LiveItem in the inbox: motion that was folded into it may be any.
Item == [kind : {"edge", "toggle", "move", "wheel"}, key : Keys \union Toggles \union {"none"},
         down : BOOLEAN, moved : Nat]

Held == SUBSET (Keys \union Toggles \union {"none"})

LEMMA PressTyped == \A held \in Held, item \in Item : Press(held, item) \in Held
  BY DEF Press, Held, Item

LEMMA MovedTyped == \A sum \in Nat, item \in Item : sum + item.moved \in Nat
  BY DEF Item

\* What is held after items, item by item.
LEMMA AfterIs ==
  ASSUME NEW items \in Seq(Item), NEW held \in Held, NEW w, w[0] = held,
         \A n \in 1..Len(items) : w[n] = Press(w[n - 1], items[n])
  PROVE  After(held, items) = w[Len(items)]
<1> DEFINE L == Len(items)
           Reads(f) == f = [n \in 0..L |-> IF n = 0 THEN held ELSE Press(f[n - 1], items[n])]
           f == [n \in 0..L |-> w[n]]
           r == CHOOSE g : Reads(g)
<1>1. L \in Nat
  OBVIOUS
<1>2. \A n \in 1..L : w[n] = Press(w[n - 1], items[n])
  OBVIOUS
<1> HIDE DEF L
<1>3. Reads(f)
  <2>1. ASSUME NEW n \in 0..L
        PROVE  f[n] = IF n = 0 THEN held ELSE Press(f[n - 1], items[n])
    <3>1. f[n] = w[n]
      OBVIOUS
    <3>2. CASE n # 0
      <4>1. n \in 1..L /\ n - 1 \in 0..L
        BY <1>1, <3>2
      <4>2. f[n - 1] = w[n - 1]
        BY <4>1
      <4>3. w[n] = Press(w[n - 1], items[n])
        BY <1>2, <4>1, Zenon
      <4> HIDE DEF f
      <4> QED BY <3>1, <3>2, <4>2, <4>3, Zenon
    <3> HIDE DEF f
    <3> QED BY <3>1, <3>2, Zenon
  <2> QED BY <2>1, Zenon
<1>4. Reads(r)
  <2> HIDE DEF f, Reads
  <2> QED BY <1>3, Zenon
<1>5. After(held, items) = r[L]
  BY DEF After, L
<1> HIDE DEF r, f
<1>6. \A n \in 0..L : r[n] = IF n = 0 THEN held ELSE Press(r[n - 1], items[n])
  BY <1>4, Zenon
<1>7. r[0] = w[0]
  <2>1. 0 \in 0..L
    BY <1>1
  <2> QED BY <1>6, <2>1, Zenon
<1>8. \A n \in 1..L : r[n - 1] = w[n - 1] => r[n] = w[n]
  <2> TAKE n \in 1..L
  <2>1. n \in 0..L /\ n # 0
    BY <1>1
  <2> QED BY <1>2, <1>6, <2>1, Zenon
<1>9. \A n \in 0..L : r[n] = w[n]
  <2>1. StepAlike(r, w, L)
    BY <1>7, <1>8, Zenon DEF StepAlike
  <2> QED BY <1>1, <2>1, StepsAgree, Zenon
<1>10. L \in 0..L
  BY <1>1
<1> QED BY <1>5, <1>9, <1>10, Zenon DEF L

LEMMA AfterSteps ==
  ASSUME NEW items \in Seq(Item), NEW held \in Held
  PROVE  \E w \in [0..Len(items) -> Held] :
           /\ w[0] = held /\ \A n \in 1..Len(items) : w[n] = Press(w[n - 1], items[n])
           /\ After(held, items) = w[Len(items)]
<1> DEFINE L == Len(items)
           step == [n \in 1..L |-> [h \in Held |-> Press(h, items[n])]]
<1>1. L \in Nat /\ \A n \in 1..L : items[n] \in Item
  OBVIOUS
<1> HIDE DEF L
<1>2. step \in [1..L -> [Held -> Held]]
  <2>1. \A n \in 1..L : \A h \in Held : Press(h, items[n]) \in Held
    BY <1>1, PressTyped, Zenon
  <2> QED BY <2>1, Zenon
<1>3. PICK w \in [0..L -> Held] : w[0] = held /\ \A n \in 1..L : w[n] = step[n][w[n - 1]]
  <2> HIDE DEF step
  <2>1. held \in Held
    OBVIOUS
  <2>2. \E w \in [0..L -> Held] : Follows(w, L, held, step)
    BY <1>1, <1>2, <2>1, StepsExist, Zenon
  <2> QED BY <2>2, Zenon DEF Follows
<1>4. \A n \in 1..L : w[n] = Press(w[n - 1], items[n])
  <2> TAKE n \in 1..L
  <2>1. n - 1 \in 0..L
    BY <1>1
  <2>2. w[n - 1] \in Held
    BY <1>3, <2>1, Zenon
  <2>3. step[n][w[n - 1]] = Press(w[n - 1], items[n])
    BY <2>2, Zenon
  <2> QED BY <1>3, <2>3, Zenon
<1>5. After(held, items) = w[L]
  BY <1>3, <1>4, AfterIs, Zenon DEF L
<1> QED BY <1>3, <1>4, <1>5, Zenon DEF L

\* The motion in items, item by item.
LEMMA MotionIs ==
  ASSUME NEW items \in Seq(Item), NEW w, w[0] = 0,
         \A n \in 1..Len(items) : w[n] = w[n - 1] + items[n].moved
  PROVE  Motion(items) = w[Len(items)]
<1> DEFINE L == Len(items)
           Reads(f) == f = [n \in 0..L |-> IF n = 0 THEN 0 ELSE f[n - 1] + items[n].moved]
           f == [n \in 0..L |-> w[n]]
           r == CHOOSE g : Reads(g)
<1>1. L \in Nat
  OBVIOUS
<1>2. \A n \in 1..L : w[n] = w[n - 1] + items[n].moved
  OBVIOUS
<1> HIDE DEF L
<1>3. Reads(f)
  <2>1. ASSUME NEW n \in 0..L
        PROVE  f[n] = IF n = 0 THEN 0 ELSE f[n - 1] + items[n].moved
    <3>1. f[n] = w[n]
      OBVIOUS
    <3>2. CASE n # 0
      <4>1. n \in 1..L /\ n - 1 \in 0..L
        BY <1>1, <3>2
      <4>2. f[n - 1] = w[n - 1]
        BY <4>1
      <4>3. w[n] = w[n - 1] + items[n].moved
        BY <1>2, <4>1, Zenon
      <4> HIDE DEF f
      <4> QED BY <3>1, <3>2, <4>2, <4>3, Zenon
    <3> HIDE DEF f
    <3> QED BY <3>1, <3>2, Zenon
  <2> QED BY <2>1, Zenon
<1>4. Reads(r)
  <2> HIDE DEF f, Reads
  <2> QED BY <1>3, Zenon
<1>5. Motion(items) = r[L]
  BY DEF Motion, L
<1> HIDE DEF r, f
<1>6. \A n \in 0..L : r[n] = IF n = 0 THEN 0 ELSE r[n - 1] + items[n].moved
  BY <1>4, Zenon
<1>7. r[0] = w[0]
  <2>1. 0 \in 0..L
    BY <1>1
  <2> QED BY <1>6, <2>1, Zenon
<1>8. \A n \in 1..L : r[n - 1] = w[n - 1] => r[n] = w[n]
  <2> TAKE n \in 1..L
  <2>1. n \in 0..L /\ n # 0
    BY <1>1
  <2> QED BY <1>2, <1>6, <2>1, Zenon
<1>9. \A n \in 0..L : r[n] = w[n]
  <2>1. StepAlike(r, w, L)
    BY <1>7, <1>8, Zenon DEF StepAlike
  <2> QED BY <1>1, <2>1, StepsAgree, Zenon
<1>10. L \in 0..L
  BY <1>1
<1> QED BY <1>5, <1>9, <1>10, Zenon DEF L

LEMMA MotionSteps ==
  ASSUME NEW items \in Seq(Item)
  PROVE  \E w \in [0..Len(items) -> Nat] :
           /\ w[0] = 0 /\ \A n \in 1..Len(items) : w[n] = w[n - 1] + items[n].moved
           /\ Motion(items) = w[Len(items)]
<1> DEFINE L == Len(items)
           step == [n \in 1..L |-> [h \in Nat |-> h + items[n].moved]]
<1>1. L \in Nat /\ \A n \in 1..L : items[n] \in Item
  OBVIOUS
<1> HIDE DEF L
<1>2. step \in [1..L -> [Nat -> Nat]]
  <2>1. \A n \in 1..L : \A h \in Nat : h + items[n].moved \in Nat
    BY <1>1, MovedTyped, Zenon
  <2> QED BY <2>1, Zenon
<1>3. PICK w \in [0..L -> Nat] : w[0] = 0 /\ \A n \in 1..L : w[n] = step[n][w[n - 1]]
  <2> HIDE DEF step
  <2>1. 0 \in Nat
    OBVIOUS
  <2>2. \E w \in [0..L -> Nat] : Follows(w, L, 0, step)
    BY <1>1, <1>2, <2>1, StepsExist, Zenon
  <2> QED BY <2>2, Zenon DEF Follows
<1>4. \A n \in 1..L : w[n] = w[n - 1] + items[n].moved
  <2> TAKE n \in 1..L
  <2>1. n - 1 \in 0..L
    BY <1>1
  <2>2. w[n - 1] \in Nat
    BY <1>3, <2>1, Zenon
  <2>3. step[n][w[n - 1]] = w[n - 1] + items[n].moved
    BY <2>2, Zenon
  <2> QED BY <1>3, <2>3, Zenon
<1>5. Motion(items) = w[L]
  BY <1>3, <1>4, MotionIs, Zenon DEF L
<1> QED BY <1>3, <1>4, <1>5, Zenon DEF L

LEMMA AfterTyped ==
  ASSUME NEW items \in Seq(Item), NEW held \in Held
  PROVE  After(held, items) \in Held
<1>1. PICK w \in [0..Len(items) -> Held] : After(held, items) = w[Len(items)]
  BY AfterSteps, Zenon
<1>2. Len(items) \in 0..Len(items)
  OBVIOUS
<1> QED BY <1>1, <1>2, Zenon

LEMMA AfterNone == 
  ASSUME NEW held \in Held PROVE After(held, <<>>) = held
<1> DEFINE w == [n \in 0..0 |-> held]
           none == <<>>
<1>1. none \in Seq(Item) /\ Len(none) = 0
  OBVIOUS
<1>2. w[0] = held
  OBVIOUS
<1> HIDE DEF w, none
<1>3. \A n \in 1..Len(none) : w[n] = Press(w[n - 1], none[n])
  <2>1. 1..Len(none) = {}
    BY <1>1
  <2> QED BY <2>1, Zenon
<1>4. After(held, none) = w[Len(none)]
  BY <1>1, <1>2, <1>3, AfterIs, Zenon
<1> QED BY <1>1, <1>2, <1>4, Zenon DEF none

LEMMA AfterAppended ==
  ASSUME NEW items \in Seq(Item), NEW held \in Held, NEW item \in Item
  PROVE  After(held, Append(items, item)) = Press(After(held, items), item)
<1> DEFINE L == Len(items)
           new == Append(items, item)
<1>1. /\ L \in Nat /\ new \in Seq(Item) /\ Len(new) = L + 1 /\ new[L + 1] = item
      /\ \A n \in 1..L : new[n] = items[n]
  OBVIOUS
<1>2. PICK v \in [0..L -> Held] :
        /\ v[0] = held /\ \A n \in 1..L : v[n] = Press(v[n - 1], items[n])
        /\ After(held, items) = v[L]
  BY AfterSteps, Zenon
<1> HIDE DEF L, new
<1> DEFINE w == [n \in 0..(L + 1) |-> IF n <= L THEN v[n] ELSE Press(v[L], item)]
<1>3. /\ w[0] = v[0] /\ w[L + 1] = Press(v[L], item)
      /\ \A n \in 1..L : w[n] = v[n] /\ w[n - 1] = v[n - 1]
      /\ w[(L + 1) - 1] = v[L]
  BY <1>1
<1> HIDE DEF w
<1>4. ASSUME NEW n \in 1..Len(new) PROVE w[n] = Press(w[n - 1], new[n])
  <2>1. n \in 1..L \/ n = L + 1
    BY <1>1
  <2>2. CASE n \in 1..L
    BY <1>1, <1>2, <1>3, <2>2, Zenon
  <2>3. CASE n = L + 1
    BY <1>1, <1>3, <2>3, Zenon
  <2> QED BY <2>1, <2>2, <2>3, Zenon
<1>5. After(held, new) = w[Len(new)]
  <2>1. w[0] = held
    BY <1>2, <1>3, Zenon
  <2> QED BY <1>1, <1>4, <2>1, AfterIs, Zenon
<1>6. After(held, new) = Press(v[L], item)
  BY <1>1, <1>3, <1>5, Zenon
<1> QED BY <1>2, <1>6, Zenon DEF new

LEMMA AfterJoined ==
  ASSUME NEW a \in Seq(Item), NEW b \in Seq(Item), NEW held \in Held
  PROVE  After(held, a \o b) = After(After(held, a), b)
<1> DEFINE K == Len(a)
           L == Len(b)
           c == a \o b
           mid == After(held, a)
<1>1. K \in Nat /\ L \in Nat
  OBVIOUS
<1>2. c \in Seq(Item) /\ Len(c) = K + L /\ \A n \in 1..(K + L) : c[n] = IF n <= K THEN a[n] ELSE b[n - K]
  BY ConcatProperties
<1>3. PICK v \in [0..K -> Held] :
        /\ v[0] = held /\ \A n \in 1..K : v[n] = Press(v[n - 1], a[n])
        /\ mid = v[K]
  BY AfterSteps, Zenon
<1>4. PICK u \in [0..L -> Held] :
        /\ u[0] = mid /\ \A n \in 1..L : u[n] = Press(u[n - 1], b[n])
        /\ After(mid, b) = u[L]
  BY AfterSteps, AfterTyped, Zenon
<1> HIDE DEF K, L, c, mid
<1> DEFINE w == [n \in 0..(K + L) |-> IF n <= K THEN v[n] ELSE u[n - K]]
<1>5. /\ w[0] = v[0]
      /\ \A n \in 1..K : w[n] = v[n] /\ w[n - 1] = v[n - 1]
  BY <1>1
<1>6. \A n \in (K + 1)..(K + L) : w[n] = u[n - K] /\ (n # K + 1 => w[n - 1] = u[(n - 1) - K])
  BY <1>1
<1>7. w[K] = u[0]
  <2>1. w[K] = v[K] /\ K \in 0..K
    BY <1>1
  <2> HIDE DEF w
  <2>2. v[K] \in Held
    BY <1>3, <2>1, Zenon
  <2>3. mid \in Held /\ w[K] = mid /\ u[0] = mid
    BY <1>3, <1>4, <2>1, <2>2, Zenon
  <2> QED BY <2>3
<1>8. w[K + L] = u[L]
  <2>1. CASE L = 0
    BY <1>1, <1>7, <2>1
  <2>2. CASE L # 0
    <3>1. K + L \in (K + 1)..(K + L) /\ (K + L) - K = L
      BY <1>1, <2>2
    <3> HIDE DEF w
    <3> QED BY <1>6, <3>1
  <2> QED BY <2>1, <2>2
<1> HIDE DEF w
<1>9. ASSUME NEW n \in 1..Len(c) PROVE w[n] = Press(w[n - 1], c[n])
  <2>1. CASE n <= K
    <3>1. n \in 1..K /\ n \in 1..(K + L)
      BY <1>1, <1>2, <2>1
    <3>2. c[n] = a[n]
      BY <1>2, <2>1, <3>1, Zenon
    <3> QED BY <1>3, <1>5, <3>1, <3>2, Zenon
  <2>2. CASE n > K
    <3>1. /\ n \in (K + 1)..(K + L) /\ n - K \in 1..L /\ (n - 1) - K = (n - K) - 1 /\ ~(n <= K)
          /\ n \in 1..(K + L)
      BY <1>1, <1>2, <2>2
    <3>2. c[n] = b[n - K]
      BY <1>2, <3>1, Zenon
    <3>3. u[n - K] = Press(u[(n - K) - 1], b[n - K])
      BY <1>4, <3>1, Zenon
    <3>4. w[n - 1] = u[(n - K) - 1]
      <4>1. CASE n = K + 1
        <5>1. n - 1 = K /\ (n - K) - 1 = 0
          BY <1>1, <4>1
        <5> QED BY <1>7, <5>1
      <4>2. CASE n # K + 1
        BY <1>6, <3>1, <4>2
      <4> QED BY <4>1, <4>2
    <3>5. w[n] = u[n - K]
      BY <1>6, <3>1, Zenon
    <3> QED BY <3>2, <3>3, <3>4, <3>5, Zenon
  <2> QED BY <1>1, <1>2, <2>1, <2>2
<1>10. After(held, c) = w[Len(c)]
  <2>1. w[0] = held
    BY <1>3, <1>5, Zenon
  <2> QED BY <1>2, <1>9, <2>1, AfterIs, Zenon
<1>11. After(held, c) = w[K + L]
  BY <1>2, <1>10, Zenon
<1>12. After(held, c) = After(mid, b)
  BY <1>4, <1>8, <1>11, Zenon
<1> QED BY <1>12, Zenon DEF c, mid

LEMMA MotionTyped ==
  ASSUME NEW items \in Seq(Item)
  PROVE  Motion(items) \in Nat
<1>1. PICK w \in [0..Len(items) -> Nat] : Motion(items) = w[Len(items)]
  BY MotionSteps, Zenon
<1>2. Len(items) \in 0..Len(items)
  OBVIOUS
<1> QED BY <1>1, <1>2, Zenon

LEMMA MotionNone == Motion(<<>>) = 0
<1> DEFINE w == [n \in 0..0 |-> 0]
           none == <<>>
<1>1. none \in Seq(Item) /\ Len(none) = 0
  OBVIOUS
<1>2. w[0] = 0
  OBVIOUS
<1> HIDE DEF w, none
<1>3. \A n \in 1..Len(none) : w[n] = w[n - 1] + none[n].moved
  <2>1. 1..Len(none) = {}
    BY <1>1
  <2> QED BY <2>1, Zenon
<1>4. Motion(none) = w[Len(none)]
  BY <1>1, <1>2, <1>3, MotionIs, Zenon
<1> QED BY <1>1, <1>2, <1>4, Zenon DEF none

LEMMA MotionAppended ==
  ASSUME NEW items \in Seq(Item), NEW item \in Item
  PROVE  Motion(Append(items, item)) = Motion(items) + item.moved
<1> DEFINE L == Len(items)
           new == Append(items, item)
<1>1. /\ L \in Nat /\ new \in Seq(Item) /\ Len(new) = L + 1 /\ new[L + 1] = item
      /\ \A n \in 1..L : new[n] = items[n]
  OBVIOUS
<1>2. PICK v \in [0..L -> Nat] :
        /\ v[0] = 0 /\ \A n \in 1..L : v[n] = v[n - 1] + items[n].moved
        /\ Motion(items) = v[L]
  BY MotionSteps, Zenon
<1> HIDE DEF L, new
<1> DEFINE w == [n \in 0..(L + 1) |-> IF n <= L THEN v[n] ELSE v[L] + item.moved]
<1>3. /\ w[0] = v[0] /\ w[L + 1] = v[L] + item.moved
      /\ \A n \in 1..L : w[n] = v[n] /\ w[n - 1] = v[n - 1]
      /\ w[(L + 1) - 1] = v[L]
  BY <1>1
<1> HIDE DEF w
<1>4. ASSUME NEW n \in 1..Len(new) PROVE w[n] = w[n - 1] + new[n].moved
  <2>1. n \in 1..L \/ n = L + 1
    BY <1>1
  <2>2. CASE n \in 1..L
    BY <1>1, <1>2, <1>3, <2>2, Zenon
  <2>3. CASE n = L + 1
    BY <1>1, <1>3, <2>3, Zenon
  <2> QED BY <2>1, <2>2, <2>3, Zenon
<1>5. Motion(new) = w[Len(new)]
  <2>1. w[0] = 0
    BY <1>2, <1>3, Zenon
  <2> QED BY <1>1, <1>4, <2>1, MotionIs, Zenon
<1>6. Motion(new) = v[L] + item.moved
  BY <1>1, <1>3, <1>5, Zenon
<1> QED BY <1>2, <1>6, Zenon DEF new

LEMMA MotionJoined ==
  ASSUME NEW a \in Seq(Item), NEW b \in Seq(Item)
  PROVE  Motion(a \o b) = Motion(a) + Motion(b)
<1> DEFINE K == Len(a)
           L == Len(b)
           c == a \o b
           mid == Motion(a)
<1>1. K \in Nat /\ L \in Nat
  OBVIOUS
<1>2. c \in Seq(Item) /\ Len(c) = K + L /\ \A n \in 1..(K + L) : c[n] = IF n <= K THEN a[n] ELSE b[n - K]
  BY ConcatProperties
<1>3. PICK v \in [0..K -> Nat] :
        /\ v[0] = 0 /\ \A n \in 1..K : v[n] = v[n - 1] + a[n].moved
        /\ mid = v[K]
  BY MotionSteps, Zenon
<1>4. PICK u \in [0..L -> Nat] :
        /\ u[0] = 0 /\ \A n \in 1..L : u[n] = u[n - 1] + b[n].moved
        /\ Motion(b) = u[L]
  BY MotionSteps, MotionTyped, Zenon
<1> HIDE DEF K, L, c, mid
<1> DEFINE w == [n \in 0..(K + L) |-> IF n <= K THEN v[n] ELSE mid + u[n - K]]
<1>5. /\ w[0] = v[0]
      /\ \A n \in 1..K : w[n] = v[n] /\ w[n - 1] = v[n - 1]
  BY <1>1
<1>6. \A n \in (K + 1)..(K + L) : w[n] = mid + u[n - K] /\ (n # K + 1 => w[n - 1] = mid + u[(n - 1) - K])
  BY <1>1
<1>7. w[K] = mid + u[0]
  <2>1. w[K] = v[K] /\ K \in 0..K
    BY <1>1
  <2> HIDE DEF w
  <2>2. v[K] \in Nat
    BY <1>3, <2>1, Zenon
  <2>3. mid \in Nat /\ w[K] = mid /\ u[0] = 0
    BY <1>3, <1>4, <2>1, <2>2, Zenon
  <2> QED BY <2>3
<1>8. w[K + L] = mid + u[L]
  <2>1. CASE L = 0
    BY <1>1, <1>7, <2>1
  <2>2. CASE L # 0
    <3>1. K + L \in (K + 1)..(K + L) /\ (K + L) - K = L
      BY <1>1, <2>2
    <3> HIDE DEF w
    <3> QED BY <1>6, <3>1
  <2> QED BY <2>1, <2>2
<1> HIDE DEF w
<1>9. ASSUME NEW n \in 1..Len(c) PROVE w[n] = w[n - 1] + c[n].moved
  <2>1. CASE n <= K
    <3>1. n \in 1..K /\ n \in 1..(K + L)
      BY <1>1, <1>2, <2>1
    <3>2. c[n] = a[n]
      BY <1>2, <2>1, <3>1, Zenon
    <3> QED BY <1>3, <1>5, <3>1, <3>2, Zenon
  <2>2. CASE n > K
    <3>1. /\ n \in (K + 1)..(K + L) /\ n - K \in 1..L /\ (n - 1) - K = (n - K) - 1 /\ ~(n <= K)
          /\ n \in 1..(K + L)
      BY <1>1, <1>2, <2>2
    <3>2. c[n] = b[n - K]
      BY <1>2, <3>1, Zenon
    <3>3. u[n - K] = u[(n - K) - 1] + b[n - K].moved
      BY <1>4, <3>1, Zenon
    <3>4. w[n - 1] = mid + u[(n - K) - 1]
      <4>1. CASE n = K + 1
        <5>1. n - 1 = K /\ (n - K) - 1 = 0
          BY <1>1, <4>1
        <5> QED BY <1>7, <5>1
      <4>2. CASE n # K + 1
        BY <1>6, <3>1, <4>2
      <4> QED BY <4>1, <4>2
    <3>5. w[n] = mid + u[n - K]
      BY <1>6, <3>1, Zenon
    <3>6. mid \in Nat /\ u[(n - K) - 1] \in Nat /\ c[n].moved \in Nat
      <4>1. (n - K) - 1 \in 0..L /\ K \in 0..K
        BY <1>1, <3>1
      <4>2. c[n] \in Item
        BY <1>2
      <4>3. v[K] \in Nat /\ u[(n - K) - 1] \in Nat
        BY <4>1, Zenon
      <4>4. c[n].moved \in Nat
        BY <4>2 DEF Item
      <4> QED BY <1>3, <4>3, <4>4, Zenon
    <3> QED BY <3>2, <3>3, <3>4, <3>5, <3>6
  <2> QED BY <1>1, <1>2, <2>1, <2>2
<1>10. Motion(c) = w[Len(c)]
  <2>1. w[0] = 0
    BY <1>3, <1>5, Zenon
  <2> QED BY <1>2, <1>9, <2>1, MotionIs, Zenon
<1>11. Motion(c) = w[K + L]
  BY <1>2, <1>10, Zenon
<1>12. Motion(c) = mid + Motion(b)
  BY <1>4, <1>8, <1>11, Zenon
<1> QED BY <1>12, Zenon DEF c, mid

\* Folding changes the motion of the last item, and nothing else.
LEMMA FoldedInto ==
  ASSUME NEW items \in Seq(Item), items # <<>>, NEW item \in Item
  PROVE  \E front \in Seq(Item), last \in Item, new \in Item :
           /\ items = Append(front, last) /\ Folded(items, item) = Append(front, new)
           /\ new.kind = last.kind /\ new.key = last.key /\ new.down = last.down
           /\ new.moved = last.moved + item.moved
<1> DEFINE last == items[Len(items)]
           new == [last EXCEPT !.moved = last.moved + item.moved]
<1>1. last \in Item
  <2>1. Len(items) \in 1..Len(items)
    <3>1. Len(items) \in Nat /\ Len(items) # 0
      BY NoLength
    <3> QED BY <3>1
  <2> QED BY <2>1
<1>2. /\ new \in Item /\ new.kind = last.kind /\ new.key = last.key /\ new.down = last.down
      /\ new.moved = last.moved + item.moved
  <2> HIDE DEF last
  <2> QED BY <1>1 DEF Item
<1>3. Folded(items, item) = LastPut(items, new)
  BY DEF Folded, LastPut
<1> HIDE DEF new
<1>4. PICK front \in Seq(Item) :
        items = Append(front, last) /\ LastPut(items, new) = Append(front, new)
  <2>1. new \in Item
    BY <1>2, Zenon
  <2>2. \E front \in Seq(Item) : Precedes(front, items, new)
    BY <2>1, LastReplaced, Zenon
  <2> QED BY <2>2, Zenon DEF Precedes, last
<1>5. Folded(items, item) = Append(front, new) /\ items = Append(front, last)
  BY <1>3, <1>4, Zenon
<1> HIDE DEF last
<1> QED BY <1>1, <1>2, <1>5, Zenon

LEMMA FoldedItems ==
  ASSUME NEW items \in Seq(Item), items # <<>>, NEW item \in Item
  PROVE  /\ Folded(items, item) \in Seq(Item)
         /\ \A held \in Held : After(held, Folded(items, item)) = After(held, items)
         /\ Motion(Folded(items, item)) = Motion(items) + item.moved
<1>1. PICK front \in Seq(Item), last \in Item, new \in Item :
           /\ items = Append(front, last) /\ Folded(items, item) = Append(front, new)
           /\ new.kind = last.kind /\ new.key = last.key /\ new.down = last.down
           /\ new.moved = last.moved + item.moved
  BY FoldedInto, Zenon
<1>2. last.moved \in Nat /\ item.moved \in Nat
  BY DEF Item
<1>3. \A held : Press(held, new) = Press(held, last)
  BY <1>1, Zenon DEF Press
<1>4. Append(front, new) \in Seq(Item)
  OBVIOUS
<1>5. ASSUME NEW held \in Held PROVE After(held, Folded(items, item)) = After(held, items)
  <2>1. After(held, Append(front, new)) = Press(After(held, front), new)
    BY AfterAppended, Zenon
  <2>2. After(held, Append(front, last)) = Press(After(held, front), last)
    BY AfterAppended, Zenon
  <2> QED BY <1>1, <1>3, <2>1, <2>2, Zenon
<1>6. Motion(Folded(items, item)) = Motion(items) + item.moved
  <2>1. Motion(Append(front, new)) = Motion(front) + new.moved
        /\ Motion(Append(front, last)) = Motion(front) + last.moved /\ Motion(front) \in Nat
    BY MotionAppended, MotionTyped, Zenon
  <2>2. Motion(front) + new.moved = (Motion(front) + last.moved) + item.moved
    BY <1>1, <1>2, <2>1
  <2> QED BY <1>1, <2>1, <2>2, Zenon
<1> QED BY <1>1, <1>4, <1>5, <1>6, Zenon

LEMMA TogglesTyped ==
  ASSUME NEW items \in Seq(Item) PROVE TogglesOf(items) \in Seq(Item)
<1>1. DOMAIN items = 1..Len(items) /\ Len(items) \in Nat /\ \A n \in 1..Len(items) : items[n] \in Item
  OBVIOUS
<1>2. Nothing \in Item
  BY DEF Nothing, Item
<1>3. TogglesOf(items) \in [1..Len(items) -> Item]
  BY <1>1, <1>2, Zenon DEF TogglesOf
<1> QED BY <1>1, <1>3

-----------------------------------------------------------------------------
(* The order of the edges, and the motion                                  *)

\* A batch lives from the swap to its application only; that and the properties
\* themselves are inductive.
BatchInv ==
  /\ live_inbox \in Seq(Item) /\ live_batch \in Seq(Item) /\ live_held \in Held
  /\ todo \in [Callers -> Item]
  /\ accepted \in Int /\ sent \in Int /\ spoiled \in Int
  /\ pc # "apply" => live_batch = <<>>

LiveInv == BatchInv /\ EdgesKeepOrder /\ MotionIsSentOnce

\* What waits, and what it amounts to.
LEMMA Waiting ==
  ASSUME NEW held \in Held, NEW swapped \in Seq(Item), NEW inbox \in Seq(Item)
  PROVE  /\ After(held, swapped \o inbox) = After(After(held, swapped), inbox)
         /\ Motion(swapped \o inbox) = Motion(swapped) + Motion(inbox)
         /\ After(held, swapped) \in Held
         /\ Motion(swapped) \in Nat /\ Motion(inbox) \in Nat
  BY AfterJoined, MotionJoined, AfterTyped, MotionTyped, Zenon

LEMMA LiveInvInit == Init => LiveInv
<1> SUFFICES ASSUME Init PROVE LiveInv
  OBVIOUS
<1>1. /\ live_inbox = <<>> /\ live_batch = <<>> /\ live_held = {} /\ wanted = {}
      /\ accepted = 0 /\ sent = 0 /\ spoiled = 0 /\ todo = [c \in Callers |-> Nothing]
  BY DEF Init
<1>2. Nothing \in Item /\ {} \in Held
  BY DEF Nothing, Item, Held
<1>3. BatchInv
  <2>1. todo \in [Callers -> Item]
    BY <1>1, <1>2, Zenon
  <2> QED BY <1>1, <1>2, <2>1 DEF BatchInv
<1>4. live_batch \o live_inbox = <<>>
  BY <1>1, <1>3
<1>5. EdgesKeepOrder
  BY <1>1, <1>2, <1>4, AfterNone, Zenon DEF EdgesKeepOrder
<1>6. MotionIsSentOnce
  BY <1>1, <1>4, MotionNone DEF MotionIsSentOnce
<1> QED BY <1>3, <1>5, <1>6, Zenon DEF LiveInv

\* Steps that neither bring nor send anything.
LEMMA NothingMoved ==
  ASSUME LiveInv, todo' \in [Callers -> Item], devices' => devices,
         UNCHANGED <<live_inbox, live_batch, live_held, wanted, accepted, sent, spoiled>>,
         pc = "apply" => pc' = "apply"
  PROVE  LiveInv'
<1>1. /\ live_inbox' = live_inbox /\ live_batch' = live_batch /\ live_held' = live_held
      /\ wanted' = wanted /\ accepted' = accepted /\ sent' = sent /\ spoiled' = spoiled
  OBVIOUS
<1> QED BY <1>1, Zenon DEF LiveInv, BatchInv, EdgesKeepOrder, MotionIsSentOnce

LEMMA BroughtTyped == Inputs \subseteq Item /\ Nothing \in Item
<1>1. Edges \subseteq Item /\ Usages \subseteq Item
  BY DEF Edges, Usages, Item
<1>2. ASSUME NEW item \in Moves PROVE item \in Item
  <2> DEFINE all == Keys \union Toggles \union {"none"}
             kinds == {"edge", "toggle", "move", "wheel"}
  <2>1. {"move", "wheel"} \subseteq kinds /\ {"none"} \subseteq all
        /\ {FALSE} \subseteq BOOLEAN /\ {1} \subseteq Nat
    OBVIOUS
  <2> HIDE DEF all, kinds
  <2>2. item \in [kind : kinds, key : all, down : BOOLEAN, moved : Nat]
    BY <2>1 DEF Moves
  <2> QED BY <2>2 DEF all, kinds, Item
<1>3. Nothing \in Item
  BY DEF Nothing, Item
<1> QED BY <1>1, <1>2, <1>3 DEF Inputs

LEMMA NewCallsKeepLiveInv ==
  ASSUME LiveInv, NEW c \in Callers, NewCall(c)
  PROVE  LiveInv'
<1>1. todo' \in [Callers -> Item]
  <2>1. todo \in [Callers -> Item]
    BY DEF LiveInv, BatchInv
  <2>2. CASE \E item \in Inputs : Input(c, item)
    <3>1. PICK item \in Inputs : todo' = [todo EXCEPT ![c] = item]
      BY <2>2 DEF Input
    <3>2. item \in Item
      BY BroughtTyped
    <3> QED BY <2>1, <3>1, <3>2
  <2>3. CASE LiveStart(c) \/ LiveStop(c) \/ Play(c) \/ CancelPlay(c)
    BY <2>1, <2>3 DEF LiveStart, LiveStop, Play, CancelPlay
  <2> QED BY <2>2, <2>3 DEF NewCall
<1>2. UNCHANGED <<live_inbox, live_batch, live_held, devices, pc, wanted, accepted, sent, spoiled>>
  BY DEF NewCall, Input, LiveStart, LiveStop, Play, CancelPlay, locked, worker, history
<1> QED BY <1>1, <1>2, NothingMoved

\* The inbox takes an item in: what it leaves held and moved is what the item
\* does to what the inbox did, folded or not.
LEMMA TakenIn ==
  ASSUME NEW inbox \in Seq(Item), NEW item \in Item, NEW new,
         \/ inbox # <<>> /\ Folds(Last(inbox), item) /\ new = Folded(inbox, item)
         \/ new = Append(inbox, item)
  PROVE  /\ new \in Seq(Item) /\ Motion(new) = Motion(inbox) + item.moved
         /\ \A held \in Held : After(held, new) = Press(After(held, inbox), item)
<1>1. CASE inbox # <<>> /\ Folds(Last(inbox), item) /\ new = Folded(inbox, item)
  <2>1. item.kind \notin {"edge", "toggle"}
    BY <1>1 DEF Folds
  <2>2. \A held : Press(held, item) = held
    BY <2>1, Zenon DEF Press
  <2> QED BY <1>1, <2>2, FoldedItems, Zenon
<1>2. CASE new = Append(inbox, item)
  <2>1. new \in Seq(Item)
    BY <1>2
  <2> QED BY <1>2, <2>1, AfterAppended, MotionAppended, Zenon
<1> QED BY <1>1, <1>2

LEMMA PushKeepsLiveInv ==
  ASSUME LiveInv, NEW c \in Callers, Push(c)
  PROVE  LiveInv'
<1> DEFINE item == todo[c]
           kept == After(live_held, live_batch)
<1>1. /\ live_held \in Held /\ live_batch \in Seq(Item) /\ live_inbox \in Seq(Item)
      /\ todo \in [Callers -> Item] /\ accepted \in Int /\ sent \in Int /\ spoiled \in Int
      /\ (pc # "apply" => live_batch = <<>>)
  BY DEF LiveInv, BatchInv
<1>2. item \in Item
  BY <1>1
<1>3. /\ UNCHANGED <<live_held, live_batch, devices, pc, sent, spoiled>>
      /\ todo' = [todo EXCEPT ![c] = Nothing]
      /\ wanted' = Press(wanted, item) /\ accepted' = accepted + item.moved
  BY DEF Push, Accept, Continue, worker
<1>4. \/ live_inbox # <<>> /\ Folds(Last(live_inbox), item) /\ live_inbox' = Folded(live_inbox, item)
      \/ live_inbox' = Append(live_inbox, item)
  <2>1. live_inbox' = IF CanFold(item) THEN Folded(live_inbox, item) ELSE Append(live_inbox, item)
    BY DEF Push, Accept
  <2> QED BY <2>1, Zenon DEF CanFold
<1> HIDE DEF item
<1>5. /\ live_inbox' \in Seq(Item) /\ Motion(live_inbox') = Motion(live_inbox) + item.moved
      /\ \A held \in Held : After(held, live_inbox') = Press(After(held, live_inbox), item)
  BY <1>1, <1>2, <1>4, TakenIn, Zenon
<1>6. BatchInv'
  <2>1. todo' \in [Callers -> Item]
    BY <1>1, <1>3, BroughtTyped
  <2>2. item.moved \in Int
    BY <1>2 DEF Item
  <2>3. accepted' \in Int
    BY <1>1, <1>3, <2>2
  <2> QED BY <1>1, <1>3, <1>5, <2>1, <2>3 DEF BatchInv
<1>7. /\ After(live_held, live_batch \o live_inbox) = After(kept, live_inbox)
      /\ After(live_held, live_batch \o live_inbox') = After(kept, live_inbox')
      /\ kept \in Held
  BY <1>1, <1>5, Waiting, Zenon
<1>8. /\ Motion(live_batch \o live_inbox) = Motion(live_batch) + Motion(live_inbox)
      /\ Motion(live_batch \o live_inbox') = Motion(live_batch) + Motion(live_inbox')
      /\ Motion(live_batch) \in Nat /\ Motion(live_inbox) \in Nat
  BY <1>1, <1>5, Waiting, Zenon
<1> HIDE DEF kept
<1>9. EdgesKeepOrder'
  <2>1. devices => After(kept, live_inbox) = wanted
    BY <1>7, Zenon DEF LiveInv, EdgesKeepOrder
  <2>2. devices' => After(live_held, live_batch \o live_inbox') = wanted'
    BY <1>3, <1>5, <1>7, <2>1, Zenon
  <2>3. live_held' = live_held /\ live_batch' = live_batch
    BY <1>3
  <2> QED BY <2>2, <2>3, Zenon DEF EdgesKeepOrder
<1>10. MotionIsSentOnce'
  <2>1. sent + spoiled + Motion(live_batch \o live_inbox) = accepted
    BY DEF LiveInv, MotionIsSentOnce
  <2>2. item.moved \in Nat
    BY <1>2 DEF Item
  <2>3. sent + spoiled + Motion(live_batch \o live_inbox') = accepted + item.moved
    <3> DEFINE b == Motion(live_batch)
               i == Motion(live_inbox)
               m == item.moved
    <3>1. sent + spoiled + (b + i) = accepted
      BY <1>8, <2>1, Zenon
    <3>2. Motion(live_batch \o live_inbox') = b + (i + m)
      BY <1>5, <1>8, Zenon
    <3>3. b \in Nat /\ i \in Nat /\ m \in Nat
      BY <1>8, <2>2
    <3> HIDE DEF b, i, m
    <3>4. sent + spoiled + (b + (i + m)) = accepted + m
      BY <1>1, <3>1, <3>3
    <3> QED BY <3>2, <3>4, Zenon DEF m
  <2>4. UNCHANGED <<sent, spoiled, live_batch>> /\ accepted' = accepted + item.moved
    BY <1>3
  <2> QED BY <2>3, <2>4 DEF MotionIsSentOnce
<1> QED BY <1>6, <1>9, <1>10, Zenon DEF LiveInv

\* live_start() clears the inbox: what is accepted is what is on its way.
LEMMA ResetKeepsLiveInv ==
  ASSUME LiveInv, NEW c \in Callers, LiveReset(c)
  PROVE  LiveInv'
<1>1. /\ live_held \in Held /\ live_batch \in Seq(Item) /\ live_inbox \in Seq(Item)
      /\ todo \in [Callers -> Item] /\ accepted \in Int /\ sent \in Int /\ spoiled \in Int
      /\ (pc # "apply" => live_batch = <<>>)
  BY DEF LiveInv, BatchInv
<1>2. /\ UNCHANGED <<live_held, live_batch, devices, pc, sent, spoiled>>
      /\ todo' = [todo EXCEPT ![c] = Nothing] /\ live_inbox' = <<>>
      /\ wanted' = After(live_held, live_batch)
      /\ accepted' = sent + spoiled + Motion(live_batch)
  BY DEF LiveReset, Continue, worker
<1>3. Motion(live_batch) \in Nat
  BY <1>1, MotionTyped, Zenon
<1>4. BatchInv'
  <2>1. todo' \in [Callers -> Item]
    BY <1>1, <1>2, BroughtTyped
  <2>2. accepted' \in Int
    BY <1>1, <1>2, <1>3
  <2> QED BY <1>1, <1>2, <2>1, <2>2 DEF BatchInv
<1>5. live_batch' \o live_inbox' = live_batch
  BY <1>1, <1>2
<1>6. EdgesKeepOrder'
  BY <1>2, <1>5, Zenon DEF EdgesKeepOrder
<1>7. MotionIsSentOnce'
  BY <1>2, <1>5, Zenon DEF MotionIsSentOnce
<1> QED BY <1>4, <1>6, <1>7, Zenon DEF LiveInv

LEMMA FinishedCallsKeepLiveInv ==
  ASSUME LiveInv, NEW c \in Callers, FinishCall(c)
  PROVE  LiveInv'
<1>1. CASE Refuse(c) \/ Pend(c) \/ Notify(c) \/ LiveOn(c) \/ LivePush(c) \/ LiveClear(c)
  <2>1. todo' = [todo EXCEPT ![c] = Nothing]
    BY <1>1 DEF Refuse, Pend, Notify, LiveOn, LivePush, LiveClear, Continue
  <2>2. todo' \in [Callers -> Item]
    BY <2>1, BroughtTyped DEF LiveInv, BatchInv
  <2>3. UNCHANGED <<live_inbox, live_batch, live_held, devices, wanted, accepted, sent, spoiled>>
    BY <1>1 DEF Refuse, Pend, Notify, LiveOn, LivePush, LiveClear, locked, worker, history
  <2>4. pc = "apply" => pc' = "apply"
    BY <1>1 DEF Refuse, Pend, Notify, LiveOn, LivePush, LiveClear, worker
  <2> QED BY <2>2, <2>3, <2>4, NothingMoved
<1> QED BY <1>1, PushKeepsLiveInv, ResetKeepsLiveInv DEF FinishCall

\* Releases change what is held, and the edges that are wanted.
LEMMA ReleasesKeepLiveInv ==
  ASSUME LiveInv, PumpOff \/ Release
  PROVE  LiveInv'
<1>1. /\ live_held \in Held /\ live_batch = <<>> /\ live_inbox \in Seq(Item)
      /\ todo \in [Callers -> Item] /\ accepted \in Int /\ sent \in Int /\ spoiled \in Int
  BY DEF LiveInv, BatchInv, PumpOff, Release, Return, Goto
<1>2. /\ UNCHANGED <<live_inbox, live_batch, devices, todo, accepted, sent, spoiled>>
      /\ live_held' = Released /\ wanted' = After(Released, live_inbox)
  BY DEF PumpOff, Release, Return, Goto, callers, locked
<1>3. Released \in Held
  BY <1>1 DEF Released, Held
<1>4. BatchInv'
  BY <1>1, <1>2, <1>3 DEF BatchInv
<1>5. live_batch' \o live_inbox' = live_inbox
  BY <1>1, <1>2
<1>6. EdgesKeepOrder'
  BY <1>2, <1>5, Zenon DEF EdgesKeepOrder
<1>7. MotionIsSentOnce'
  <2>1. live_batch' \o live_inbox' = live_batch \o live_inbox
    BY <1>2
  <2> QED BY <1>2, <2>1, Zenon DEF LiveInv, MotionIsSentOnce
<1> QED BY <1>4, <1>6, <1>7, Zenon DEF LiveInv

\* The inbox becomes the batch: there is no other.
LEMMA SwapKeepsLiveInv ==
  ASSUME LiveInv, Swap
  PROVE  LiveInv'
<1>1. live_batch = <<>> /\ live_inbox \in Seq(Item) /\ pc' = "apply"
  BY DEF LiveInv, BatchInv, Swap, Goto
<1>2. /\ UNCHANGED <<live_held, devices, todo, wanted, accepted, sent, spoiled>>
      /\ live_batch' = live_inbox /\ live_inbox' = <<>>
  BY DEF Swap, Goto, callers, history
<1>3. BatchInv'
  BY <1>1, <1>2 DEF LiveInv, BatchInv
<1>4. live_batch' \o live_inbox' = live_batch \o live_inbox
  BY <1>1, <1>2
<1>5. EdgesKeepOrder'
  BY <1>2, <1>4, Zenon DEF LiveInv, EdgesKeepOrder
<1>6. MotionIsSentOnce'
  BY <1>2, <1>4, Zenon DEF LiveInv, MotionIsSentOnce
<1> QED BY <1>3, <1>5, <1>6, Zenon DEF LiveInv

\* The batch is applied, and what its toggles carry is lost.
LEMMA ApplyKeepsLiveInv ==
  ASSUME LiveInv, Apply
  PROVE  LiveInv'
<1> DEFINE lost == Motion(TogglesOf(live_batch))
           b == Motion(live_batch)
           i == Motion(live_inbox)
<1>1. /\ live_held \in Held /\ live_batch \in Seq(Item) /\ live_inbox \in Seq(Item)
      /\ todo \in [Callers -> Item] /\ accepted \in Int /\ sent \in Int /\ spoiled \in Int
  BY DEF LiveInv, BatchInv
<1>2. /\ UNCHANGED <<live_inbox, devices, todo, accepted>>
      /\ live_batch' = <<>> /\ sent' = sent + b - lost /\ spoiled' = spoiled + lost
      /\ live_held' = IF devices THEN After(live_held, live_batch) ELSE live_held
      /\ wanted' = IF devices THEN wanted ELSE After(live_held, live_inbox)
  BY DEF Apply, ApplyBatch, Goto, callers, locked
<1>3. lost \in Nat /\ b \in Nat /\ i \in Nat
  BY <1>1, TogglesTyped, MotionTyped, Zenon
<1>4. /\ After(live_held, live_batch \o live_inbox) = After(After(live_held, live_batch), live_inbox)
      /\ Motion(live_batch \o live_inbox) = b + i /\ After(live_held, live_batch) \in Held
  BY <1>1, Waiting, Zenon
<1> HIDE DEF lost, b, i
<1>5. live_held' \in Held
  BY <1>1, <1>2, <1>4
<1>6. sent' \in Int /\ spoiled' \in Int
  BY <1>1, <1>2, <1>3
<1>7. BatchInv'
  BY <1>1, <1>2, <1>5, <1>6 DEF BatchInv
<1>8. live_batch' \o live_inbox' = live_inbox
  BY <1>1, <1>2
<1>9. EdgesKeepOrder'
  <2>1. devices => After(After(live_held, live_batch), live_inbox) = wanted
    BY <1>4, Zenon DEF LiveInv, EdgesKeepOrder
  <2>2. devices => live_held' = After(live_held, live_batch) /\ wanted' = wanted
    BY <1>2, Zenon
  <2>3. devices' = devices
    BY <1>2
  <2> QED BY <1>8, <2>1, <2>2, <2>3, Zenon DEF EdgesKeepOrder
<1>10. MotionIsSentOnce'
  <2>1. sent + spoiled + (b + i) = accepted
    BY <1>4, Zenon DEF LiveInv, MotionIsSentOnce
  <2>2. sent' + spoiled' + i = accepted
    BY <1>1, <1>2, <1>3, <2>1
  <2>3. Motion(live_batch' \o live_inbox') = i /\ accepted' = accepted
    BY <1>2, <1>8, Zenon DEF i
  <2> QED BY <2>2, <2>3, Zenon DEF MotionIsSentOnce
<1> QED BY <1>7, <1>9, <1>10, Zenon DEF LiveInv

LEMMA WorkerKeepsLiveInv ==
  ASSUME LiveInv, Worker \/ PlayEnds \/ Lose
  PROVE  LiveInv'
<1>1. CASE Take \/ Check \/ Block \/ PlayPumps \/ PlayEnds \/ PumpOn \/ Exchange \/ Flush
           \/ LiveOff \/ FinishRun
  <2>1. UNCHANGED <<live_inbox, live_batch, live_held, devices, wanted, accepted, sent, spoiled>>
    BY <1>1 DEF Take, Check, Block, PlayPumps, PlayEnds, PumpOn, Exchange, Flush, LiveOff,
                FinishRun, locked, history
  <2>2. pc # "apply" /\ UNCHANGED callers
    BY <1>1 DEF Take, Check, Block, PlayPumps, PlayEnds, PumpOn, Exchange, Flush, LiveOff,
                FinishRun, Return, Goto
  <2>3. todo' \in [Callers -> Item]
    BY <2>2 DEF LiveInv, BatchInv, callers
  <2> QED BY <2>1, <2>2, <2>3, NothingMoved
<1>2. CASE Lose
  <2>1. UNCHANGED <<live_inbox, live_batch, live_held, pc, wanted, accepted, sent, spoiled>>
    BY <1>2 DEF Lose, locked, history
  <2>2. todo' \in [Callers -> Item] /\ (devices' => devices)
    BY <1>2 DEF Lose, callers, LiveInv, BatchInv
  <2> QED BY <2>1, <2>2, NothingMoved
<1> QED BY <1>1, <1>2, ReleasesKeepLiveInv, SwapKeepsLiveInv, ApplyKeepsLiveInv DEF Worker

LEMMA StepsKeepLiveInv == LiveInv /\ [Next]_vars => LiveInv'
<1> SUFFICES ASSUME LiveInv, [Next]_vars PROVE LiveInv'
  OBVIOUS
<1>1. CASE UNCHANGED vars
  <2>1. /\ UNCHANGED <<live_inbox, live_batch, live_held, devices, pc, todo>>
        /\ UNCHANGED <<wanted, accepted, sent, spoiled>>
    BY <1>1 DEF vars, locked, worker, callers, history
  <2> QED BY <2>1, NothingMoved DEF LiveInv, BatchInv
<1>2. CASE Next
  BY <1>2, NewCallsKeepLiveInv, FinishedCallsKeepLiveInv, WorkerKeepsLiveInv DEF Next
<1> QED BY <1>1, <1>2

\* While a device is left, what the devices hold, with what the batch and the
\* inbox still bring, is what the accepted presses and releases ask for: no
\* fold, drain, release or restart reorders or loses an edge.
\* (Engine::live_send, pump_live, live_release_all.)
THEOREM EdgesAreInOrder == Spec => []EdgesKeepOrder
<1>1. LiveInv => EdgesKeepOrder
  BY DEF LiveInv
<1> QED BY <1>1, LiveInvInit, StepsKeepLiveInv, PTL DEF Spec

\* Motion that was accepted is sent, on its way, or went into a toggle: none is
\* sent twice or dropped with the mutex let go between the drain and the send.
\* (Engine::live_send and pump_live.)
THEOREM MotionIsConserved == Spec => []MotionIsSentOnce
<1>1. LiveInv => MotionIsSentOnce
  BY DEF LiveInv
<1> QED BY <1>1, LiveInvInit, StepsKeepLiveInv, PTL DEF Spec

-----------------------------------------------------------------------------
(* Requests to the window's thread                                         *)

\* A call is in the batch that is run.
InBatch(c) == \E n \in DOMAIN batch : batch[n] = c

\* The types of what the callers keep.
CallTypes ==
  [pc : {"idle", "waking", "waiting", "expired", "taken", "answered"}, kind : Kinds,
   reply : {"none"} \union Replies]

\* The types of what the queue and the window keep.
DeskTypes ==
  /\ call \in [Threads -> CallTypes]
  /\ ui_requests \in Seq(Threads) /\ batch \in Seq(Threads)

\* A request is in the queue or in the batch, in one place of it, as long as its caller
\* waits without an answer, and nowhere else; what ran was answered so.
Placed(c) ==
  /\ Queued(c) \/ InBatch(c) => call[c].reply = "none"
  /\ Queued(c) => ~InBatch(c) /\ call[c].pc \in {"waking", "waiting", "expired"}
  /\ call[c].pc \in {"waking", "waiting", "expired", "taken"} /\ call[c].reply = "none"
       => Queued(c) \/ InBatch(c)
  /\ InBatch(c) => call[c].pc \in {"waking", "waiting", "expired", "taken"}
  /\ call[c].pc = "idle" => call[c].reply = "none"
  /\ c \in ran <=> call[c].reply = "done"

\* The invariant of the queue.
RequestInv ==
  /\ DeskTypes
  /\ NoTwice(ui_requests) /\ NoTwice(batch)
  /\ batch # <<>> => loop = "answering"
  /\ \A c \in Threads : Placed(c)

\* A caller that has woken the loop finds it awake, or its event there or taken elsewhere.
WakeInv ==
  /\ \A c \in Threads :
       Queued(c) /\ call[c].pc # "waking" => event \/ swallowed \/ loop \in {"awake", "polling"}
  /\ loop \in {"polling", "answering", "dozing"} => ~swallowed
  /\ loop = "asleep" => refreshing = "none"

-----------------------------------------------------------------------------

\* The callers in the queue and in the batch.
LEMMA Inside ==
  ASSUME NEW c
  PROVE  /\ Queued(c) <=> c \in ToSet(ui_requests)
         /\ InBatch(c) <=> c \in ToSet(batch)
         /\ Queued(c)' <=> c \in ToSet(ui_requests)'
         /\ InBatch(c)' <=> c \in ToSet(batch)'
BY Zenon DEF Queued, InBatch, ToSet

-----------------------------------------------------------------------------
(* Where a request is                                                      *)

LEMMA RequestInvInit == DeskInit => RequestInv
<1> SUFFICES ASSUME DeskInit PROVE RequestInv
  OBVIOUS
<1>1. DeskTypes
  BY DEF DeskInit, DeskTypes, CallTypes, Resting, Kinds
<1>2. ui_requests = <<>> /\ batch = <<>> /\ ran = {} /\ \A c \in Threads : call[c] = Resting
  BY DEF DeskInit
<1>3. NoTwice(ui_requests) /\ NoTwice(batch) /\ \A c \in Threads : ~Queued(c) /\ ~InBatch(c)
  BY <1>2 DEF NoTwice, Queued, InBatch
<1>4. \A c \in Threads : Placed(c)
  BY <1>2, <1>3 DEF Placed, Resting
<1> QED BY <1>1, <1>2, <1>3, <1>4 DEF RequestInv

\* A caller that a step leaves where it is.
LEMMA StaysPlaced ==
  ASSUME NEW c \in Threads, Placed(c), call'[c] = call[c], ((c \in ran)' <=> c \in ran),
         (Queued(c)' <=> Queued(c)), (InBatch(c)' <=> InBatch(c))
  PROVE  Placed(c)'
  BY DEF Placed

LEMMA NothingMoves ==
  ASSUME RequestInv, UNCHANGED <<ui_requests, batch, call, ran>>,
         loop' = loop \/ batch = <<>>
  PROVE  RequestInv'
<1>1. DeskTypes' /\ NoTwice(ui_requests)' /\ NoTwice(batch)' /\ (batch # <<>> => loop = "answering")'
  BY DEF RequestInv, DeskTypes, NoTwice
<1>2. \A c \in Threads : Placed(c)'
  BY DEF RequestInv, Placed, Queued, InBatch
<1> QED BY <1>1, <1>2 DEF RequestInv

LEMMA PostKeeps ==
  ASSUME RequestInv, NEW c \in Threads, NEW kind \in Kinds, Post(c, kind)
  PROVE  RequestInv'
<1> USE DEF RequestInv
<1>1. call[c].pc = "idle" /\ call[c].reply = "none" /\ ~Queued(c) /\ ~InBatch(c) /\ c \notin ran
  BY DEF Post, Placed
<1>2. UNCHANGED <<batch, loop, ran>>
  BY DEF Post, window
<1>3. CASE ui_closing
  <2>1. call' = [call EXCEPT ![c] = [pc |-> "answered", kind |-> kind, reply |-> "closing"]]
        /\ ui_requests' = ui_requests
    BY <1>3 DEF Post
  <2>2. DeskTypes'
    BY <1>2, <2>1 DEF DeskTypes, CallTypes, Replies
  <2>3. \A d \in Threads : (Queued(d)' <=> Queued(d)) /\ (InBatch(d)' <=> InBatch(d))
    BY <1>2, <2>1 DEF Queued, InBatch
  <2>4. \A d \in Threads \ {c} : Placed(d)'
    BY <1>2, <2>1, <2>3, StaysPlaced DEF DeskTypes
  <2>5. Placed(c)'
    BY <1>1, <1>2, <2>1, <2>3 DEF Placed, DeskTypes
  <2> QED BY <1>2, <2>1, <2>2, <2>4, <2>5 DEF NoTwice
<1>4. CASE ~ui_closing
  <2>1. call' = [call EXCEPT ![c] = [pc |-> "waking", kind |-> kind, reply |-> "none"]]
        /\ ui_requests' = Append(ui_requests, c)
    BY <1>4 DEF Post
  <2>2. DeskTypes'
    BY <1>2, <2>1, Appended DEF DeskTypes, CallTypes
  <2>3. NoTwice(ui_requests)'
    BY <1>1, <2>1, Appended, Inside DEF DeskTypes
  <2>4. \A d \in Threads : (Queued(d)' <=> Queued(d) \/ d = c) /\ (InBatch(d)' <=> InBatch(d))
    <3>1. ToSet(ui_requests)' = ToSet(ui_requests) \union {c} /\ ToSet(batch)' = ToSet(batch)
      BY <1>2, <2>1, Appended DEF DeskTypes
    <3> QED BY <3>1, Inside
  <2>5. \A d \in Threads \ {c} : Placed(d)'
    BY <1>2, <2>1, <2>4 DEF DeskTypes, Placed
  <2>6. Placed(c)'
    BY <1>1, <1>2, <2>1, <2>4 DEF Placed, DeskTypes
  <2> QED BY <1>2, <2>2, <2>3, <2>5, <2>6 DEF NoTwice
<1> QED BY <1>3, <1>4

\* WakeUp(), TimeOut() and the answer: one caller moves, the queues stay.
LEMMA CallerMoves ==
  ASSUME RequestInv, NEW c \in Threads, UNCHANGED <<ui_requests, batch, loop>>,
         NEW r \in CallTypes, call' = [call EXCEPT ![c] = r],
         \A d \in Threads \ {c} : ((d \in ran)' <=> d \in ran),
         (Queued(c)' <=> Queued(c)) /\ (InBatch(c)' <=> InBatch(c)) => Placed(c)'
  PROVE  RequestInv'
<1>1. \A d \in Threads : (Queued(d)' <=> Queued(d)) /\ (InBatch(d)' <=> InBatch(d))
  BY DEF Queued, InBatch
<1>2. \A d \in Threads \ {c} : call'[d] = call[d]
  BY DEF RequestInv, DeskTypes
<1>3. \A d \in Threads \ {c} : Placed(d)'
  BY <1>1, <1>2, StaysPlaced DEF RequestInv
<1>4. DeskTypes' /\ NoTwice(ui_requests)' /\ NoTwice(batch)' /\ (batch # <<>> => loop = "answering")'
  BY DEF RequestInv, DeskTypes, NoTwice
<1> QED BY <1>1, <1>3, <1>4 DEF RequestInv

LEMMA CallsKeepRequestInv ==
  ASSUME RequestInv, NEW c \in Threads, WakeUp(c) \/ TimeOut(c) \/ GiveAnswer(c)
  PROVE  RequestInv'
<1>1. UNCHANGED <<ui_requests, batch, loop>> /\ call[c] \in CallTypes /\ Placed(c)
  BY DEF WakeUp, TimeOut, GiveAnswer, window, RequestInv, DeskTypes
<1>2. CASE WakeUp(c)
  <2> DEFINE r == [call[c] EXCEPT !.pc = "waiting"]
  <2>1. call' = [call EXCEPT ![c] = r] /\ r \in CallTypes /\ ran' = ran
    BY <1>1, <1>2 DEF WakeUp, CallTypes, RequestInv, DeskTypes
  <2>2. r.pc = "waiting" /\ r.reply = call[c].reply /\ call'[c] = r /\ call[c].pc = "waking"
    BY <1>1, <1>2, <2>1 DEF CallTypes, RequestInv, DeskTypes, WakeUp
  <2>3. (Queued(c)' <=> Queued(c)) /\ (InBatch(c)' <=> InBatch(c)) => Placed(c)'
    BY <1>1, <2>1, <2>2 DEF Placed
  <2> HIDE DEF r
  <2> QED BY <1>1, <2>1, <2>3, CallerMoves
<1>3. CASE TimeOut(c)
  <2> DEFINE r == [call[c] EXCEPT !.pc = "expired"]
  <2>1. call' = [call EXCEPT ![c] = r] /\ r \in CallTypes /\ ran' = ran
    BY <1>1, <1>3 DEF TimeOut, CallTypes, RequestInv, DeskTypes
  <2>2. r.pc = "expired" /\ r.reply = call[c].reply /\ call'[c] = r /\ call[c].pc = "waiting"
    BY <1>1, <1>3, <2>1 DEF CallTypes, RequestInv, DeskTypes, TimeOut
  <2>3. (Queued(c)' <=> Queued(c)) /\ (InBatch(c)' <=> InBatch(c)) => Placed(c)'
    BY <1>1, <2>1, <2>2 DEF Placed
  <2> HIDE DEF r
  <2> QED BY <1>1, <2>1, <2>3, CallerMoves
<1>4. CASE GiveAnswer(c)
  <2>1. call' = [call EXCEPT ![c] = Resting] /\ Resting \in CallTypes /\ ran' = ran \ {c}
    BY <1>4 DEF GiveAnswer, CallTypes, Resting, Kinds
  <2>5. \A d \in Threads \ {c} : ((d \in ran)' <=> d \in ran)
    BY <2>1
  <2>2. call'[c] = Resting
    BY <2>1 DEF RequestInv, DeskTypes
  <2>3. ~Queued(c) /\ ~InBatch(c)
    BY <1>1, <1>4 DEF GiveAnswer, Placed
  <2>4. (Queued(c)' <=> Queued(c)) /\ (InBatch(c)' <=> InBatch(c)) => Placed(c)'
    BY <2>1, <2>2, <2>3 DEF Placed, Resting
  <2>6. Resting \in CallTypes /\ UNCHANGED <<ui_requests, batch, loop>>
    BY <1>1, <2>1
  <2> HIDE DEF Resting
  <2> QED BY <2>1, <2>4, <2>5, <2>6, CallerMoves
<1> QED BY <1>2, <1>3, <1>4

\* Taken back where it is still queued; else it is in the batch, or answered.
LEMMA WithdrawnOrTaken ==
  ASSUME RequestInv, NEW c \in Threads, Withdraw(c)
  PROVE  RequestInv'
<1> USE DEF RequestInv
<1>1. UNCHANGED <<batch, loop, ran>> /\ call[c].pc = "expired" /\ call[c] \in CallTypes /\ Placed(c)
  BY DEF Withdraw, window, DeskTypes
<1>2. CASE ~Queued(c) /\ UNCHANGED ui_requests /\ call' = [call EXCEPT ![c].pc = "taken"]
  <2> DEFINE r == [call[c] EXCEPT !.pc = "taken"]
  <2>1. call' = [call EXCEPT ![c] = r] /\ r \in CallTypes
    BY <1>1, <1>2 DEF CallTypes, DeskTypes
  <2>2. r.pc = "taken" /\ r.reply = call[c].reply /\ call'[c] = r
    BY <1>1, <2>1 DEF CallTypes, DeskTypes
  <2>3. (Queued(c)' <=> Queued(c)) /\ (InBatch(c)' <=> InBatch(c)) => Placed(c)'
    BY <1>1, <1>2, <2>1, <2>2 DEF Placed
  <2> HIDE DEF r, RequestInv
  <2> QED BY <1>1, <1>2, <2>1, <2>3, CallerMoves
<1>3. ASSUME NEW n \in DOMAIN ui_requests, ui_requests[n] = c, ui_requests' = RemoveAt(ui_requests, n),
             call' = [call EXCEPT ![c].pc = "answered", ![c].reply = "withdrawn"]
      PROVE  RequestInv'
  <2>1. DeskTypes'
    BY <1>1, <1>3, TakenOut DEF DeskTypes, CallTypes, Replies
  <2>2. NoTwice(ui_requests)' /\ ToSet(ui_requests)' = ToSet(ui_requests) \ {c}
    BY <1>3, TakenOut DEF DeskTypes
  <2>3. \A d \in Threads : (Queued(d)' <=> Queued(d) /\ d # c) /\ (InBatch(d)' <=> InBatch(d))
    <3>1. ToSet(batch)' = ToSet(batch)
      BY <1>1
    <3> QED BY <2>2, <3>1, Inside
  <2>4. \A d \in Threads \ {c} : Placed(d)'
    BY <1>1, <1>3, <2>3 DEF DeskTypes, Placed
  <2>5. call'[c].pc = "answered" /\ call'[c].reply = "withdrawn"
    BY <1>1, <1>3 DEF DeskTypes, CallTypes
  <2>6. Queued(c) /\ c \notin ran /\ ~InBatch(c)
    BY <1>1, <1>3 DEF Placed, Queued
  <2>7. Placed(c)'
    BY <1>1, <2>3, <2>5, <2>6 DEF Placed
  <2> QED BY <1>1, <2>1, <2>2, <2>4, <2>7 DEF NoTwice
<1> QED BY <1>2, <1>3 DEF Withdraw

\* The whole queue becomes the batch, which is empty then.
LEMMA TakeBatchKeeps ==
  ASSUME RequestInv, TakeBatch
  PROVE  RequestInv'
<1> USE DEF RequestInv
<1>1. /\ batch = <<>> /\ batch' = ui_requests /\ ui_requests' = <<>> /\ loop' = "answering"
      /\ UNCHANGED <<call, ran>>
  BY DEF TakeBatch
<1>2. DeskTypes' /\ NoTwice(ui_requests)' /\ NoTwice(batch)'
  BY <1>1 DEF DeskTypes, NoTwice
<1>3. \A d \in Threads : (InBatch(d)' <=> Queued(d)) /\ ~Queued(d)' /\ ~InBatch(d)
  BY <1>1 DEF InBatch, Queued
<1>4. \A d \in Threads : Placed(d)'
  BY <1>1, <1>3 DEF Placed
<1> QED BY <1>1, <1>2, <1>4

\* One request of the batch runs or is refused, and leaves it.
LEMMA RunOneKeeps ==
  ASSUME RequestInv, RunOne
  PROVE  RequestInv'
<1> USE DEF RequestInv
<1>0. /\ Head(batch) \in Threads /\ Head(batch) \in ToSet(batch) /\ batch # <<>>
      /\ Tail(batch) \in Seq(Threads) /\ NoTwice(Tail(batch))
      /\ ToSet(Tail(batch)) = ToSet(batch) \ {Head(batch)}
  BY TailTaken DEF DeskTypes, RunOne
<1>. PICK c \in Threads : c = Head(batch)
  BY <1>0
<1>. PICK answer \in {"done", "refused"} : answer = IF Granted THEN "done" ELSE "refused"
  OBVIOUS
<1>1. /\ batch # <<>> /\ batch' = Tail(batch) /\ UNCHANGED <<ui_requests, loop>>
      /\ call' = [call EXCEPT ![c].reply = answer]
      /\ ran' = IF answer = "done" THEN ran \union {c} ELSE ran
  <2>1. CASE Granted
    BY <2>1 DEF RunOne, window
  <2>2. CASE ~Granted
    BY <2>2 DEF RunOne, window
  <2> QED BY <2>1, <2>2
<1>2. /\ Tail(batch) \in Seq(Threads) /\ NoTwice(batch)' /\ c \in ToSet(batch)
      /\ ToSet(batch)' = ToSet(batch) \ {c}
  BY <1>0, <1>1
<1>3. DeskTypes'
  <2>1. call[c] \in CallTypes
    BY DEF DeskTypes
  <2>2. [call[c] EXCEPT !.reply = answer] \in CallTypes
    BY <2>1 DEF CallTypes, Replies
  <2>3. call' = [call EXCEPT ![c] = [call[c] EXCEPT !.reply = answer]]
    BY <1>1
  <2>4. call' \in [Threads -> CallTypes]
    BY <2>2, <2>3 DEF DeskTypes
  <2> QED BY <1>1, <1>2, <2>4 DEF DeskTypes
<1>4. \A d \in Threads : (InBatch(d)' <=> InBatch(d) /\ d # c) /\ (Queued(d)' <=> Queued(d))
  <2>1. ToSet(ui_requests)' = ToSet(ui_requests)
    BY <1>1
  <2> TAKE d \in Threads
  <2>2. d \in ToSet(batch)' <=> d \in ToSet(batch) /\ d # c
    BY <1>2
  <2>3. d \in ToSet(ui_requests)' <=> d \in ToSet(ui_requests)
    BY <2>1
  <2> QED BY <2>2, <2>3, Inside
<1>5. \A d \in Threads \ {c} : Placed(d)'
  <2> TAKE d \in Threads \ {c}
  <2>1. call'[d] = call[d] /\ ((d \in ran)' <=> d \in ran)
    BY <1>1, <1>2 DEF DeskTypes
  <2> QED BY <1>4, <2>1, StaysPlaced
<1>6. Placed(c)'
  <2>1. InBatch(c) /\ ~Queued(c) /\ c \notin ran /\ call[c].pc \in {"waking", "waiting", "expired", "taken"}
    BY <1>2, Inside DEF Placed
  <2>2. call'[c].reply = answer /\ call'[c].pc = call[c].pc
    BY <1>1, <1>2 DEF DeskTypes, CallTypes
  <2>3. (c \in ran)' <=> answer = "done"
    BY <1>1, <2>1
  <2>4. ~Queued(c)' /\ ~InBatch(c)'
    BY <1>4, <2>1
  <2> QED BY <2>1, <2>2, <2>3, <2>4 DEF Placed
<1> QED BY <1>1, <1>2, <1>3, <1>5, <1>6 DEF NoTwice

\* The queue of a window that closes is answered.
LEMMA LeaveKeeps ==
  ASSUME RequestInv, Leave
  PROVE  RequestInv'
<1> USE DEF RequestInv
<1>1. /\ batch = <<>> /\ batch' = <<>> /\ ui_requests' = <<>> /\ UNCHANGED ran
      /\ call' = [c \in Threads |-> IF Queued(c) THEN [call[c] EXCEPT !.reply = "closing"] ELSE call[c]]
  BY DEF Leave
<1>2. DeskTypes' /\ NoTwice(ui_requests)' /\ NoTwice(batch)'
  BY <1>1 DEF DeskTypes, CallTypes, Replies, NoTwice
<1>3. \A d \in Threads : ~InBatch(d)' /\ ~Queued(d)' /\ ~InBatch(d)
  BY <1>1 DEF InBatch, Queued
<1>4. \A d \in Threads : Placed(d)'
  <2> TAKE d \in Threads
  <2>1. call[d] \in CallTypes /\ Placed(d)
    BY DEF DeskTypes
  <2>2. CASE Queued(d)
    <3>1. call'[d].reply = "closing" /\ call'[d].pc = call[d].pc /\ call[d].pc # "idle" /\ d \notin ran
      BY <1>1, <2>1, <2>2 DEF CallTypes, Placed
    <3> QED BY <1>1, <1>3, <2>1, <2>2, <3>1 DEF Placed
  <2>3. CASE ~Queued(d)
    <3>1. call'[d] = call[d] /\ ((d \in ran)' <=> d \in ran)
      BY <1>1, <2>3
    <3> QED BY <1>3, <2>1, <2>3, <3>1, StaysPlaced
  <2> QED BY <2>2, <2>3
<1>5. (batch # <<>> => loop = "answering")'
  BY <1>1
<1> HIDE DEF RequestInv
<1> QED BY <1>2, <1>4, <1>5 DEF RequestInv

LEMMA StepsKeepRequestInv == RequestInv /\ [DeskNext]_deskVars => RequestInv'
<1> SUFFICES ASSUME RequestInv, [DeskNext]_deskVars PROVE RequestInv'
  OBVIOUS
<1>1. CASE Calling
  BY <1>1, PostKeeps, CallsKeepRequestInv, WithdrawnOrTaken DEF Calling
<1>2. CASE Looping
  <2>1. CASE Enter \/ WaitEnds \/ Activity \/ PollEnds \/ DozeEnds \/ FrameCap \/ Draw \/ Joined
    <3>1. UNCHANGED <<ui_requests, batch, call, ran>> /\ (loop' = loop \/ batch = <<>>)
      BY <2>1 DEF Enter, WaitEnds, Activity, PollEnds, DozeEnds, FrameCap, Draw, Joined, requests, RequestInv
    <3> QED BY <3>1, NothingMoves
  <2> QED BY <1>2, <2>1, TakeBatchKeeps, RunOneKeeps, LeaveKeeps DEF Looping
<1>3. CASE Touch \/ RefreshWakes \/ RefreshReturns \/ EngineAnswers \/ UNCHANGED deskVars
  <2>1. UNCHANGED <<ui_requests, batch, call, ran>> /\ loop' = loop
    BY <1>3 DEF Touch, RefreshWakes, RefreshReturns, EngineAnswers, requests, window, deskVars
  <2> QED BY <2>1, NothingMoves
<1> QED BY <1>1, <1>2, <1>3 DEF DeskNext

-----------------------------------------------------------------------------
(* Where the loop is                                                       *)

LEMMA WakeInvInit == DeskInit => WakeInv
  BY DEF DeskInit, WakeInv, Queued

\* No call but WakeUp() makes a caller one that has woken the loop.
LEMMA OnlyWakeUpWakes ==
  ASSUME RequestInv, NEW c \in Threads,
         (\E kind \in Kinds : Post(c, kind)) \/ TimeOut(c) \/ Withdraw(c) \/ GiveAnswer(c)
  PROVE  \A d \in Threads : Queued(d)' /\ call'[d].pc # "waking" => Queued(d) /\ call[d].pc # "waking"
<1> USE DEF RequestInv
<1>0. Placed(c) /\ call \in [Threads -> CallTypes]
  BY DEF DeskTypes
<1>1. ASSUME NEW kind \in Kinds, Post(c, kind)
      PROVE  \A d \in Threads : Queued(d)' /\ call'[d].pc # "waking" => Queued(d) /\ call[d].pc # "waking"
  <2>1. CASE ui_closing
    <3>1. /\ ui_requests' = ui_requests /\ call[c].pc = "idle"
          /\ call' = [call EXCEPT ![c] = [pc |-> "answered", kind |-> kind, reply |-> "closing"]]
      BY <1>1, <2>1 DEF Post
    <3> QED BY <1>0, <3>1 DEF Queued, Placed
  <2>2. CASE ~ui_closing
    <3>1. /\ ui_requests' = Append(ui_requests, c)
          /\ call' = [call EXCEPT ![c] = [pc |-> "waking", kind |-> kind, reply |-> "none"]]
      BY <1>1, <2>2 DEF Post
    <3>2. ToSet(ui_requests)' = ToSet(ui_requests) \union {c}
      BY <3>1, Appended DEF DeskTypes
    <3>3. \A d \in Threads : Queued(d)' => Queued(d) \/ d = c
      BY <3>2, Inside
    <3>4. call'[c].pc = "waking" /\ \A d \in Threads \ {c} : call'[d] = call[d]
      BY <1>0, <3>1
    <3> QED BY <3>3, <3>4
  <2> QED BY <2>1, <2>2
<1>2. CASE TimeOut(c)
  <2>1. UNCHANGED ui_requests /\ call[c].pc = "waiting" /\ call' = [call EXCEPT ![c].pc = "expired"]
    BY <1>2 DEF TimeOut
  <2> QED BY <1>0, <2>1 DEF Queued
<1>3. CASE GiveAnswer(c)
  <2>1. UNCHANGED ui_requests /\ call' = [call EXCEPT ![c] = Resting] /\ ~Queued(c)
    BY <1>0, <1>3 DEF GiveAnswer, Placed
  <2> QED BY <1>0, <2>1 DEF Queued
<1>4. CASE Withdraw(c)
  <2>1. ASSUME NEW n \in DOMAIN ui_requests, ui_requests[n] = c, ui_requests' = RemoveAt(ui_requests, n)
        PROVE  \A d \in Threads : Queued(d)' => Queued(d) /\ d # c
    <3>1. ToSet(ui_requests)' = ToSet(ui_requests) \ {c}
      BY <2>1, TakenOut DEF DeskTypes
    <3> QED BY <3>1, Inside
  <2>2. \A d \in Threads : Queued(d)' => Queued(d) /\ d # c
    BY <1>4, <2>1 DEF Withdraw, Queued
  <2>3. \A d \in Threads \ {c} : call'[d] = call[d]
    BY <1>0, <1>4 DEF Withdraw
  <2> QED BY <2>2, <2>3
<1> QED BY <1>1, <1>2, <1>3, <1>4

LEMMA StepsKeepWakeInv == RequestInv /\ WakeInv /\ [DeskNext]_deskVars => WakeInv'
<1> SUFFICES ASSUME RequestInv, WakeInv, [DeskNext]_deskVars PROVE WakeInv'
  OBVIOUS
<1>1. CASE Calling
  <2> PICK c \in Threads :
        \/ \E kind \in Kinds : Post(c, kind)
        \/ WakeUp(c) \/ TimeOut(c) \/ Withdraw(c) \/ GiveAnswer(c)
    BY <1>1 DEF Calling
  <2>1. CASE WakeUp(c)
    BY <2>1 DEF WakeUp, Wake, WakeInv, tasks
  <2>2. CASE (\E kind \in Kinds : Post(c, kind)) \/ TimeOut(c) \/ Withdraw(c) \/ GiveAnswer(c)
    <3>1. UNCHANGED <<loop, event, swallowed, refreshing>>
      BY <2>2 DEF Post, TimeOut, Withdraw, GiveAnswer, window, tasks
    <3> QED BY <2>2, <3>1, OnlyWakeUpWakes DEF WakeInv
  <2> QED BY <2>1, <2>2
<1>2. CASE TakeBatch \/ Leave
  <2>1. /\ ui_requests' = <<>> /\ loop' \in {"answering", "closing"} /\ swallowed' = swallowed
        /\ loop' = "answering" => loop = "polling"
    BY <1>2 DEF TakeBatch, Leave
  <2> QED BY <2>1 DEF WakeInv, Queued
<1>3. CASE RunOne
  <2>1. UNCHANGED <<loop, event, swallowed, ui_requests>> /\ loop # "asleep"
    BY <1>3 DEF RunOne, window
  <2>2. \A d \in Threads : call'[d].pc = call[d].pc
    BY <1>3 DEF RunOne, RequestInv, DeskTypes, CallTypes
  <2> QED BY <2>1, <2>2 DEF WakeInv, Queued
<1>4. CASE Enter \/ WaitEnds \/ Activity \/ PollEnds \/ DozeEnds \/ FrameCap \/ Draw \/ Joined
  <2>1. UNCHANGED <<ui_requests, call>>
    BY <1>4 DEF Enter, WaitEnds, Activity, PollEnds, DozeEnds, FrameCap, Draw, Joined, requests
  <2>2. \A d \in Threads : Queued(d)' => Queued(d)
    BY <2>1 DEF Queued
  <2>3. CASE DozeEnds
    <3>1. loop = "dozing" /\ loop' = "top" /\ ~swallowed /\ (event => swallowed')
      BY <2>3 DEF DozeEnds, WakeInv
    <3> QED BY <2>1, <2>2, <3>1 DEF WakeInv
  <2>4. CASE Activity
    BY <2>1, <2>2, <2>4 DEF Activity, WakeInv, tasks
  <2>5. CASE Enter
    BY <2>1, <2>2, <2>5 DEF Enter, WakeInv, tasks, animating, busy
  <2>6. CASE WaitEnds
    BY <2>6 DEF WaitEnds, WakeInv
  <2>7. CASE PollEnds \/ Draw \/ Joined
    <3>1. UNCHANGED <<event, swallowed>> /\ loop \notin {"awake", "polling"}
          /\ loop' \notin {"asleep", "polling", "answering"} /\ (loop' = "dozing" => loop = "answering")
      BY <2>7 DEF PollEnds, Draw, Joined
    <3> QED BY <2>1, <2>2, <3>1 DEF WakeInv
  <2>8. CASE FrameCap
    BY <2>8 DEF FrameCap, WakeInv
  <2> QED BY <1>4, <2>3, <2>4, <2>5, <2>6, <2>7, <2>8
<1>5. CASE Touch \/ RefreshWakes \/ RefreshReturns \/ EngineAnswers \/ UNCHANGED deskVars
  <2>1. UNCHANGED <<ui_requests, call, loop, swallowed>> /\ (event' = TRUE \/ event' = event)
    BY <1>5 DEF Touch, RefreshWakes, RefreshReturns, EngineAnswers, Wake, requests, window, deskVars
  <2>2. loop = "asleep" => refreshing' = "none"
    BY <1>5 DEF Touch, RefreshWakes, RefreshReturns, EngineAnswers, WakeInv, tasks, deskVars
  <2> QED BY <2>1, <2>2 DEF WakeInv, Queued
<1> QED BY <1>1, <1>2, <1>3, <1>4, <1>5 DEF DeskNext, Looping

\* A caller that is told nothing was done is right and its request runs nowhere later,
\* one told it was done is right, a request that was taken is answered, and the thread
\* does not sleep over a request that has woken it; for any number of callers.
\* (App::post_ui_request, handle_ui_requests and main()'s loop.)
THEOREM RequestsRunOrAreWithdrawn == DeskSpec => []DoneOrWithdrawn
<1>1. RequestInv /\ WakeInv => DoneOrWithdrawn
  <2> SUFFICES ASSUME RequestInv, WakeInv PROVE DoneOrWithdrawn
    OBVIOUS
  <2>1. NoSleepOverWork
    BY DEF NoSleepOverWork, WakeInv
  <2>2. ASSUME NEW c \in Threads
        PROVE  /\ call[c].reply \in {"withdrawn", "refused", "closing"} => c \notin ran
               /\ call[c].reply \in {"withdrawn", "closing"} => ~Queued(c) /\ ~InBatch(c)
               /\ call[c].reply = "done" => c \in ran
               /\ call[c].pc = "taken" => call[c].reply # "none" \/ InBatch(c)
    BY DEF RequestInv, Placed
  <2> QED BY <2>1, <2>2, Zenon DEF DoneOrWithdrawn, InBatch
<1> QED BY <1>1, RequestInvInit, StepsKeepRequestInv, WakeInvInit, StepsKeepWakeInv, PTL DEF DeskSpec

-----------------------------------------------------------------------------
(* Recordings                                                              *)

\* Where run() reads adb, and where it has its partial file.
Reading == {"loop", "find", "pump", "drain", "flush", "finish"}
\* The states in which the file is open.
Writing == Reading \union {"spawn", "last", "save"}

\* The types of what a recording keeps, and of the files.
RecorderTypes ==
  /\ at \in Writing \union {"idle", "start", "done"}
  /\ stopping \in BOOLEAN /\ saved \in BOOLEAN
  /\ stream \in [good : BOOLEAN, written : Nat, held : BOOLEAN]
  /\ buffer \in Seq({"h", "n"}) /\ pipe \in Seq({"h", "n"})
  /\ out_open \in BOOLEAN /\ server \in BOOLEAN
  /\ target \in [of : Nat, rows : Nat] /\ partial \in [of : Nat, rows : Nat]
  /\ recordings \in Nat /\ printed \in Nat /\ fed \in Nat /\ told \in Nat

\* How many rows the parser holds back.
HeldBack == IF stream.held THEN 1 ELSE 0

\* Every row a line gave is written or held back, and the partial file is this
\* recording's.
RowsInv ==
  /\ at \in Writing => stream.written + HeldBack = told /\ partial.of = recordings
  /\ at = "spawn" => told = 0 /\ fed = 0
  /\ at = "save" => ~stream.held /\ (stream.good => partial.rows = told)

\* The earlier recording is there until this one is saved.
RecordedInv ==
  /\ target.of <= recordings
  /\ at # "idle" => recordings # 0
  /\ at \notin {"idle", "done"} => ~saved /\ target.of # recordings
  /\ target.of = recordings /\ recordings # 0 => target.rows = told /\ told > 0
  /\ at = "done" /\ told > 0 /\ stream.good /\ ~saved => partial = [of |-> recordings, rows |-> told]
  /\ at = "done" => (saved <=> target.of = recordings)

\* The half of a line that adb prints next.
Half(n) == IF n % 2 = 0 THEN "h" ELSE "n"

\* What adb printed is fed to the parser, in the buffer or in the pipe, in its order; a
\* line begins where the parser is, but for what is left of one at the end; and nothing
\* comes once the pipe is closed.
BytesInv ==
  /\ adb = "runs" => at \in Reading
  /\ at \in Reading =>
       /\ fed + Len(buffer) + Len(pipe) = printed
       /\ \A i \in 1..Len(buffer) : buffer[i] = Half(fed + i - 1)
       /\ \A i \in 1..Len(pipe) : pipe[i] = Half(fed + Len(buffer) + i - 1)
       /\ fed % 2 = 0 \/ (~out_open /\ buffer = <<>>)
       /\ ~out_open => adb # "runs" /\ pipe = <<>>
  /\ at \in {"pump", "drain"} => out_open
  /\ at = "drain" => adb # "runs"
  /\ at = "finish" /\ ~stopping => buffer = <<>> /\ ~out_open

\* The invariant of a recording.
RecorderInv == RecorderTypes /\ RowsInv /\ RecordedInv /\ BytesInv

LEMMA RecorderInvInit == RecorderInit => RecorderInv
<1> SUFFICES ASSUME RecorderInit PROVE RecorderInv
  OBVIOUS
<1>1. RecorderTypes
  <2>1. stream \in [good : BOOLEAN, written : Nat, held : BOOLEAN]
    BY DEF RecorderInit
  <2>2. target \in [of : Nat, rows : Nat] /\ partial \in [of : Nat, rows : Nat]
    BY DEF RecorderInit, NoPartial
  <2>3. buffer \in Seq({"h", "n"}) /\ pipe \in Seq({"h", "n"})
    BY DEF RecorderInit
  <2>4. /\ at \in Writing \union {"idle", "start", "done"} /\ stopping \in BOOLEAN /\ saved \in BOOLEAN
        /\ out_open \in BOOLEAN /\ server \in BOOLEAN
        /\ recordings \in Nat /\ printed \in Nat /\ fed \in Nat /\ told \in Nat
    BY DEF RecorderInit
  <2> QED BY <2>1, <2>2, <2>3, <2>4 DEF RecorderTypes
<1>2. RowsInv
  BY DEF RecorderInit, RowsInv, Writing, Reading
<1>3. RecordedInv
  BY DEF RecorderInit, RecordedInv
<1>4. BytesInv
  BY DEF RecorderInit, BytesInv, Reading
<1> QED BY <1>1, <1>2, <1>3, <1>4 DEF RecorderInv

-----------------------------------------------------------------------------
(* Steps that leave the bytes, the rows or the files where they are        *)

LEMMA BytesKept ==
  ASSUME BytesInv, UNCHANGED <<child, fed>>, stopping' = stopping,
         at' = at \/ (at' \in Reading \ {"pump", "drain", "finish"} /\ at \in Reading)
                  \/ (at' \notin Reading /\ adb # "runs")
  PROVE  BytesInv'
  BY DEF BytesInv, child, Reading

LEMMA FilesKept ==
  ASSUME RecordedInv, at \in Writing, at' \in Writing, UNCHANGED <<saved, target, recordings>>
  PROVE  RecordedInv'
  BY DEF RecordedInv, Writing, Reading

LEMMA RowsKept ==
  ASSUME RowsInv, at \in Writing \ {"save"}, at' \in Writing \ {"spawn", "save"},
         UNCHANGED <<stream, told, recordings>>, partial'.of = partial.of
  PROVE  RowsInv'
  BY DEF RowsInv, HeldBack

-----------------------------------------------------------------------------
(* The App, adb, and the end of the program                                *)

LEMMA StartRecordingKeeps == ASSUME RecorderInv, StartRecording PROVE RecorderInv'
<1> USE DEF RecorderInv, StartRecording
<1>1. RecorderTypes'
  <2>1. recordings' \in Nat
    BY DEF RecorderTypes
  <2>2. UNCHANGED <<stream, buffer, out_open, server, pipe, printed, target, partial, fed, told>>
    BY DEF child, files
  <2> QED BY <2>1, <2>2 DEF RecorderTypes
<1>2. RowsInv'
  BY DEF RowsInv, Writing, Reading
<1>3. RecordedInv'
  BY DEF RecordedInv, RecorderTypes, files
<1>4. BytesInv'
  BY DEF BytesInv, Reading, child
<1> QED BY <1>1, <1>2, <1>3, <1>4

LEMMA StopKeeps == ASSUME RecorderInv, StopRecording PROVE RecorderInv'
<1> USE DEF RecorderInv, StopRecording
<1>1. RecorderTypes'
  BY DEF RecorderTypes, child, files
<1>2. RowsInv'
  BY DEF RowsInv, HeldBack, files
<1>3. RecordedInv'
  BY DEF RecordedInv, files
<1>4. BytesInv'
  BY DEF BytesInv, child
<1> QED BY <1>1, <1>2, <1>3, <1>4

LEMMA OverKeeps == ASSUME RecorderInv, FinishRecording \/ Die PROVE RecorderInv'
<1> USE DEF RecorderInv
<1>1. /\ at' = "idle" /\ adb' = "none"
      /\ UNCHANGED <<stopping, saved, stream, buffer, server, pipe, printed, files, recordings, fed, told>>
      /\ out_open' \in {out_open, FALSE}
  BY DEF FinishRecording, Die
<1>2. RecorderTypes'
  BY <1>1 DEF RecorderTypes, files
<1>3. RowsInv'
  BY <1>1 DEF RowsInv, Writing, Reading
<1>4. RecordedInv'
  BY <1>1 DEF RecordedInv, files
<1>5. BytesInv'
  BY <1>1 DEF BytesInv, Reading
<1> QED BY <1>2, <1>3, <1>4, <1>5

\* What adb prints goes to the end of the pipe.
LEMMA PrintKeeps == ASSUME RecorderInv, AdbPrints PROVE RecorderInv'
<1> USE DEF RecorderInv
<1>1. PICK half \in {"h", "n"} : half = Half(printed)
  BY DEF Half
<1>2. /\ adb = "runs" /\ pipe' = Append(pipe, half) /\ printed' = printed + 1
      /\ UNCHANGED <<at, stopping, saved, stream, buffer, out_open, adb, server, files, recordings, fed, told>>
  BY <1>1 DEF AdbPrints, Half
<1>3. RecorderTypes'
  BY <1>2 DEF RecorderTypes, files
<1>4. RowsInv'
  BY <1>2 DEF RowsInv, HeldBack, files
<1>5. RecordedInv'
  BY <1>2 DEF RecordedInv, files
<1>6. BytesInv'
  <2>1. at \in Reading /\ out_open
    BY <1>2 DEF BytesInv, RecorderTypes
  <2>2. Len(pipe') = Len(pipe) + 1 /\ Len(pipe) \in Nat /\ Len(buffer) \in Nat
    BY <1>2 DEF RecorderTypes
  <2>3. fed + Len(buffer) + Len(pipe) = printed
    BY <2>1 DEF BytesInv
  <2>4. \A i \in 1..Len(pipe') : pipe'[i] = Half(fed + Len(buffer) + i - 1)
    <3> TAKE i \in 1..Len(pipe')
    <3>1. CASE i = Len(pipe')
      <4>1. pipe'[i] = half
        BY <1>2, <2>2, <3>1 DEF RecorderTypes
      <4>2. fed + Len(buffer) + i - 1 = printed
        BY <2>2, <2>3, <3>1 DEF RecorderTypes
      <4> QED BY <1>1, <4>1, <4>2
    <3>2. CASE i # Len(pipe')
      <4>1. i \in 1..Len(pipe) /\ pipe'[i] = pipe[i]
        BY <1>2, <2>2, <3>2 DEF RecorderTypes
      <4> QED BY <2>1, <4>1 DEF BytesInv
    <3> QED BY <3>1, <3>2
  <2>5. fed' + Len(buffer') + Len(pipe') = printed'
    <3>1. fed \in Nat /\ printed \in Nat
      BY DEF RecorderTypes
    <3>2. fed + Len(buffer) + (Len(pipe) + 1) = printed + 1
      BY <2>2, <2>3, <3>1
    <3> QED BY <1>2, <2>2, <3>2
  <2> QED BY <1>2, <2>1, <2>4, <2>5 DEF BytesInv
<1> QED BY <1>3, <1>4, <1>5, <1>6

LEMMA AdbKeeps == ASSUME RecorderInv, AdbStartsServer \/ AdbExits PROVE RecorderInv'
<1> USE DEF RecorderInv
<1>1. /\ adb' \in {adb, "gone"} /\ server' \in {server, TRUE}
      /\ UNCHANGED <<at, stopping, saved, stream, buffer, out_open, pipe, printed, files, recordings, fed, told>>
  BY DEF AdbStartsServer, AdbExits
<1>2. RecorderTypes'
  BY <1>1 DEF RecorderTypes, files
<1>3. RowsInv'
  BY <1>1 DEF RowsInv, HeldBack, files
<1>4. RecordedInv'
  BY <1>1 DEF RecordedInv, files
<1>5. BytesInv'
  BY <1>1 DEF BytesInv
<1> QED BY <1>2, <1>3, <1>4, <1>5

-----------------------------------------------------------------------------
(* Recorder::run()                                                         *)

LEMMA PrepareKeeps == ASSUME RecorderInv, Prepare PROVE RecorderInv'
<1> USE DEF RecorderInv
<1>1. /\ at = "start" /\ at' \in {"done", "spawn"} /\ fed' = 0 /\ told' = 0
      /\ UNCHANGED <<stopping, saved, buffer, out_open, adb, server, pipe, printed, target, recordings>>
  BY DEF Prepare, Go, child
<1>2. CASE at' = "done" /\ UNCHANGED <<stream, partial>>
  <2>1. RecorderTypes'
    BY <1>1, <1>2 DEF RecorderTypes
  <2>2. RowsInv'
    BY <1>2 DEF RowsInv, Writing, Reading
  <2>3. RecordedInv'
    BY <1>1, <1>2 DEF RecordedInv
  <2>4. BytesInv'
    BY <1>1, <1>2 DEF BytesInv, Reading
  <2> QED BY <2>1, <2>2, <2>3, <2>4
<1>3. CASE /\ at' = "spawn" /\ stream' = [good |-> TRUE, written |-> 0, held |-> FALSE]
           /\ partial' = [of |-> recordings, rows |-> 0]
  <2>1. RecorderTypes'
    <3>1. stream' \in [good : BOOLEAN, written : Nat, held : BOOLEAN]
      BY <1>3
    <3>2. partial' \in [of : Nat, rows : Nat]
      BY <1>3 DEF RecorderTypes
    <3> QED BY <1>1, <1>3, <3>1, <3>2 DEF RecorderTypes, Writing
  <2>2. RowsInv'
    BY <1>1, <1>3 DEF RowsInv, HeldBack
  <2>3. RecordedInv'
    BY <1>1, <1>3 DEF RecordedInv
  <2>4. BytesInv'
    BY <1>1, <1>3 DEF BytesInv, Reading
  <2> QED BY <2>1, <2>2, <2>3, <2>4
<1> QED BY <1>2, <1>3 DEF Prepare, Go

LEMMA SpawnKeeps == ASSUME RecorderInv, SpawnAdb PROVE RecorderInv'
<1> USE DEF RecorderInv
<1>1. /\ at = "spawn" /\ at' \in {"done", "loop"} /\ UNCHANGED <<stopping, saved, stream, target, recordings, fed, told>>
  BY DEF SpawnAdb, Go, files
<1>2. CASE at' = "done" /\ partial' = NoPartial /\ UNCHANGED child
  <2>1. RecorderTypes'
    <3>1. partial' \in [of : Nat, rows : Nat]
      BY <1>2 DEF NoPartial
    <3> QED BY <1>1, <1>2, <3>1 DEF RecorderTypes, child
  <2>2. RowsInv'
    BY <1>2 DEF RowsInv, Writing, Reading
  <2>3. RecordedInv'
    BY <1>1, <1>2 DEF RecordedInv, RowsInv
  <2>4. BytesInv'
    BY <1>1, <1>2 DEF BytesInv, Reading, child
  <2> QED BY <2>1, <2>2, <2>3, <2>4
<1>3. CASE /\ at' = "loop" /\ buffer' = <<>> /\ out_open' = TRUE /\ adb' = "runs" /\ server' = FALSE
           /\ pipe' = <<>> /\ printed' = 0 /\ UNCHANGED files
  <2>1. RecorderTypes'
    <3>1. buffer' \in Seq({"h", "n"}) /\ pipe' \in Seq({"h", "n"})
      BY <1>3
    <3> QED BY <1>1, <1>3, <3>1 DEF RecorderTypes, Writing, Reading, files
  <2>2. RowsInv'
    BY <1>1, <1>3 DEF RowsInv, HeldBack, Writing, files
  <2>3. RecordedInv'
    BY <1>1, <1>3 DEF RecordedInv, files
  <2>4. BytesInv'
    BY <1>1, <1>3 DEF BytesInv, Reading, RowsInv
  <2> QED BY <2>1, <2>2, <2>3, <2>4
<1> QED BY <1>2, <1>3 DEF SpawnAdb, Go

LEMMA LoopKeeps == ASSUME RecorderInv, LoopAgain PROVE RecorderInv'
<1> USE DEF RecorderInv
<1>1. /\ at = "loop" /\ at' \in {"finish", "find"} /\ (at' = "finish" => stopping)
      /\ UNCHANGED <<stopping, recordings, saved, stream, child, files, fed, told>>
  BY DEF LoopAgain, Go
<1>2. RecorderTypes'
  BY <1>1 DEF RecorderTypes, Writing, Reading, child, files
<1>3. RowsInv'
  BY <1>1, RowsKept DEF Writing, Reading, files
<1>4. RecordedInv'
  BY <1>1, FilesKept DEF Writing, Reading, files
<1>5. BytesInv'
  BY <1>1 DEF BytesInv, Reading, child
<1> QED BY <1>2, <1>3, <1>4, <1>5

LEMMA FlushKeeps == ASSUME RecorderInv, FlushRows PROVE RecorderInv'
<1> USE DEF RecorderInv
<1>1. /\ at = "flush" /\ at' = "loop" /\ UNCHANGED <<stopping, recordings, saved, child, target, fed, told>>
      /\ stream' \in {stream, [stream EXCEPT !.good = FALSE]}
      /\ partial' \in {partial, [partial EXCEPT !.rows = stream.written]}
  BY DEF FlushRows, Go
<1>2. /\ stream' \in [good : BOOLEAN, written : Nat, held : BOOLEAN] /\ partial' \in [of : Nat, rows : Nat]
      /\ stream'.written = stream.written /\ stream'.held = stream.held /\ partial'.of = partial.of
  BY <1>1 DEF RecorderTypes
<1>3. RecorderTypes'
  BY <1>1, <1>2 DEF RecorderTypes, Writing, Reading, child
<1>4. RowsInv'
  BY <1>1, <1>2 DEF RowsInv, HeldBack, Writing, Reading
<1>5. RecordedInv'
  BY <1>1, FilesKept DEF Writing, Reading
<1>6. BytesInv'
  BY <1>1, BytesKept DEF Reading
<1> QED BY <1>3, <1>4, <1>5, <1>6

\* What the parser has held back is written, too.
LEMMA LastKeeps == ASSUME RecorderInv, LastRows PROVE RecorderInv'
<1> USE DEF RecorderInv
<1>1. /\ at = "last" /\ at' = "save" /\ UNCHANGED <<stopping, recordings, saved, child, target, fed, told>>
  BY DEF LastRows, Go
<1>2. stream \in [good : BOOLEAN, written : Nat, held : BOOLEAN] /\ partial \in [of : Nat, rows : Nat] /\ told \in Nat
  BY DEF RecorderTypes
<1>3. stream.written + HeldBack = told /\ partial.of = recordings
  BY <1>1 DEF RowsInv, Writing
<1>4. /\ stream'.written = told /\ ~stream'.held /\ partial'.of = recordings
      /\ stream' \in [good : BOOLEAN, written : Nat, held : BOOLEAN] /\ partial' \in [of : Nat, rows : Nat]
      /\ stream'.good => partial'.rows = told
  <2>1. CASE /\ stream' = [stream EXCEPT !.written = told, !.held = FALSE]
             /\ partial' = IF stream.good THEN [partial EXCEPT !.rows = told] ELSE partial
    BY <1>2, <1>3, <2>1
  <2>2. CASE stream' = [good |-> FALSE, written |-> told, held |-> FALSE] /\ partial' = partial
    BY <1>2, <1>3, <2>2
  <2> QED BY <1>3, <2>1, <2>2 DEF LastRows, HeldBack
<1>5. RecorderTypes'
  BY <1>1, <1>4 DEF RecorderTypes, Writing, child
<1>6. RowsInv'
  BY <1>1, <1>2, <1>4 DEF RowsInv, HeldBack
<1>7. RecordedInv'
  BY <1>1, FilesKept DEF Writing
<1>8. BytesInv'
  BY <1>1 DEF BytesInv, Reading, child
<1> QED BY <1>5, <1>6, <1>7, <1>8

LEMMA SaveKeeps == ASSUME RecorderInv, Save PROVE RecorderInv'
<1> USE DEF RecorderInv
<1>1. /\ at = "save" /\ at' = "done" /\ UNCHANGED <<stopping, recordings, stream, child, fed, told>>
  BY DEF Save, Go
<1>2. /\ stream \in [good : BOOLEAN, written : Nat, held : BOOLEAN] /\ partial \in [of : Nat, rows : Nat]
      /\ told \in Nat /\ recordings \in Nat
  BY DEF RecorderTypes
<1>3. stream.written = told /\ partial.of = recordings /\ (stream.good => partial.rows = told)
  BY <1>1, <1>2 DEF RowsInv, HeldBack, Writing
<1>4. target.of # recordings /\ ~saved /\ target.of <= recordings
  BY <1>1 DEF RecordedInv
<1>5. RecorderTypes' /\ RowsInv' /\ BytesInv'
  <2>1. target' \in {target, partial} /\ partial' \in {partial, NoPartial} /\ saved' \in BOOLEAN
    BY DEF Save, files, RecorderTypes
  <2>2. NoPartial \in [of : Nat, rows : Nat]
    BY DEF NoPartial
  <2>3. RecorderTypes'
    BY <1>1, <2>1, <2>2 DEF RecorderTypes, child
  <2>4. RowsInv' /\ BytesInv'
    BY <1>1 DEF RowsInv, Writing, Reading, BytesInv, child
  <2> QED BY <2>3, <2>4
<1>6. RecordedInv'
  <2>1. CASE stream.good /\ stream.written # 0 /\ target' = partial /\ partial' = NoPartial /\ saved' = TRUE
    BY <1>1, <1>2, <1>3, <2>1 DEF RecordedInv
  <2>2. CASE (~stream.good \/ stream.written # 0) /\ UNCHANGED <<files, saved>>
    <3>1. stream.good => partial = [of |-> recordings, rows |-> told]
      BY <1>2, <1>3
    <3> QED BY <1>1, <1>4, <2>2, <3>1 DEF RecordedInv, files
  <2>3. CASE stream.good /\ stream.written = 0 /\ partial' = NoPartial /\ UNCHANGED <<target, saved>>
    BY <1>1, <1>3, <1>4, <2>3 DEF RecordedInv
  <2> QED BY <2>1, <2>2, <2>3 DEF Save
<1> QED BY <1>5, <1>6

\* What is in the pipe goes to the end of the buffer.
LEMMA PumpedBytes ==
  ASSUME RecorderTypes, BytesInv, at \in Reading, Pumped
  PROVE  /\ buffer' \in Seq({"h", "n"}) /\ pipe' = <<>>
         /\ fed + Len(buffer') + Len(pipe') = printed
         /\ \A i \in 1..Len(buffer') : buffer'[i] = Half(fed + i - 1)
         /\ ~out_open => buffer' = buffer
<1>1. buffer \in Seq({"h", "n"}) /\ pipe \in Seq({"h", "n"}) /\ fed \in Nat /\ printed \in Nat
  BY DEF RecorderTypes
<1>2. buffer' = buffer \o pipe /\ pipe' = <<>>
  BY DEF Pumped
<1>3. buffer' \in Seq({"h", "n"}) /\ Len(buffer') = Len(buffer) + Len(pipe)
  BY <1>1, <1>2, ConcatProperties
<1>4. \A i \in 1..Len(buffer) + Len(pipe) : buffer'[i] = IF i <= Len(buffer) THEN buffer[i] ELSE pipe[i - Len(buffer)]
  BY <1>1, <1>2, ConcatProperties
<1>5. Len(buffer) \in Nat /\ Len(pipe) \in Nat
  BY <1>1
<1>6. ASSUME NEW i \in 1..Len(buffer')
      PROVE  buffer'[i] = Half(fed + i - 1)
  <2>1. CASE i <= Len(buffer)
    <3>1. i \in 1..Len(buffer) /\ buffer'[i] = buffer[i]
      BY <1>3, <1>4, <1>5, <2>1
    <3> QED BY <3>1 DEF BytesInv
  <2>2. CASE ~(i <= Len(buffer))
    <3> DEFINE j == i - Len(buffer)
    <3>1. j \in 1..Len(pipe) /\ buffer'[i] = pipe[j]
      BY <1>3, <1>4, <1>5, <2>2
    <3>2. pipe[j] = Half(fed + Len(buffer) + j - 1)
      BY <3>1 DEF BytesInv
    <3>3. fed + Len(buffer) + j - 1 = fed + i - 1
      BY <1>1, <1>5
    <3> QED BY <3>1, <3>2, <3>3
  <2> QED BY <2>1, <2>2
<1>7. fed + Len(buffer') + Len(pipe') = printed
  <2>1. fed + Len(buffer) + Len(pipe) = printed
    BY DEF BytesInv
  <2>2. Len(pipe') = 0
    BY <1>2
  <2> QED BY <1>1, <1>3, <1>5, <2>1, <2>2
<1>8. ~out_open => buffer' = buffer
  BY <1>1, <1>2, ConcatEmptySeq DEF BytesInv
<1> QED BY <1>2, <1>3, <1>6, <1>7, <1>8

LEMMA PumpKeeps == ASSUME RecorderInv, Pump \/ DrainExited PROVE RecorderInv'
<1> USE DEF RecorderInv
<1>1. /\ at \in {"pump", "drain"} /\ at' \in {"find", "flush"} /\ out_open
      /\ UNCHANGED <<stopping, recordings, saved, stream, adb, server, printed, files, fed, told>>
  BY DEF Pump, DrainExited, Go, BytesInv
<1>2. RowsInv'
  BY <1>1, RowsKept DEF Writing, Reading, files
<1>3. RecordedInv'
  BY <1>1, FilesKept DEF Writing, Reading, files
<1>4. fed % 2 = 0 /\ at \in Reading /\ at' \in Reading
  BY <1>1 DEF BytesInv, Reading
<1>5. CASE UNCHANGED <<buffer, pipe, out_open>>
  <2>1. RecorderTypes'
    BY <1>1, <1>4, <1>5 DEF RecorderTypes, Writing, files
  <2>2. BytesInv'
    BY <1>1, <1>4, <1>5 DEF BytesInv
  <2> QED BY <1>2, <1>3, <2>1, <2>2
<1>6. CASE Pumped /\ out_open' \in BOOLEAN /\ (~out_open' => adb # "runs")
  <2>1. RecorderTypes'
    BY <1>1, <1>4, <1>6, PumpedBytes DEF RecorderTypes, Writing, files
  <2>2. fed' + Len(buffer') + Len(pipe') = printed' /\ pipe' = <<>>
    BY <1>1, <1>4, <1>6, PumpedBytes
  <2>3. \A i \in 1..Len(buffer') : buffer'[i] = Half(fed' + i - 1)
    BY <1>1, <1>4, <1>6, PumpedBytes
  <2>4. \A i \in 1..Len(pipe') : pipe'[i] = Half(fed' + Len(buffer') + i - 1)
    BY <2>2
  <2>5. BytesInv'
    BY <1>1, <1>4, <1>6, <2>2, <2>3, <2>4 DEF BytesInv
  <2> QED BY <1>2, <1>3, <2>1, <2>5
<1>7. CASE Pump
  <2>1. CASE Pumped /\ out_open' = (adb = "runs" \/ server)
    <3>1. out_open' \in BOOLEAN /\ (~out_open' => adb # "runs")
      BY <2>1
    <3> QED BY <1>6, <2>1, <3>1
  <2> QED BY <1>5, <1>7, <2>1 DEF Pump
<1>8. CASE DrainExited
  <2>1. Pumped /\ out_open' = Contains(buffer', "n") /\ at = "drain"
    BY <1>8 DEF DrainExited, Go
  <2>2. out_open' \in BOOLEAN
    BY <2>1 DEF Contains
  <2>3. adb # "runs"
    BY <2>1 DEF BytesInv
  <2> QED BY <1>6, <2>1, <2>2, <2>3
<1> QED BY <1>7, <1>8

LEMMA FinishAdbKeeps == ASSUME RecorderInv, FinishAdb PROVE RecorderInv'
<1> USE DEF RecorderInv
<1>1. /\ at = "finish" /\ at' = "last" /\ adb' = "gone" /\ out_open' = FALSE /\ Pumped
      /\ UNCHANGED <<stopping, recordings, saved, stream, server, printed, files, fed, told>>
  BY DEF FinishAdb, Go
<1>2. RecorderTypes'
  <2>1. at \in Reading
    BY <1>1 DEF Reading
  <2>2. buffer' \in Seq({"h", "n"}) /\ pipe' = <<>>
    BY <1>1, <2>1, PumpedBytes
  <2>3. pipe' \in Seq({"h", "n"})
    BY <2>2
  <2> QED BY <1>1, <2>2, <2>3 DEF RecorderTypes, Writing, files
<1>3. RowsInv'
  BY <1>1, RowsKept DEF Writing, Reading, files
<1>4. RecordedInv'
  BY <1>1, FilesKept DEF Writing, Reading, files
<1>5. BytesInv'
  BY <1>1 DEF BytesInv, Reading
<1> QED BY <1>2, <1>3, <1>4, <1>5

\* A line, or what is left of one, is fed to the parser.
LEMMA FedKeeps ==
  ASSUME RecorderInv, at = "find", at' = "flush", NEW halves \in {1, 2}, NEW row \in BOOLEAN,
         FeedHalves(halves, row), UNCHANGED <<stopping, recordings, saved, files>>,
         halves <= Len(buffer),
         fed % 2 = 0, halves = 1 => ~out_open /\ Len(buffer) = 1
  PROVE  RecorderInv'
<1> USE DEF RecorderInv
<1>1. /\ buffer' = SubSeq(buffer, halves + 1, Len(buffer)) /\ fed' = fed + halves
      /\ told' = IF row THEN told + 1 ELSE told
      /\ stream' = [stream EXCEPT !.written = IF row /\ stream.held THEN @ + 1 ELSE @, !.held = @ \/ row]
      /\ UNCHANGED <<out_open, adb, server, pipe, printed>>
  BY DEF FeedHalves
<1>2. /\ buffer \in Seq({"h", "n"}) /\ pipe \in Seq({"h", "n"}) /\ fed \in Nat /\ printed \in Nat /\ told \in Nat
      /\ stream \in [good : BOOLEAN, written : Nat, held : BOOLEAN]
  BY DEF RecorderTypes
<1>3. Len(buffer) \in Nat /\ Len(pipe) \in Nat
  BY <1>2
<1>4. /\ buffer' \in Seq({"h", "n"}) /\ Len(buffer') = Len(buffer) - halves
      /\ \A i \in 1..(Len(buffer) - halves) : buffer'[i] = buffer[i + halves]
  <2> DEFINE rest == SubSeq(buffer, halves + 1, Len(buffer))
  <2>0. halves + 1 \in Int /\ \A i \in (halves + 1)..Len(buffer) : buffer[i] \in {"h", "n"}
    BY <1>2, <1>3
  <2>1. /\ rest \in Seq({"h", "n"})
        /\ Len(rest) = IF halves + 1 <= Len(buffer) THEN Len(buffer) - (halves + 1) + 1 ELSE 0
        /\ \A i \in 1..(Len(buffer) - (halves + 1) + 1) : rest[i] = buffer[(halves + 1) + i - 1]
    BY <1>3, <2>0, SubSeqProperties
  <2>2. buffer' = rest
    BY <1>1
  <2> HIDE DEF rest
  <2>3. \A i \in 1..(Len(buffer) - halves) : (halves + 1) + i - 1 = i + halves
    BY <1>3
  <2> QED BY <1>3, <2>1, <2>2, <2>3
<1>5. stream' \in [good : BOOLEAN, written : Nat, held : BOOLEAN] /\ fed' \in Nat /\ told' \in Nat
  <2>1. fed' \in Nat
    BY <1>1, <1>2
  <2>2. told' \in Nat
    BY <1>1, <1>2
  <2>3. (IF row /\ stream.held THEN stream.written + 1 ELSE stream.written) \in Nat
    BY <1>2
  <2>4. (stream.held \/ row) \in BOOLEAN
    BY <1>2
  <2>5. stream' \in [good : BOOLEAN, written : Nat, held : BOOLEAN]
    BY <1>1, <1>2, <2>3, <2>4
  <2> QED BY <2>1, <2>2, <2>5
<1>6. RecorderTypes'
  BY <1>1, <1>4, <1>5 DEF RecorderTypes, Writing, Reading, files
<1>7. RowsInv'
  <2>1. stream.written + HeldBack = told /\ partial.of = recordings
    BY DEF RowsInv, Writing, Reading
  <2>2. stream'.written + HeldBack' = told'
    <3>1. /\ stream'.written = IF row /\ stream.held THEN stream.written + 1 ELSE stream.written
          /\ stream'.held = (stream.held \/ row)
          /\ stream.written \in Nat /\ told' = IF row THEN told + 1 ELSE told
      BY <1>1, <1>2
    <3>2. CASE row /\ stream.held
      BY <2>1, <3>1, <3>2 DEF HeldBack
    <3>3. CASE row /\ ~stream.held
      <4>1. HeldBack = 0 /\ HeldBack' = 1
        BY <3>1, <3>3 DEF HeldBack
      <4>2. stream'.written = stream.written /\ told' = told + 1
        BY <3>1, <3>3
      <4> QED BY <2>1, <3>1, <4>1, <4>2
    <3>4. CASE ~row
      BY <2>1, <3>1, <3>4 DEF HeldBack
    <3> QED BY <3>2, <3>3, <3>4
  <2> QED BY <2>1, <2>2 DEF RowsInv, files
<1>8. RecordedInv'
  BY FilesKept DEF Writing, Reading, files
<1>9. BytesInv'
  <2>1. at \in Reading /\ fed + Len(buffer) + Len(pipe) = printed
    BY DEF BytesInv, Reading
  <2>2. fed' + Len(buffer') + Len(pipe') = printed' /\ fed' + Len(buffer') = fed + Len(buffer)
    <3>1. fed' = fed + halves /\ Len(buffer') = Len(buffer) - halves /\ Len(pipe') = Len(pipe) /\ printed' = printed
      BY <1>1, <1>4
    <3>2. fed \in Nat /\ halves \in Nat
      BY <1>2
    <3>3. (fed + halves) + (Len(buffer) - halves) = fed + Len(buffer)
      BY <1>3, <3>2
    <3> QED BY <2>1, <3>1, <3>3
  <2>3. ASSUME NEW i \in 1..Len(buffer')
        PROVE  buffer'[i] = Half(fed' + i - 1)
    <3>1. i + halves \in 1..Len(buffer) /\ buffer'[i] = buffer[i + halves]
      BY <1>3, <1>4
    <3>2. buffer[i + halves] = Half(fed + (i + halves) - 1)
      BY <2>1, <3>1 DEF BytesInv
    <3>3. fed + (i + halves) - 1 = fed' + i - 1
      <4>1. fed' = fed + halves /\ fed \in Nat /\ halves \in Nat
        BY <1>1, <1>2
      <4>2. i \in Int
        OBVIOUS
      <4> QED BY <4>1, <4>2
    <3> QED BY <3>1, <3>2, <3>3
  <2>4. \A i \in 1..Len(pipe') : pipe'[i] = Half(fed' + Len(buffer') + i - 1)
    BY <1>1, <2>1, <2>2 DEF BytesInv
  <2>5. fed' % 2 = 0 \/ (~out_open' /\ buffer' = <<>>)
    <3>1. CASE halves = 2
      BY <1>1, <1>2, <3>1
    <3>2. CASE halves = 1
      <4>1. Len(buffer') = 0
        BY <1>4, <3>2
      <4>2. buffer' = <<>>
        BY <1>4, <4>1, EmptySeq
      <4> QED BY <1>1, <3>2, <4>2
    <3> QED BY <3>1, <3>2
  <2>6. ~out_open' => adb' # "runs" /\ pipe' = <<>>
    BY <1>1, <2>1 DEF BytesInv
  <2> QED BY <1>1, <2>1, <2>2, <2>3, <2>4, <2>5, <2>6 DEF BytesInv, Reading
<1> QED BY <1>6, <1>7, <1>8, <1>9

LEMMA FindKeeps == ASSUME RecorderInv, FindLine PROVE RecorderInv'
<1> USE DEF RecorderInv
<1>1. at = "find" /\ at \in Reading /\ UNCHANGED <<stopping, recordings, saved, files>>
  BY DEF FindLine, Go, Reading
<1>2. buffer \in Seq({"h", "n"}) /\ fed \in Nat /\ Len(buffer) \in Nat
  BY DEF RecorderTypes
<1>3. fed % 2 = 0 \/ buffer = <<>>
  BY <1>1 DEF BytesInv
<1>4. \A i \in 1..Len(buffer) : buffer[i] = Half(fed + i - 1)
  BY <1>1 DEF BytesInv
<1>5. CASE Contains(buffer, "n") /\ at' = "flush" /\ \E row \in BOOLEAN : FeedHalves(2, row)
  \* A line begins with "h", so its "n" comes second.
  <2>1. PICK i \in 1..Len(buffer) : buffer[i] = "n"
    BY <1>5 DEF Contains
  <2>2. fed % 2 = 0
    BY <1>2, <1>3, <2>1
  <2>3. buffer[i] = "h" \/ i # 1
    BY <1>2, <1>4, <2>2 DEF Half
  <2>4. 2 <= Len(buffer)
    BY <1>2, <2>1, <2>3
  <2> QED BY <1>1, <1>5, <2>2, <2>4, FedKeeps
<1>6. CASE ~Contains(buffer, "n") /\ ~out_open /\ buffer # <<>> /\ at' = "flush" /\ FeedHalves(1, FALSE)
  <2>1. Len(buffer) # 0 /\ fed % 2 = 0
    BY <1>2, <1>3, <1>6, EmptySeq
  <2>2. ~(2 \in 1..Len(buffer))
    <3> SUFFICES ASSUME 2 \in 1..Len(buffer) PROVE FALSE
      OBVIOUS
    <3>1. buffer[2] = Half(fed + 2 - 1)
      BY <1>4
    <3>2. Half(fed + 2 - 1) = "n"
      BY <1>2, <2>1 DEF Half
    <3> QED BY <1>6, <3>1, <3>2 DEF Contains
  <2>3. Len(buffer) = 1
    <3>1. Len(buffer) \in Nat /\ Len(buffer) # 0
      BY <1>2, <2>1
    <3> HIDE DEF RecorderInv
    <3> QED BY <2>2, <3>1
  <2>4. 1 <= Len(buffer) /\ 1 \in {1, 2} /\ FALSE \in BOOLEAN
    BY <2>3
  <2> HIDE DEF RecorderInv
  <2> QED BY <1>1, <1>6, <2>1, <2>3, <2>4, FedKeeps
<1>7. CASE ~out_open /\ buffer = <<>> /\ at' = "finish" /\ UNCHANGED <<stream, child, fed, told>>
  <2>1. RecorderTypes'
    BY <1>1, <1>7 DEF RecorderTypes, Writing, Reading, child, files
  <2>2. RowsInv' /\ RecordedInv'
    BY <1>1, <1>7, RowsKept, FilesKept DEF Writing, Reading, files
  <2>3. BytesInv'
    BY <1>1, <1>7 DEF BytesInv, Reading, child
  <2> QED BY <2>1, <2>2, <2>3
<1>8. CASE out_open /\ at' = (IF adb = "gone" THEN "drain" ELSE "pump") /\ UNCHANGED <<stream, child, fed, told>>
  <2>1. RecorderTypes'
    BY <1>1, <1>8 DEF RecorderTypes, Writing, Reading, child, files
  <2>2. RowsInv' /\ RecordedInv'
    BY <1>1, <1>8, RowsKept, FilesKept DEF Writing, Reading, files
  <2>3. BytesInv'
    BY <1>1, <1>8 DEF BytesInv, Reading, child
  <2> QED BY <2>1, <2>2, <2>3
<1> QED BY <1>5, <1>6, <1>7, <1>8 DEF FindLine, Go

LEMMA StepsKeepRecorderInv == RecorderInv /\ [RecorderNext]_recorderVars => RecorderInv'
<1> SUFFICES ASSUME RecorderInv, [RecorderNext]_recorderVars PROVE RecorderInv'
  OBVIOUS
<1>1. CASE UNCHANGED recorderVars
  BY <1>1 DEF recorderVars, child, files, RecorderInv, RecorderTypes, RowsInv, HeldBack, RecordedInv, BytesInv
<1>2. CASE Recording
  BY <1>2, PrepareKeeps, SpawnKeeps, LoopKeeps, FindKeeps, PumpKeeps, FlushKeeps, FinishAdbKeeps, LastKeeps,
     SaveKeeps, OverKeeps DEF Recording
<1>3. CASE StartRecording \/ StopRecording \/ AdbPrints \/ AdbStartsServer \/ AdbExits \/ Die
  BY <1>3, StartRecordingKeeps, StopKeeps, PrintKeeps, AdbKeeps, OverKeeps
<1> QED BY <1>1, <1>2, <1>3 DEF RecorderNext

\* An earlier recording is replaced only by one that is whole, a recording that cannot be
\* saved has left its rows in the partial file, and an adb that ends by itself is read to
\* its last byte; for any number of recordings and any length of adb's output.
\* (Recorder::run, ChildProcess::read_line and commit_recording.)
THEOREM RecordingsAreWhole == RecorderSpec => []RecordingIsKept
<1>1. RecorderInv => RecordingIsKept
  <2> SUFFICES ASSUME RecorderInv PROVE RecordingIsKept
    BY DEF RecorderInv
  <2>1. at = "finish" /\ ~stopping => fed = printed
    <3> SUFFICES ASSUME at = "finish", ~stopping PROVE fed = printed
      OBVIOUS
    <3>1. buffer = <<>> /\ pipe = <<>> /\ fed + Len(buffer) + Len(pipe) = printed
      BY DEF RecorderInv, BytesInv, Reading
    <3> QED BY <3>1 DEF RecorderInv, RecorderTypes
  <2> QED BY <2>1 DEF RecorderInv, RecordedInv, RecordingIsKept
<1> QED BY <1>1, RecorderInvInit, StepsKeepRecorderInv, PTL DEF RecorderSpec

-----------------------------------------------------------------------------
(* Settings, presets and playlists                                         *)
(* What is written reads back                                              *)

\* The settings have these parts; of a device's own there is one value or none.
IsSettings(s) ==
  /\ s = [api |-> s.api, place |-> s.place, look |-> s.look, default |-> s.default,
          device |-> s.device]
  /\ s.device = {} \/ \E v \in s.device : s.device = {v}

\* The lines of the settings, one by one.
LEMMA SettingsLines ==
  ASSUME NEW s
  PROVE  /\ Len(SettingsText(s)) = IF s.device = {} THEN 5 ELSE 7
         /\ SettingsText(s)[1] = Assign("api", s.api)
         /\ SettingsText(s)[2] = Assign("place", s.place)
         /\ SettingsText(s)[3] = Assign("look", s.look)
         /\ SettingsText(s)[4] = Head1("default")
         /\ SettingsText(s)[5] = Assign("hid", s.default)
         /\ s.device # {} => /\ SettingsText(s)[6] = Head1("device")
                             /\ SettingsText(s)[7] = Assign("hid", CHOOSE v \in s.device : TRUE)
<1> DEFINE l1 == Assign("api", s.api)
           l2 == Assign("place", s.place)
           l3 == Assign("look", s.look)
           l4 == Head1("default")
           l5 == Assign("hid", s.default)
           l6 == Head1("device")
           l7 == Assign("hid", CHOOSE v \in s.device : TRUE)
           S == {l1, l2, l3, l4, l5, l6, l7}
           a == <<l1, l2>>
           b == <<l3>>
           c == <<l4, l5>>
           d == IF s.device = {} THEN <<>> ELSE <<l6, l7>>
           ab == a \o b
           abc == ab \o c
<1>1. SettingsText(s) = abc \o d
  BY DEF SettingsText, LookText, Section
<1>2. l1 \in S /\ l2 \in S /\ l3 \in S /\ l4 \in S /\ l5 \in S /\ l6 \in S /\ l7 \in S
  OBVIOUS
<1> HIDE DEF l1, l2, l3, l4, l5, l6, l7, S
<1>3. /\ a \in Seq(S) /\ Len(a) = 2 /\ a[1] = l1 /\ a[2] = l2
      /\ b \in Seq(S) /\ Len(b) = 1 /\ b[1] = l3
      /\ c \in Seq(S) /\ Len(c) = 2 /\ c[1] = l4 /\ c[2] = l5
  BY <1>2
<1>4. /\ d \in Seq(S) /\ Len(d) = IF s.device = {} THEN 0 ELSE 2
      /\ s.device # {} => d[1] = l6 /\ d[2] = l7
  BY <1>2
<1> HIDE DEF a, b, c, d
<1>5. ab \in Seq(S) /\ Len(ab) = 3 /\ ab[1] = l1 /\ ab[2] = l2 /\ ab[3] = l3
  <2>1. /\ ab \in Seq(S) /\ Len(ab) = Len(a) + Len(b)
        /\ \A n \in 1..(Len(a) + Len(b)) : ab[n] = IF n <= Len(a) THEN a[n] ELSE b[n - Len(a)]
    BY <1>3, ConcatProperties
  <2> HIDE DEF ab
  <2> QED BY <1>3, <2>1
<1> HIDE DEF ab
<1>6. /\ abc \in Seq(S) /\ Len(abc) = 5 /\ abc[1] = l1 /\ abc[2] = l2 /\ abc[3] = l3
      /\ abc[4] = l4 /\ abc[5] = l5
  <2>1. /\ abc \in Seq(S) /\ Len(abc) = Len(ab) + Len(c)
        /\ \A n \in 1..(Len(ab) + Len(c)) : abc[n] = IF n <= Len(ab) THEN ab[n] ELSE c[n - Len(ab)]
    BY <1>3, <1>5, ConcatProperties
  <2> HIDE DEF abc
  <2> QED BY <1>3, <1>5, <2>1
<1> HIDE DEF abc
<1> DEFINE t == abc \o d
<1>7. /\ Len(t) = Len(abc) + Len(d)
      /\ \A n \in 1..(Len(abc) + Len(d)) : t[n] = IF n <= Len(abc) THEN abc[n] ELSE d[n - Len(abc)]
  BY <1>4, <1>6, ConcatProperties
<1> HIDE DEF t
<1>8. /\ Len(t) = IF s.device = {} THEN 5 ELSE 7
      /\ t[1] = l1 /\ t[2] = l2 /\ t[3] = l3 /\ t[4] = l4 /\ t[5] = l5
      /\ s.device # {} => t[6] = l6 /\ t[7] = l7
  BY <1>4, <1>6, <1>7
<1>9. SettingsText(s) = t
  BY <1>1 DEF t
<1> QED BY <1>8, <1>9 DEF l1, l2, l3, l4, l5, l6, l7

\* L lines are read from r[0]: what each step leaves is what is read.
Reads(r, L, text, s) ==
  r = [n \in 0..L |-> IF n = 0 THEN Unread(s) ELSE ReadSetting(r[n - 1], text[n])]

\* The settings line by line, as ReadOver reads them.
SettingsSteps(w, L, text, s) ==
  /\ w[0] = Unread(s)
  /\ \A n \in 1..L : ReadSetting(w[n - 1], text[n]) = w[n]

LEMMA SettingsAreRead ==
  ASSUME NEW text, NEW s, NEW L \in Nat, NEW w, SettingsSteps(w, L, text, s)
  PROVE  \E r : Reads(r, L, text, s) /\ r[L] = w[L]
<1> DEFINE f == [n \in 0..L |-> w[n]]
<1>1. ASSUME NEW n \in 0..L
      PROVE  f[n] = IF n = 0 THEN Unread(s) ELSE ReadSetting(f[n - 1], text[n])
  <2>1. f[n] = w[n]
    OBVIOUS
  <2>2. CASE n # 0
    <3>1. n \in 1..L /\ n - 1 \in 0..L
      BY <2>2
    <3>2. f[n - 1] = w[n - 1]
      BY <3>1
    <3>3. ReadSetting(w[n - 1], text[n]) = w[n]
      BY <3>1, Zenon DEF SettingsSteps
    <3> HIDE DEF f
    <3> QED BY <2>1, <2>2, <3>2, <3>3, Zenon
  <2> HIDE DEF f
  <2> QED BY <2>1, <2>2, Zenon DEF SettingsSteps
<1>2. Reads(f, L, text, s)
  BY <1>1, Zenon DEF Reads
<1>3. f[L] = w[L]
  OBVIOUS
<1> HIDE DEF f
<1> QED BY <1>2, <1>3, Zenon

LEMMA SettingsAreDetermined ==
  ASSUME NEW text, NEW s, NEW L \in Nat, NEW w, SettingsSteps(w, L, text, s),
         NEW r, Reads(r, L, text, s)
  PROVE  r[L] = w[L]
<1> DEFINE T == {n \in 0..L : r[n] = w[n]}
<1>1. \A n \in 0..L : r[n] = IF n = 0 THEN Unread(s) ELSE ReadSetting(r[n - 1], text[n])
  BY Zenon DEF Reads
<1>2. 0 \in T
  <2>1. 0 \in 0..L
    OBVIOUS
  <2>2. r[0] = Unread(s)
    BY <1>1, <2>1, Zenon
  <2> QED BY <2>1, <2>2, Zenon DEF SettingsSteps
<1>3. ASSUME NEW n \in 1..L, n - 1 \in T PROVE n \in T
  <2>1. n \in 0..L /\ n # 0
    OBVIOUS
  <2>2. r[n] = ReadSetting(r[n - 1], text[n])
    BY <1>1, <2>1, Zenon
  <2>3. r[n - 1] = w[n - 1]
    BY <1>3, Zenon
  <2>4. r[n] = w[n]
    BY <2>2, <2>3, Zenon DEF SettingsSteps
  <2> QED BY <2>1, <2>4, Zenon
<1>4. L \in 0..L
  OBVIOUS
<1>5. 0..L \subseteq T
  <2> HIDE DEF T
  <2> QED BY <1>2, <1>3, StepByStep, Zenon
<1> QED BY <1>4, <1>5, Zenon

LEMMA SettingsRead ==
  ASSUME NEW text, NEW s, Len(text) \in Nat, NEW w, SettingsSteps(w, Len(text), text, s)
  PROVE  ReadOver(text, s) = w[Len(text)].s
<1> DEFINE L == Len(text)
           r == CHOOSE r : r = [n \in 0..L |->
                                  IF n = 0 THEN Unread(s) ELSE ReadSetting(r[n - 1], text[n])]
<1>1. ReadOver(text, s) = r[L].s
  BY DEF ReadOver
<1>2. \E f : Reads(f, L, text, s)
  BY SettingsAreRead, Zenon
<1>3. Reads(r, L, text, s)
  BY <1>2, Zenon DEF Reads
<1> HIDE DEF r
<1>4. r[L] = w[L]
  <2>1. L \in Nat /\ SettingsSteps(w, L, text, s)
    BY Zenon
  <2> HIDE DEF L
  <2> QED BY <1>3, <2>1, SettingsAreDetermined
<1> QED BY <1>1, <1>4, Zenon

\* What the App reads from the settings' file is what it had when it wrote it.
LEMMA SettingsReadBack ==
  ASSUME NEW s, IsSettings(s)
  PROVE  ReadOver(SettingsText(s), Defaults) = s
<1> DEFINE text == SettingsText(s)
           St(address, place, look, default, device) ==
             [api |-> address, place |-> place, look |-> look, default |-> default, device |-> device]
           v7 == CHOOSE v \in s.device : TRUE
           r0 == [to |-> "", s |-> St(0, 0, 0, 0, {})]
           r1 == [to |-> "", s |-> St(s.api, 0, 0, 0, {})]
           r2 == [to |-> "", s |-> St(s.api, s.place, 0, 0, {})]
           r3 == [to |-> "", s |-> St(s.api, s.place, s.look, 0, {})]
           r4 == [to |-> "default", s |-> St(s.api, s.place, s.look, 0, {})]
           r5 == [to |-> "default", s |-> St(s.api, s.place, s.look, s.default, {})]
           r6 == [to |-> "device", s |-> St(s.api, s.place, s.look, s.default, {s.default})]
           r7 == [to |-> "device", s |-> St(s.api, s.place, s.look, s.default, {v7})]
           w == [n \in 0..7 |->
                   CASE n = 0 -> r0 [] n = 1 -> r1 [] n = 2 -> r2 [] n = 3 -> r3
                     [] n = 4 -> r4 [] n = 5 -> r5 [] n = 6 -> r6 [] n = 7 -> r7]
<1>1. /\ ReadSetting(r0, text[1]) = r1 /\ ReadSetting(r1, text[2]) = r2
      /\ ReadSetting(r2, text[3]) = r3 /\ ReadSetting(r3, text[4]) = r4
      /\ ReadSetting(r4, text[5]) = r5
  <2>1. /\ text[1] = Assign("api", s.api) /\ text[2] = Assign("place", s.place)
        /\ text[3] = Assign("look", s.look) /\ text[4] = Head1("default")
        /\ text[5] = Assign("hid", s.default)
    BY SettingsLines, Zenon
  <2> HIDE DEF text
  <2>2. ReadSetting(r0, Assign("api", s.api)) = r1
    BY DEF ReadSetting, Assign
  <2>3. ReadSetting(r1, Assign("place", s.place)) = r2
    BY DEF ReadSetting, Assign
  <2>4. ReadSetting(r2, Assign("look", s.look)) = r3
    BY DEF ReadSetting, Assign
  <2>5. ReadSetting(r3, Head1("default")) = r4
    BY DEF ReadSetting, Head1
  <2>6. ReadSetting(r4, Assign("hid", s.default)) = r5
    BY DEF ReadSetting, Assign
  <2> HIDE DEF r0, r1, r2, r3, r4, r5
  <2> QED BY <2>1, <2>2, <2>3, <2>4, <2>5, <2>6, Zenon
<1>6. s.device # {} => ReadSetting(r5, text[6]) = r6 /\ ReadSetting(r6, text[7]) = r7
  <2>1. s.device # {} => text[6] = Head1("device") /\ text[7] = Assign("hid", v7)
    BY SettingsLines, Zenon
  <2> HIDE DEF text, v7
  <2>2. ReadSetting(r5, Head1("device")) = r6
    BY DEF ReadSetting, Head1
  <2>3. ReadSetting(r6, Assign("hid", v7)) = r7
    BY DEF ReadSetting, Assign
  <2> HIDE DEF r5, r6, r7
  <2> QED BY <2>1, <2>2, <2>3, Zenon
<1>8. Len(text) = IF s.device = {} THEN 5 ELSE 7
  BY SettingsLines
<1>9. r0 = Unread(Defaults)
  BY DEF Defaults, Unread
<1>10. s = IF s.device = {} THEN r5.s ELSE r7.s
  <2>1. s.device # {} => s.device = {v7}
    BY DEF IsSettings
  <2> HIDE DEF v7
  <2>2. CASE s.device = {}
    BY <2>2 DEF IsSettings
  <2>3. CASE s.device # {}
    BY <2>1, <2>3 DEF IsSettings
  <2> QED BY <2>2, <2>3
<1> HIDE DEF text, r0, r1, r2, r3, r4, r5, r6, r7
<1>11. /\ w[0] = r0 /\ w[1] = r1 /\ w[2] = r2 /\ w[3] = r3
       /\ w[4] = r4 /\ w[5] = r5 /\ w[6] = r6 /\ w[7] = r7
  OBVIOUS
<1> HIDE DEF w
<1>12. \A n \in 1..5 : ReadSetting(w[n - 1], text[n]) = w[n]
  BY <1>1, <1>11
<1>13. s.device # {} => \A n \in 6..7 : ReadSetting(w[n - 1], text[n]) = w[n]
  BY <1>6, <1>11
<1>14. ReadOver(text, Defaults) = w[Len(text)].s
  <2>1. Len(text) \in Nat /\ \A n \in 1..Len(text) : n \in 1..5 \/ (s.device # {} /\ n \in 6..7)
    BY <1>8
  <2>2. w[0] = Unread(Defaults)
    BY <1>9, <1>11
  <2>3. \A n \in 1..Len(text) : ReadSetting(w[n - 1], text[n]) = w[n]
    BY <1>12, <1>13, <2>1, Zenon
  <2> QED BY <2>1, <2>2, <2>3, SettingsRead, Zenon DEF SettingsSteps
<1>15. w[Len(text)].s = s
  BY <1>8, <1>10, <1>11
<1> QED BY <1>14, <1>15 DEF text

\* The same for the lines of a playlist.
ReadsPlays(r, L, text) ==
  r = [n \in 0..L |-> IF n = 0 THEN NoPlays ELSE ReadPlay(r[n - 1], text[n])]

\* A playlist line by line, as ReadPlaylist reads it.
PlaysSteps(w, L, text) ==
  /\ w[0] = NoPlays
  /\ \A n \in 1..L : ReadPlay(w[n - 1], text[n]) = w[n]

LEMMA PlaysAreRead ==
  ASSUME NEW text, NEW L \in Nat, NEW w, PlaysSteps(w, L, text)
  PROVE  \E r : ReadsPlays(r, L, text) /\ r[L] = w[L]
<1> DEFINE f == [n \in 0..L |-> w[n]]
<1>1. ASSUME NEW n \in 0..L
      PROVE  f[n] = IF n = 0 THEN NoPlays ELSE ReadPlay(f[n - 1], text[n])
  <2>1. f[n] = w[n]
    OBVIOUS
  <2>2. CASE n # 0
    <3>1. n \in 1..L /\ n - 1 \in 0..L
      BY <2>2
    <3>2. f[n - 1] = w[n - 1]
      BY <3>1
    <3>3. ReadPlay(w[n - 1], text[n]) = w[n]
      BY <3>1, Zenon DEF PlaysSteps
    <3> HIDE DEF f
    <3> QED BY <2>1, <2>2, <3>2, <3>3, Zenon
  <2> HIDE DEF f
  <2> QED BY <2>1, <2>2, Zenon DEF PlaysSteps
<1>2. ReadsPlays(f, L, text)
  BY <1>1, Zenon DEF ReadsPlays
<1>3. f[L] = w[L]
  OBVIOUS
<1> HIDE DEF f
<1> QED BY <1>2, <1>3, Zenon

LEMMA PlaysAreDetermined ==
  ASSUME NEW text, NEW L \in Nat, NEW w, PlaysSteps(w, L, text),
         NEW r, ReadsPlays(r, L, text)
  PROVE  r[L] = w[L]
<1> DEFINE T == {n \in 0..L : r[n] = w[n]}
<1>1. \A n \in 0..L : r[n] = IF n = 0 THEN NoPlays ELSE ReadPlay(r[n - 1], text[n])
  BY Zenon DEF ReadsPlays
<1>2. 0 \in T
  <2>1. 0 \in 0..L
    OBVIOUS
  <2>2. r[0] = NoPlays
    BY <1>1, <2>1, Zenon
  <2> QED BY <2>1, <2>2, Zenon DEF PlaysSteps
<1>3. ASSUME NEW n \in 1..L, n - 1 \in T PROVE n \in T
  <2>1. n \in 0..L /\ n # 0
    OBVIOUS
  <2>2. r[n] = ReadPlay(r[n - 1], text[n])
    BY <1>1, <2>1, Zenon
  <2>3. r[n - 1] = w[n - 1]
    BY <1>3, Zenon
  <2>4. r[n] = w[n]
    BY <2>2, <2>3, Zenon DEF PlaysSteps
  <2> QED BY <2>1, <2>4, Zenon
<1>4. L \in 0..L
  OBVIOUS
<1>5. 0..L \subseteq T
  <2> HIDE DEF T
  <2> QED BY <1>2, <1>3, StepByStep, Zenon
<1> QED BY <1>4, <1>5, Zenon

LEMMA PlaysRead ==
  ASSUME NEW text, Len(text) \in Nat, NEW w, PlaysSteps(w, Len(text), text)
  PROVE  ReadPlaylist(text) = w[Len(text)]
<1> DEFINE L == Len(text)
           r == CHOOSE r : r = [n \in 0..L |->
                                  IF n = 0 THEN NoPlays ELSE ReadPlay(r[n - 1], text[n])]
<1>1. ReadPlaylist(text) = r[L]
  BY DEF ReadPlaylist
<1>2. \E f : ReadsPlays(f, L, text)
  BY PlaysAreRead, Zenon
<1>3. ReadsPlays(r, L, text)
  BY <1>2, Zenon DEF ReadsPlays
<1> HIDE DEF r
<1>4. r[L] = w[L]
  <2>1. L \in Nat /\ PlaysSteps(w, L, text)
    BY Zenon
  <2> HIDE DEF L
  <2> QED BY <1>3, <2>1, PlaysAreDetermined
<1> QED BY <1>1, <1>4, Zenon

\* The lines of a playlist: the loops, then its plays in their order.
LEMMA PlaylistLines ==
  ASSUME NEW p, p.plays \in Seq(Nat)
  PROVE  /\ Len(PlaylistText(p)) = Len(p.plays) + 1
         /\ PlaylistText(p)[1] = Assign("loops", p.loops)
         /\ \A n \in 1..Len(p.plays) : PlaylistText(p)[n + 1] = Assign("play", p.plays[n])
<1> DEFINE l1 == Assign("loops", p.loops)
           S == {l1} \union {Assign("play", v) : v \in Nat}
           a == <<l1>>
           b == [i \in DOMAIN p.plays |-> Assign("play", p.plays[i])]
           t == a \o b
<1>1. PlaylistText(p) = t
  BY DEF PlaylistText
<1>2. Len(p.plays) \in Nat /\ DOMAIN p.plays = 1..Len(p.plays)
  OBVIOUS
<1>3. \A i \in DOMAIN p.plays : Assign("play", p.plays[i]) \in S
  <2> TAKE i \in DOMAIN p.plays
  <2>1. p.plays[i] \in Nat
    OBVIOUS
  <2> QED BY <2>1, Zenon
<1>4. l1 \in S
  OBVIOUS
<1> HIDE DEF S, l1
<1>5. a \in Seq(S) /\ Len(a) = 1 /\ a[1] = l1
  BY <1>4
<1>6. b \in Seq(S) /\ Len(b) = Len(p.plays) /\ \A i \in 1..Len(p.plays) : b[i] = Assign("play", p.plays[i])
  <2>1. b \in [1..Len(p.plays) -> S]
    BY <1>2, <1>3, Zenon
  <2>2. DOMAIN b = 1..Len(p.plays) /\ \A i \in 1..Len(p.plays) : b[i] = Assign("play", p.plays[i])
    BY <1>2, Zenon
  <2> HIDE DEF b
  <2>3. b \in Seq(S) /\ Len(b) = Len(p.plays)
    BY <1>2, <2>1
  <2> QED BY <2>2, <2>3
<1> HIDE DEF a, b
<1>7. /\ Len(t) = Len(a) + Len(b)
      /\ \A n \in 1..(Len(a) + Len(b)) : t[n] = IF n <= Len(a) THEN a[n] ELSE b[n - Len(a)]
  BY <1>5, <1>6, ConcatProperties
<1> HIDE DEF t
<1>8. /\ Len(t) = Len(p.plays) + 1 /\ t[1] = l1
  BY <1>2, <1>5, <1>6, <1>7
<1>9. ASSUME NEW n \in 1..Len(p.plays) PROVE t[n + 1] = Assign("play", p.plays[n])
  <2>1. t[n + 1] = b[n]
    BY <1>2, <1>5, <1>6, <1>7
  <2> QED BY <1>6, <2>1, Zenon
<1> QED BY <1>1, <1>8, <1>9, Zenon DEF l1

\* What is read from a playlist's file is what was shown when it was saved.
LEMMA PlaylistReadBack ==
  ASSUME NEW p, p.plays \in Seq(Nat)
  PROVE  ReadPlaylist(PlaylistText(p)) = [loops |-> p.loops, plays |-> p.plays]
<1> DEFINE q == p.plays
           text == PlaylistText(p)
           W(n) == [loops |-> p.loops, plays |-> SubSeq(q, 1, n - 1)]
           w == [n \in 0..Len(text) |-> IF n = 0 THEN NoPlays ELSE W(n)]
<1>1. q \in Seq(Nat) /\ Len(q) \in Nat
  OBVIOUS
<1>2. /\ Len(text) = Len(q) + 1 /\ text[1] = Assign("loops", p.loops)
      /\ \A n \in 1..Len(q) : text[n + 1] = Assign("play", q[n])
  BY PlaylistLines
<1> HIDE DEF text
<1>3. ReadPlay(NoPlays, Assign("loops", p.loops)) = W(1)
  <2>1. SubSeq(q, 1, 0) = <<>>
    BY SubSeqEmpty
  <2> QED BY <2>1 DEF ReadPlay, NoPlays, Assign
<1>4. ASSUME NEW n \in 1..Len(q)
      PROVE  ReadPlay(W(n), Assign("play", q[n])) = W(n + 1)
  <2>1. Append(SubSeq(q, 1, n - 1), q[n]) = SubSeq(q, 1, n)
    <3>1. SubSeq(q, 1, n) = SubSeq(q, 1, n - 1) \o <<q[n]>>
      BY <1>1, SubSeqRecursiveSecond
    <3>2. SubSeq(q, 1, n - 1) \in Seq(Nat) /\ q[n] \in Nat
      BY <1>1, SubSeqProperties
    <3> QED BY <3>1, <3>2, AppendIsConcat, Zenon
  <2>2. (n + 1) - 1 = n
    OBVIOUS
  <2> HIDE DEF q
  <2> QED BY <2>1, <2>2 DEF ReadPlay, Assign
<1>5. PlaysSteps(w, Len(text), text)
  <2>1. w[0] = NoPlays /\ w[1] = W(1)
    BY <1>1, <1>2
  <2>2. ASSUME NEW n \in 2..Len(text) PROVE w[n] = W(n) /\ w[n - 1] = W(n - 1)
    BY <1>1, <1>2
  <2> HIDE DEF w, W
  <2>3. ASSUME NEW n \in 1..Len(text) PROVE ReadPlay(w[n - 1], text[n]) = w[n]
    <3>1. CASE n = 1
      BY <1>2, <1>3, <2>1, <3>1
    <3>2. CASE n # 1
      <4>1. n \in 2..Len(text) /\ n - 1 \in 1..Len(q) /\ (n - 1) + 1 = n
        BY <1>1, <1>2, <3>2
      <4>2. ReadPlay(W(n - 1), Assign("play", q[n - 1])) = W((n - 1) + 1)
        BY <1>4, <4>1, Zenon
      <4>3. text[(n - 1) + 1] = Assign("play", q[n - 1])
        BY <1>2, <4>1, Zenon
      <4>4. ReadPlay(W(n - 1), text[n]) = W(n)
        BY <4>1, <4>2, <4>3
      <4> QED BY <2>2, <4>1, <4>4, Zenon
    <3> QED BY <3>1, <3>2
  <2> QED BY <2>1, <2>3, Zenon DEF PlaysSteps
<1>6. w[Len(text)] = [loops |-> p.loops, plays |-> q]
  <2>1. SubSeq(q, 1, Len(q)) = q
    BY <1>1, SubSeqFull, Zenon
  <2>2. Len(text) \in 0..Len(text) /\ Len(text) # 0 /\ Len(text) - 1 = Len(q)
    BY <1>1, <1>2
  <2> HIDE DEF q
  <2> QED BY <2>1, <2>2
<1> HIDE DEF w
<1>7. Len(text) \in Nat
  BY <1>1, <1>2
<1> QED BY <1>5, <1>6, <1>7, PlaysRead, Zenon DEF text

-----------------------------------------------------------------------------
(* The invariant                                                           *)

\* A text under a name is what some state of the App is written as.
MeantText(f, t) ==
  /\ f = "settings" => \E s : IsSettings(s) /\ t = SettingsText(s)
  /\ f \in Playlists => \E p : p.plays \in Seq(Nat) /\ t = PlaylistText(p)

\* Each text that was written was meant for its file.
MeantTexts(T) == \A f, t : <<f, t>> \in T => MeantText(f, t)

\* Every file is whole: its text is one that was to be saved under its name.
WholeFiles(d, T) == \A f \in d.there : <<f, d.text[f]>> \in T

\* The types of what the stores keep.
PartsInv ==
  /\ saving = [step |-> saving.step, file |-> saving.file, text |-> saving.text,
               temporary |-> saving.temporary]
  /\ saving.file \in Stored
  /\ disk = [there |-> disk.there, text |-> disk.text]
  /\ disk.there \subseteq Stored /\ disk.text = [f \in Stored |-> disk.text[f]]
  /\ past = [failed |-> past.failed, deleted |-> past.deleted, died |-> past.died,
             texts |-> past.texts]
  /\ playlist = [name |-> playlist.name, typed |-> playlist.typed, loops |-> playlist.loops,
                 plays |-> playlist.plays, dirty |-> playlist.dirty]
  /\ playlist.name \in Playlists \union {""} /\ playlist.typed \in Playlists \union {""}
  /\ playlist.plays \in Seq(Nat)

\* Every file on the disk is whole: it is a text that was meant for it.
FilesInv == MeantTexts(past.texts) /\ WholeFiles(disk, past.texts)

\* What is being saved is what is shown: nobody edits while a file is written.
SavingInv ==
  /\ saving.step = "no" => saving = Idle
  /\ saving.step # "no" => /\ <<saving.file, saving.text>> \in past.texts
                           /\ program # "closed"
                           /\ saving.file = "settings" => saving.text = SettingsText(shown)
                           /\ saving.file \in Playlists => saving.text = PlaylistText(playlist)
  /\ saving.step = "rename" => saving.temporary = saving.text

\* What the settings were read from.
SettingsInv ==
  /\ IsSettings(shown) /\ IsSettings(saved_settings)
  /\ ~past.failed /\ ~past.died => LoadSettings = saved_settings
  /\ program = "closed" /\ ~past.died => shown = saved_settings

\* What the playlists were read from.
PlaylistInv ==
  program = "runs" /\ playlist.name # "" /\ ~playlist.dirty /\ ~past.deleted =>
    /\ playlist.name \in disk.there
    /\ ReadPlaylist(disk.text[playlist.name]) = [loops |-> playlist.loops, plays |-> playlist.plays]

\* The invariant of the stores.
StoresInv == PartsInv /\ FilesInv /\ SavingInv /\ SettingsInv /\ PlaylistInv

LEMMA InvImplies == StoresInv => SavedIsOnDisk
<1> SUFFICES ASSUME StoresInv PROVE SavedIsOnDisk
  OBVIOUS
<1>1. \A f \in disk.there : <<f, disk.text[f]>> \in past.texts
  BY Zenon DEF StoresInv, FilesInv, WholeFiles
<1>2. saving = Idle /\ ~past.failed /\ ~past.died /\ (program = "closed" \/ shown = saved_settings)
        => LoadSettings = shown
  BY Zenon DEF StoresInv, SettingsInv
<1>3. program = "runs" /\ saving = Idle /\ playlist.name # "" /\ ~playlist.dirty /\ ~past.deleted =>
        /\ playlist.name \in disk.there
        /\ ReadPlaylist(disk.text[playlist.name]) = [loops |-> playlist.loops, plays |-> playlist.plays]
  BY Zenon DEF StoresInv, PlaylistInv
<1> QED BY <1>1, <1>2, <1>3, Zenon DEF SavedIsOnDisk

-----------------------------------------------------------------------------
(* What the steps of the proof share                                       *)

\* A change of one part leaves settings.
LEMMA ChangedSettings ==
  ASSUME NEW s, IsSettings(s), NEW v
  PROVE  /\ IsSettings([s EXCEPT !.api = v]) /\ IsSettings([s EXCEPT !.place = v])
         /\ IsSettings([s EXCEPT !.look = v]) /\ IsSettings([s EXCEPT !.default = v])
         /\ IsSettings([s EXCEPT !.device = {v}])
<1>1. IsSettings([s EXCEPT !.api = v])
  BY DEF IsSettings
<1>2. IsSettings([s EXCEPT !.place = v])
  BY DEF IsSettings
<1>3. IsSettings([s EXCEPT !.look = v])
  BY DEF IsSettings
<1>4. IsSettings([s EXCEPT !.default = v])
  BY DEF IsSettings
<1>5. IsSettings([s EXCEPT !.device = {v}])
  BY DEF IsSettings
<1> QED BY <1>1, <1>2, <1>3, <1>4, <1>5

LEMMA DefaultSettings == IsSettings(Defaults)
  BY DEF IsSettings, Defaults

\* The App starts with settings, whatever is on the disk.
LEMMA LoadedSettings ==
  ASSUME MeantTexts(past.texts), WholeFiles(disk, past.texts)
  PROVE  IsSettings(LoadSettings)
<1>1. CASE "settings" \notin disk.there
  BY <1>1, DefaultSettings, Zenon DEF LoadSettings
<1>2. CASE "settings" \in disk.there
  <2>1. PICK s : IsSettings(s) /\ disk.text["settings"] = SettingsText(s)
    BY <1>2, Zenon DEF MeantTexts, WholeFiles, MeantText
  <2>2. LoadSettings = ReadOver(SettingsText(s), Defaults)
    BY <1>2, <2>1, Zenon DEF LoadSettings
  <2> QED BY <2>1, <2>2, SettingsReadBack, Zenon
<1> QED BY <1>1, <1>2, Zenon

\* And opens playlists.
LEMMA LoadedPlaylist ==
  ASSUME MeantTexts(past.texts), WholeFiles(disk, past.texts), NEW f \in Playlists, f \in disk.there
  PROVE  \E p : /\ p.plays \in Seq(Nat)
                /\ ReadPlaylist(disk.text[f]) = [loops |-> p.loops, plays |-> p.plays]
<1>1. PICK p : p.plays \in Seq(Nat) /\ disk.text[f] = PlaylistText(p)
  BY Zenon DEF MeantTexts, WholeFiles, MeantText
<1> QED BY <1>1, PlaylistReadBack, Zenon

\* One more text is meant, and the files stay whole.
LEMMA OneMoreText ==
  ASSUME NEW T, MeantTexts(T), NEW f, NEW t, MeantText(f, t)
  PROVE  MeantTexts(T \union {<<f, t>>})
<1> SUFFICES ASSUME NEW g, NEW u, <<g, u>> \in T \union {<<f, t>>}
             PROVE  MeantText(g, u)
  BY Zenon DEF MeantTexts
<1>1. CASE <<g, u>> \in T
  BY <1>1, Zenon DEF MeantTexts
<1>2. CASE <<g, u>> = <<f, t>>
  <2>1. g = f /\ u = t
    BY <1>2
  <2> QED BY <2>1, Zenon
<1> QED BY <1>1, <1>2, Zenon

-----------------------------------------------------------------------------
(* A file is written                                                       *)

\* A save begins: of what is shown, and nothing is done to the disk.
LEMMA WriteBegins ==
  ASSUME StoresInv, NEW file \in Stored, NEW text, MeantText(file, text), Write(file, text),
         file = "settings" => text = SettingsText(shown),
         file \in Playlists => text = PlaylistText(playlist),
         program = "runs", program' \in {"runs", "closing"},
         UNCHANGED <<shown, saved_settings, playlist, disk>>
  PROVE  StoresInv'
<1> USE DEF StoresInv
<1>1. /\ saving' = [step |-> "open", file |-> file, text |-> text, temporary |-> <<>>]
      /\ shown' = shown /\ saved_settings' = saved_settings /\ playlist' = playlist /\ disk' = disk
  BY Zenon DEF Write
<1>2. past' = [failed |-> past.failed, deleted |-> past.deleted, died |-> past.died,
               texts |-> past.texts \union {<<file, text>>}]
  BY DEF Write, PartsInv
<1>3. /\ past'.failed = past.failed /\ past'.deleted = past.deleted /\ past'.died = past.died
      /\ past'.texts = past.texts \union {<<file, text>>}
  BY <1>2
<1>4. /\ saving'.step = "open" /\ saving'.file = file /\ saving'.text = text
  BY <1>1
<1>5. PartsInv'
  BY <1>1, <1>2 DEF PartsInv
<1>6. FilesInv'
  <2>1. MeantTexts(past'.texts)
    <3>1. MeantTexts(past.texts)
      BY Zenon DEF FilesInv
    <3>2. MeantTexts(past.texts \union {<<file, text>>})
      BY <3>1, OneMoreText, Zenon
    <3> QED BY <1>3, <3>2, Zenon
  <2>2. WholeFiles(disk', past'.texts)
    BY <1>1, <1>3, Zenon DEF FilesInv, WholeFiles
  <2> QED BY <2>1, <2>2, Zenon DEF FilesInv
<1>7. SavingInv'
  <2>1. saving'.step # "no" /\ saving'.step # "rename" /\ program' # "closed"
    BY <1>4
  <2>2. <<saving'.file, saving'.text>> \in past'.texts
    BY <1>3, <1>4, Zenon
  <2> QED BY <1>1, <1>4, <2>1, <2>2, Zenon DEF SavingInv
<1>8. SettingsInv'
  <2>1. LoadSettings' = LoadSettings
    BY <1>1, Zenon DEF LoadSettings
  <2>2. program' # "closed"
    OBVIOUS
  <2> QED BY <1>1, <1>3, <2>1, <2>2, Zenon DEF SettingsInv
<1>9. PlaylistInv'
  BY <1>1, <1>3, Zenon DEF PlaylistInv
<1> QED BY <1>5, <1>6, <1>7, <1>8, <1>9, Zenon

\* A save fails, at whichever step: the files are what they were.
LEMMA SaveFails ==
  ASSUME StoresInv, saving.step # "no", SaveEnds(FALSE), UNCHANGED <<shown, disk>>
  PROVE  StoresInv'
<1> USE DEF StoresInv
<1>1. saving' = Idle /\ shown' = shown /\ disk' = disk
  BY Zenon DEF SaveEnds
<1>2. playlist' = playlist
  BY Zenon DEF SaveEnds
<1>3. saving'.step = "no" /\ saving'.file = "settings"
  BY <1>1 DEF Idle
<1>4. LoadSettings' = LoadSettings
  BY <1>1, Zenon DEF LoadSettings
<1>5. CASE saving.file = "settings"
  <2>1. saved_settings' = shown /\ program' = ClosedProgram
    BY <1>5, Zenon DEF SaveEnds
  <2>2. past' = [failed |-> TRUE, deleted |-> past.deleted, died |-> past.died, texts |-> past.texts]
    BY <1>5 DEF SaveEnds, PartsInv
  <2>3. past'.failed /\ past'.deleted = past.deleted /\ past'.texts = past.texts
    BY <2>2
  <2>4. PartsInv'
    BY <1>1, <1>2, <2>2 DEF PartsInv, Idle, Stored
  <2>5. FilesInv'
    BY <1>1, <2>3, Zenon DEF FilesInv
  <2>6. SavingInv'
    BY <1>1, <1>3 DEF SavingInv
  <2>7. SettingsInv'
    BY <1>1, <2>1, <2>3, Zenon DEF SettingsInv
  <2>8. PlaylistInv'
    <3>1. program' = "runs" => program = "runs"
      BY <2>1 DEF ClosedProgram
    <3> QED BY <1>1, <1>2, <2>3, <3>1, Zenon DEF PlaylistInv
  <2> QED BY <2>4, <2>5, <2>6, <2>7, <2>8, Zenon
<1>6. CASE saving.file # "settings"
  <2>1. saved_settings' = saved_settings /\ program' = program /\ past' = past
    BY <1>6, Zenon DEF SaveEnds
  <2>2. PartsInv'
    BY <1>1, <1>2, <2>1 DEF PartsInv, Idle, Stored
  <2>3. FilesInv'
    BY <1>1, <2>1, Zenon DEF FilesInv
  <2>4. SavingInv'
    BY <1>1, <1>3 DEF SavingInv
  <2>5. SettingsInv'
    BY <1>1, <1>4, <2>1, Zenon DEF SettingsInv
  <2>6. PlaylistInv'
    BY <1>1, <1>2, <2>1, Zenon DEF PlaylistInv
  <2> QED BY <2>2, <2>3, <2>4, <2>5, <2>6, Zenon
<1> QED BY <1>5, <1>6, Zenon

\* The file goes on to be written, and to be renamed.
LEMMA OpenKeeps ==
  ASSUME StoresInv, OpenTemporary PROVE StoresInv'
<1> USE DEF StoresInv
<1>1. saving.step = "open" /\ disk' = disk
  BY Zenon DEF OpenTemporary
<1>2. CASE saving' = [saving EXCEPT !.step = "write", !.temporary = <<>>] /\ StaysOpen
  <2>1. /\ saving' = [step |-> "write", file |-> saving.file, text |-> saving.text, temporary |-> <<>>]
        /\ program' = program /\ shown' = shown /\ saved_settings' = saved_settings
        /\ playlist' = playlist /\ past' = past
    BY <1>2 DEF StaysOpen, PartsInv
  <2>2. saving'.step = "write" /\ saving'.file = saving.file /\ saving'.text = saving.text
    BY <2>1
  <2>3. PartsInv'
    BY <1>1, <2>1 DEF PartsInv
  <2>4. FilesInv'
    BY <1>1, <2>1, Zenon DEF FilesInv
  <2>5. SavingInv'
    BY <1>1, <2>1, <2>2 DEF SavingInv
  <2>6. SettingsInv'
    BY <1>1, <2>1, Zenon DEF SettingsInv, LoadSettings
  <2>7. PlaylistInv'
    BY <1>1, <2>1, Zenon DEF PlaylistInv
  <2> QED BY <2>3, <2>4, <2>5, <2>6, <2>7, Zenon
<1>3. CASE SaveEnds(FALSE) /\ UNCHANGED <<shown, window_moving, edits, ends>>
  <2>1. saving.step # "no" /\ UNCHANGED <<shown, disk>>
    BY <1>1, <1>3
  <2> QED BY <1>3, <2>1, SaveFails, Zenon
<1> QED BY <1>2, <1>3, Zenon DEF OpenTemporary

LEMMA WriteKeeps ==
  ASSUME StoresInv, WriteTemporary PROVE StoresInv'
<1> USE DEF StoresInv
<1>1. saving.step = "write" /\ disk' = disk
  BY Zenon DEF WriteTemporary
<1>2. CASE saving' = [saving EXCEPT !.step = "rename", !.temporary = saving.text] /\ StaysOpen
  <2>1. /\ saving' = [step |-> "rename", file |-> saving.file, text |-> saving.text,
                      temporary |-> saving.text]
        /\ program' = program /\ shown' = shown /\ saved_settings' = saved_settings
        /\ playlist' = playlist /\ past' = past
    BY <1>2 DEF StaysOpen, PartsInv
  <2>2. /\ saving'.step = "rename" /\ saving'.file = saving.file /\ saving'.text = saving.text
        /\ saving'.temporary = saving.text
    BY <2>1
  <2>3. PartsInv'
    BY <1>1, <2>1 DEF PartsInv
  <2>4. FilesInv'
    BY <1>1, <2>1, Zenon DEF FilesInv
  <2>5. SavingInv'
    BY <1>1, <2>1, <2>2 DEF SavingInv
  <2>6. SettingsInv'
    BY <1>1, <2>1, Zenon DEF SettingsInv, LoadSettings
  <2>7. PlaylistInv'
    BY <1>1, <2>1, Zenon DEF PlaylistInv
  <2> QED BY <2>3, <2>4, <2>5, <2>6, <2>7, Zenon
<1>3. CASE SaveEnds(FALSE) /\ UNCHANGED <<shown, window_moving, edits, ends>>
  <2>1. saving.step # "no" /\ UNCHANGED <<shown, disk>>
    BY <1>1, <1>3
  <2> QED BY <1>3, <2>1, SaveFails, Zenon
<1> QED BY <1>2, <1>3, Zenon DEF WriteTemporary

\* The file is renamed over the old one: from now on it is what is shown.
LEMMA RenameKeeps ==
  ASSUME StoresInv, RenameOver PROVE StoresInv'
<1> USE DEF StoresInv
<1>1. saving.step = "rename" /\ saving.step # "no" /\ shown' = shown
  BY DEF RenameOver
<1>2. CASE SaveEnds(FALSE) /\ UNCHANGED disk
  <2>1. UNCHANGED <<shown, disk>>
    BY <1>1, <1>2
  <2> QED BY <1>1, <1>2, <2>1, SaveFails, Zenon
<1>3. CASE /\ disk' = [there |-> disk.there \union {saving.file},
                       text |-> [disk.text EXCEPT ![saving.file] = saving.temporary]]
           /\ SaveEnds(TRUE)
  <2> DEFINE file == saving.file
             text == saving.text
  <2>1. /\ <<file, text>> \in past.texts /\ file \in Stored /\ saving.temporary = text
        /\ file = "settings" => text = SettingsText(shown)
        /\ file \in Playlists => text = PlaylistText(playlist)
    BY <1>1, Zenon DEF SavingInv, PartsInv
  <2>2. /\ disk' = [there |-> disk.there \union {file}, text |-> [disk.text EXCEPT ![file] = text]]
        /\ saving' = Idle
    BY <1>3, <2>1, Zenon DEF SaveEnds
  <2>3. /\ disk'.there = disk.there \union {file}
        /\ disk'.text = [disk.text EXCEPT ![file] = text]
    BY <2>2
  <2>4. disk'.text[file] = text /\ \A f \in Stored : f # file => disk'.text[f] = disk.text[f]
    BY <2>1, <2>3 DEF PartsInv
  <2>5. saving'.step = "no" /\ saving'.file = "settings" /\ file \in {"settings", "preset"} \union Playlists
    BY <2>1, <2>2 DEF Idle, Stored
  <2>6. SavingInv'
    BY <2>2, <2>5 DEF SavingInv
  <2>7. disk' = [there |-> disk'.there, text |-> disk'.text] /\ disk'.there \subseteq Stored
        /\ disk'.text = [f \in Stored |-> disk'.text[f]]
    BY <2>1, <2>2, <2>3 DEF PartsInv
  <2>8. saving' = [step |-> saving'.step, file |-> saving'.file, text |-> saving'.text,
                   temporary |-> saving'.temporary] /\ saving'.file \in Stored
    BY <2>2 DEF Idle, Stored
  <2>9. ASSUME past'.texts = past.texts PROVE FilesInv'
    <3>1. ASSUME NEW f \in disk'.there PROVE <<f, disk'.text[f]>> \in past.texts
      <4>1. CASE f = file
        BY <2>1, <2>4, <4>1, Zenon
      <4>2. CASE f # file
        <5>1. f \in disk.there /\ f \in Stored
          BY <2>3, <4>2, Zenon DEF PartsInv
        <5> QED BY <2>4, <4>2, <5>1, Zenon DEF FilesInv, WholeFiles
      <4> QED BY <4>1, <4>2, Zenon
    <3> QED BY <2>9, <3>1, Zenon DEF FilesInv, WholeFiles
  <2> HIDE DEF file, text
  <2>10. CASE file = "settings"
    <3>1. /\ saved_settings' = shown /\ program' = ClosedProgram /\ playlist' = playlist
          /\ past' = [past EXCEPT !.failed = FALSE]
      BY <1>3, <2>10 DEF SaveEnds, Playlists, file
    <3>2. past' = [failed |-> FALSE, deleted |-> past.deleted, died |-> past.died, texts |-> past.texts]
      BY <3>1 DEF PartsInv
    <3>3. past'.failed = FALSE /\ past'.deleted = past.deleted /\ past'.texts = past.texts
      BY <3>2
    <3>4. PartsInv'
      BY <2>7, <2>8, <3>1, <3>2 DEF PartsInv
    <3>5. FilesInv'
      BY <2>9, <3>3, Zenon
    <3>6. LoadSettings' = shown
      <4>1. "settings" \in disk'.there /\ disk'.text["settings"] = SettingsText(shown)
        BY <2>1, <2>3, <2>4, <2>10, Zenon
      <4>2. LoadSettings' = ReadOver(SettingsText(shown), Defaults)
        BY <4>1, Zenon DEF LoadSettings
      <4> QED BY <4>2, SettingsReadBack, Zenon DEF SettingsInv
    <3>7. SettingsInv'
      BY <1>1, <3>1, <3>6, Zenon DEF SettingsInv
    <3>8. PlaylistInv'
      <4>1. program' = "runs" => program = "runs"
        BY <3>1 DEF ClosedProgram
      <4>2. playlist.name # "" => playlist.name \in Stored /\ playlist.name # file
        BY <2>10 DEF PartsInv, Stored, Playlists
      <4>3. playlist.name \in disk.there => playlist.name \in disk'.there
        BY <2>3, Zenon
      <4> QED BY <2>4, <3>1, <3>3, <4>1, <4>2, <4>3, Zenon DEF PlaylistInv
    <3> QED BY <2>6, <3>4, <3>5, <3>7, <3>8, Zenon
  <2>11. CASE file # "settings"
    <3>1. saved_settings' = saved_settings /\ program' = program
      BY <1>3, <2>11, Zenon DEF SaveEnds, file
    <3>2. LoadSettings' = LoadSettings
      <4>1. "settings" \in disk'.there <=> "settings" \in disk.there
        BY <2>3, <2>11, Zenon
      <4>2. disk'.text["settings"] = disk.text["settings"]
        <5>1. "settings" \in Stored
          BY DEF Stored
        <5> QED BY <2>4, <2>11, <5>1, Zenon
      <4> QED BY <4>1, <4>2, Zenon DEF LoadSettings
    <3>3. CASE file \notin Playlists
      <4>1. playlist' = playlist /\ past' = past
        BY <1>3, <2>11, <3>3, Zenon DEF SaveEnds, file
      <4>2. PartsInv'
        BY <2>7, <2>8, <4>1 DEF PartsInv
      <4>3. FilesInv'
        BY <2>9, <4>1, Zenon
      <4>4. SettingsInv'
        BY <1>1, <3>1, <3>2, <4>1, Zenon DEF SettingsInv
      <4>5. PlaylistInv'
        <5>1. playlist.name # "" => playlist.name \in Stored /\ playlist.name # file
          BY <3>3 DEF PartsInv, Stored
        <5>2. playlist.name \in disk.there => playlist.name \in disk'.there
          BY <2>3, Zenon
        <5> QED BY <2>4, <3>1, <4>1, <5>1, <5>2, Zenon DEF PlaylistInv
      <4> QED BY <2>6, <4>2, <4>3, <4>4, <4>5, Zenon
    <3>4. CASE file \in Playlists
      <4>1. /\ playlist' = [playlist EXCEPT !.name = file, !.dirty = FALSE]
            /\ past' = [past EXCEPT !.deleted = FALSE]
        BY <1>3, <2>11, <3>4, Zenon DEF SaveEnds, file
      <4>2. /\ playlist' = [name |-> file, typed |-> playlist.typed, loops |-> playlist.loops,
                            plays |-> playlist.plays, dirty |-> FALSE]
            /\ past' = [failed |-> past.failed, deleted |-> FALSE, died |-> past.died,
                        texts |-> past.texts]
        BY <4>1 DEF PartsInv
      <4>3. /\ past'.failed = past.failed /\ past'.died = past.died /\ past'.texts = past.texts
            /\ playlist'.name = file /\ playlist'.loops = playlist.loops
            /\ playlist'.plays = playlist.plays
        BY <4>2
      <4>4. PartsInv'
        BY <2>7, <2>8, <3>4, <4>2 DEF PartsInv
      <4>5. FilesInv'
        BY <2>9, <4>3, Zenon
      <4>6. SettingsInv'
        BY <1>1, <3>1, <3>2, <4>3, Zenon DEF SettingsInv
      <4>7. PlaylistInv'
        <5>1. file \in disk'.there /\ disk'.text[file] = PlaylistText(playlist)
          BY <2>1, <2>3, <2>4, <3>4, Zenon
        <5>2. ReadPlaylist(disk'.text[file]) = [loops |-> playlist.loops, plays |-> playlist.plays]
          BY <5>1, PlaylistReadBack, Zenon DEF PartsInv
        <5> QED BY <4>3, <5>1, <5>2, Zenon DEF PlaylistInv
      <4> QED BY <2>6, <4>4, <4>5, <4>6, <4>7, Zenon
    <3> QED BY <3>3, <3>4, Zenon
  <2> QED BY <2>10, <2>11, Zenon
<1> QED BY <1>2, <1>3, Zenon DEF RenameOver

-----------------------------------------------------------------------------
(* The other steps                                                         *)

LEMMA EmptyPlaylist ==
  /\ NewPlaylist = [name |-> NewPlaylist.name, typed |-> NewPlaylist.typed, loops |-> NewPlaylist.loops,
                    plays |-> NewPlaylist.plays, dirty |-> NewPlaylist.dirty]
  /\ NewPlaylist.name = "" /\ NewPlaylist.typed = "" /\ NewPlaylist.plays \in Seq(Nat)
  BY DEF NewPlaylist

LEMMA InvHoldsAtFirst == StoresInit => StoresInv
<1> SUFFICES ASSUME StoresInit PROVE StoresInv
  OBVIOUS
<1> DEFINE Text0 == PlaylistText(Kept)
<1>1. PICK there \in SUBSET {"list"} :
        /\ disk = [there |-> there, text |-> [f \in Stored |-> IF f \in there THEN Text0 ELSE <<>>]]
        /\ past = [failed |-> FALSE, deleted |-> FALSE, died |-> FALSE, texts |-> there \X {Text0}]
  BY Zenon DEF StoresInit
<1>2. /\ program = "runs" /\ shown = Defaults /\ saved_settings = Defaults
      /\ playlist = NewPlaylist /\ saving = Idle
  BY DEF StoresInit
<1>3. Kept.plays \in Seq(Nat)
  BY DEF Kept, NewPlaylist
<1> HIDE DEF Text0
<1>4. /\ disk.there = there /\ disk.text = [f \in Stored |-> IF f \in there THEN Text0 ELSE <<>>]
      /\ past.texts = there \X {Text0} /\ "settings" \notin there /\ "list" \in Stored
      /\ there \subseteq Stored
  BY <1>1 DEF Stored, Playlists
<1>5. PartsInv
  <2>1. /\ disk = [there |-> disk.there, text |-> disk.text]
        /\ disk.there \subseteq Stored /\ disk.text = [f \in Stored |-> disk.text[f]]
    BY <1>1, <1>4
  <2>2. past = [failed |-> past.failed, deleted |-> past.deleted, died |-> past.died,
                texts |-> past.texts]
    BY <1>1
  <2>3. /\ saving = [step |-> saving.step, file |-> saving.file, text |-> saving.text,
                     temporary |-> saving.temporary]
        /\ saving.file \in Stored
    BY <1>2 DEF Idle, Stored
  <2>4. "" \in Playlists \union {""}
    OBVIOUS
  <2> QED BY <1>2, <2>1, <2>2, <2>3, <2>4, EmptyPlaylist, Zenon DEF PartsInv
<1>6. FilesInv
  <2>1. ASSUME NEW f, NEW t, <<f, t>> \in past.texts PROVE MeantText(f, t)
    <3>1. f = "list" /\ t = Text0
      BY <1>1, <1>4, <2>1
    <3> QED BY <1>3, <3>1 DEF MeantText, Text0
  <2>2. ASSUME NEW f \in disk.there PROVE <<f, disk.text[f]>> \in past.texts
    <3>1. f \in there /\ disk.text[f] = Text0
      BY <1>4
    <3> QED BY <1>4, <3>1
  <2> QED BY <2>1, <2>2, Zenon DEF FilesInv, MeantTexts, WholeFiles
<1>7. SavingInv
  BY <1>2 DEF SavingInv, Idle
<1>8. SettingsInv
  <2>1. LoadSettings = Defaults
    BY <1>4, Zenon DEF LoadSettings
  <2> QED BY <1>2, <2>1, DefaultSettings DEF SettingsInv
<1>9. PlaylistInv
  BY <1>2 DEF PlaylistInv, NewPlaylist
<1> QED BY <1>5, <1>6, <1>7, <1>8, <1>9, Zenon DEF StoresInv

LEMMA StartKeeps == ASSUME StoresInv, StartProgram PROVE StoresInv'
<1> USE DEF StoresInv
<1>1. PICK fails \in BOOLEAN : Started(LoadSettings, fails)
  BY Zenon DEF StartProgram
<1>2. /\ saving' = saving /\ disk' = disk /\ program = "closed" /\ program' = "runs"
      /\ saved_settings' = LoadSettings /\ playlist' = NewPlaylist
      /\ shown' = IF fails THEN [LoadSettings EXCEPT !.api = 0] ELSE LoadSettings
  BY <1>1, Zenon DEF StartProgram, Started
<1>3. past' = [failed |-> FALSE, deleted |-> FALSE, died |-> FALSE, texts |-> past.texts]
  BY DEF StartProgram, PartsInv
<1>4. past'.texts = past.texts
  BY <1>3
<1>5. PartsInv'
  <2>1. past' = [failed |-> past'.failed, deleted |-> past'.deleted, died |-> past'.died,
                 texts |-> past'.texts]
    BY <1>3
  <2>2. "" \in Playlists \union {""}
    OBVIOUS
  <2> QED BY <1>2, <2>1, <2>2, EmptyPlaylist, Zenon DEF PartsInv
<1>6. FilesInv'
  BY <1>2, <1>4, Zenon DEF FilesInv
<1>7. SavingInv'
  <2>1. saving'.step = "no" /\ saving' = Idle
    BY <1>2, Zenon DEF SavingInv
  <2> QED BY <2>1 DEF SavingInv
<1>8. SettingsInv'
  <2>1. IsSettings(LoadSettings)
    BY LoadedSettings, Zenon DEF FilesInv
  <2>2. IsSettings(shown')
    BY <1>2, <2>1, ChangedSettings, Zenon
  <2>3. LoadSettings' = saved_settings'
    BY <1>2, Zenon DEF LoadSettings
  <2>4. program' # "closed"
    BY <1>2
  <2> QED BY <1>2, <2>1, <2>2, <2>3, <2>4, Zenon DEF SettingsInv
<1>9. PlaylistInv'
  BY <1>2 DEF PlaylistInv, NewPlaylist
<1> QED BY <1>5, <1>6, <1>7, <1>8, <1>9, Zenon

\* What is meant when the settings are written.
LEMMA SettingsAreMeant ==
  ASSUME StoresInv
  PROVE  MeantText("settings", SettingsText(shown)) /\ "settings" \in Stored
<1>1. "settings" \notin Playlists /\ "settings" \in Stored
  BY DEF Playlists, Stored
<1> QED BY <1>1, Zenon DEF MeantText, StoresInv, SettingsInv

LEMMA PersistKeeps == ASSUME StoresInv, Persist PROVE StoresInv'
<1>1. /\ program = "runs" /\ program' \in {"runs", "closing"} /\ "settings" \notin Playlists
      /\ Write("settings", SettingsText(shown))
      /\ UNCHANGED <<shown, saved_settings, playlist, disk>>
  BY DEF Persist, Playlists
<1> QED BY <1>1, SettingsAreMeant, WriteBegins, Zenon

LEMMA CloseKeeps == ASSUME StoresInv, CloseApp PROVE StoresInv'
<1>1. CASE shown # saved_settings
  <2>1. /\ program = "runs" /\ program' \in {"runs", "closing"} /\ "settings" \notin Playlists
        /\ Write("settings", SettingsText(shown))
        /\ UNCHANGED <<shown, saved_settings, playlist, disk>>
    BY <1>1 DEF CloseApp, Playlists
  <2> QED BY <2>1, SettingsAreMeant, WriteBegins, Zenon
<1>2. CASE shown = saved_settings
  <2>1. /\ program' = "closed" /\ saving = Idle /\ saving' = saving /\ past' = past
        /\ shown' = shown /\ saved_settings' = saved_settings /\ playlist' = playlist /\ disk' = disk
    BY <1>2 DEF CloseApp
  <2>2. PartsInv' /\ FilesInv'
    BY <2>1, Zenon DEF StoresInv, PartsInv, FilesInv
  <2>3. SavingInv'
    BY <2>1 DEF StoresInv, SavingInv, Idle
  <2>4. SettingsInv'
    BY <1>2, <2>1, Zenon DEF StoresInv, SettingsInv, LoadSettings
  <2>5. PlaylistInv'
    BY <2>1 DEF PlaylistInv
  <2> QED BY <2>2, <2>3, <2>4, <2>5, Zenon DEF StoresInv
<1> QED BY <1>1, <1>2, Zenon

LEMMA DeathKeeps == ASSUME StoresInv, ProgramDies PROVE StoresInv'
<1> USE DEF StoresInv
<1>1. /\ program' = "closed" /\ saving' = Idle /\ shown' = shown /\ saved_settings' = saved_settings
      /\ playlist' = playlist /\ disk' = disk
  BY DEF ProgramDies
<1>2. past' = [failed |-> past.failed, deleted |-> past.deleted, died |-> TRUE, texts |-> past.texts]
  BY DEF ProgramDies, PartsInv
<1>3. past'.died /\ past'.texts = past.texts
  BY <1>2
<1>4. PartsInv'
  BY <1>1, <1>2 DEF PartsInv, Idle, Stored
<1>5. FilesInv'
  BY <1>1, <1>3, Zenon DEF FilesInv
<1>6. SavingInv'
  BY <1>1 DEF SavingInv, Idle
<1>7. SettingsInv'
  BY <1>1, <1>3, Zenon DEF SettingsInv
<1>8. PlaylistInv'
  BY <1>1 DEF PlaylistInv
<1> QED BY <1>4, <1>5, <1>6, <1>7, <1>8, Zenon

\* While the program runs the user may change what is shown: nothing is saved by that.
LEMMA ShownMayChange ==
  ASSUME StoresInv, program = "runs", program' = "runs", IsSettings(shown)', saving = Idle,
         UNCHANGED <<saved_settings, playlist, saving, disk, past>>
  PROVE  StoresInv'
<1> USE DEF StoresInv
<1>1. /\ saved_settings' = saved_settings /\ playlist' = playlist /\ saving' = saving
      /\ disk' = disk /\ past' = past
  OBVIOUS
<1>2. PartsInv' /\ FilesInv'
  BY <1>1, Zenon DEF PartsInv, FilesInv
<1>3. SavingInv'
  <2>1. saving'.step = "no" /\ saving' = Idle
    BY <1>1 DEF Idle
  <2> QED BY <2>1 DEF SavingInv
<1>4. SettingsInv'
  <2>1. program' # "closed"
    OBVIOUS
  <2> QED BY <1>1, <2>1, Zenon DEF SettingsInv, LoadSettings
<1>5. PlaylistInv'
  BY <1>1, Zenon DEF PlaylistInv
<1> QED BY <1>2, <1>3, <1>4, <1>5, Zenon

LEMMA SettingsEditKeeps ==
  ASSUME StoresInv, MoveWindow \/ ChangeSettings \/ ApplyPreset \/ WindowRests
  PROVE  StoresInv'
<1>1. /\ program = "runs" /\ program' = "runs" /\ saving = Idle
      /\ UNCHANGED <<saved_settings, playlist, saving, disk, past>>
  BY DEF MoveWindow, ChangeSettings, ApplyPreset, WindowRests, Edits
<1>2. IsSettings(shown)
  BY DEF StoresInv, SettingsInv
<1>3. IsSettings(shown')
  <2>1. CASE MoveWindow
    BY <1>2, <2>1, ChangedSettings DEF MoveWindow
  <2>2. CASE ChangeSettings
    <3>1. \/ shown' = [shown EXCEPT !.api = 1 - shown.api]
          \/ shown' = [shown EXCEPT !.look = 1 - shown.look]
          \/ shown' = [shown EXCEPT !.default = 1 - shown.default]
          \/ \E v \in {0, 1} : shown' = [shown EXCEPT !.device = {v}]
      BY <2>2 DEF ChangeSettings
    <3>2. CASE shown' = [shown EXCEPT !.api = 1 - shown.api]
      BY <1>2, <3>2, ChangedSettings
    <3>3. CASE shown' = [shown EXCEPT !.look = 1 - shown.look]
      BY <1>2, <3>3, ChangedSettings
    <3>4. CASE shown' = [shown EXCEPT !.default = 1 - shown.default]
      BY <1>2, <3>4, ChangedSettings
    <3>5. CASE \E v \in {0, 1} : shown' = [shown EXCEPT !.device = {v}]
      <4>1. PICK v \in {0, 1} : shown' = [shown EXCEPT !.device = {v}]
        BY <3>5
      <4>2. IsSettings([shown EXCEPT !.device = {v}])
        BY <1>2, ChangedSettings
      <4> QED BY <4>1, <4>2, Zenon
    <3> QED BY <3>1, <3>2, <3>3, <3>4, <3>5, Zenon
  <2>3. CASE ApplyPreset
    BY <1>2, <2>3, ChangedSettings DEF ApplyPreset
  <2>4. CASE WindowRests
    BY <1>2, <2>4 DEF WindowRests
  <2> QED BY <2>1, <2>2, <2>3, <2>4
<1> QED BY <1>1, <1>3, ShownMayChange, Zenon

LEMMA PresetKeeps == ASSUME StoresInv, SavePreset PROVE StoresInv'
<1>1. /\ program = "runs" /\ program' \in {"runs", "closing"}
      /\ "preset" \notin Playlists /\ "preset" # "settings" /\ "preset" \in Stored
      /\ Write("preset", LookText(shown))
      /\ UNCHANGED <<shown, saved_settings, playlist, disk>>
  BY DEF SavePreset, Edits, Playlists, Stored
<1>2. MeantText("preset", LookText(shown))
  BY <1>1, Zenon DEF MeantText
<1> QED BY <1>1, <1>2, WriteBegins, Zenon

LEMMA SavePlaylistKeeps == ASSUME StoresInv, SavePlaylist PROVE StoresInv'
<1>1. /\ program = "runs" /\ program' \in {"runs", "closing"}
      /\ Write(playlist.typed, PlaylistText(playlist))
      /\ UNCHANGED <<shown, saved_settings, playlist, disk>>
  BY DEF SavePlaylist, Edits
<1>2. playlist.typed \in Playlists /\ playlist.typed \in Stored /\ playlist.typed # "settings"
  BY DEF SavePlaylist, StoresInv, PartsInv, Playlists, Stored
<1>3. MeantText(playlist.typed, PlaylistText(playlist))
  BY <1>2, Zenon DEF MeantText, StoresInv, PartsInv
<1> QED BY <1>1, <1>2, <1>3, WriteBegins, Zenon

LEMMA PlaylistEditKeeps == ASSUME StoresInv, EditPlaylist PROVE StoresInv'
<1> USE DEF StoresInv
<1>1. /\ program' = program /\ program = "runs" /\ saving = Idle /\ saving' = saving
      /\ shown' = shown /\ saved_settings' = saved_settings /\ disk' = disk /\ past' = past
  BY DEF EditPlaylist, Edits
<1>2. \/ playlist' = [playlist EXCEPT !.plays = Append(playlist.plays, 1), !.dirty = TRUE]
      \/ playlist' = [playlist EXCEPT !.plays = IF playlist.plays = <<>> THEN playlist.plays
                                                ELSE Tail(playlist.plays), !.dirty = TRUE]
      \/ playlist' = [playlist EXCEPT !.loops = 1 - playlist.loops, !.dirty = TRUE]
      \/ \E f \in Playlists : playlist' = [playlist EXCEPT !.typed = f, !.dirty = TRUE]
  BY DEF EditPlaylist
<1>3. \E typed \in Playlists \union {""}, plays \in Seq(Nat),
         rounds \in {playlist.loops, 1 - playlist.loops} :
        playlist' = [name |-> playlist.name, typed |-> typed, loops |-> rounds, plays |-> plays,
                     dirty |-> TRUE]
  <2>1. /\ playlist = [name |-> playlist.name, typed |-> playlist.typed, loops |-> playlist.loops,
                       plays |-> playlist.plays, dirty |-> playlist.dirty]
        /\ playlist.typed \in Playlists \union {""} /\ playlist.plays \in Seq(Nat)
    BY DEF PartsInv
  <2>2. CASE playlist' = [playlist EXCEPT !.plays = Append(playlist.plays, 1), !.dirty = TRUE]
    <3>1. Append(playlist.plays, 1) \in Seq(Nat)
      <4>1. playlist.plays \in Seq(Nat) /\ 1 \in Nat
        BY <2>1
      <4> QED BY <4>1, AppendProperties
    <3> QED BY <2>1, <2>2, <3>1
  <2>3. CASE playlist' = [playlist EXCEPT !.plays = IF playlist.plays = <<>> THEN playlist.plays
                                                    ELSE Tail(playlist.plays), !.dirty = TRUE]
    <3> DEFINE plays == IF playlist.plays = <<>> THEN playlist.plays ELSE Tail(playlist.plays)
    <3>1. plays \in Seq(Nat)
      <4>1. playlist.plays \in Seq(Nat)
        BY <2>1
      <4>2. playlist.plays # <<>> => Tail(playlist.plays) \in Seq(Nat)
        BY <4>1, HeadTailProperties
      <4> QED BY <4>1, <4>2, Zenon
    <3>2. playlist' = [playlist EXCEPT !.plays = plays, !.dirty = TRUE]
      BY <2>3
    <3> HIDE DEF plays
    <3> QED BY <2>1, <3>1, <3>2
  <2>4. CASE playlist' = [playlist EXCEPT !.loops = 1 - playlist.loops, !.dirty = TRUE]
    BY <2>1, <2>4
  <2>5. CASE \E f \in Playlists : playlist' = [playlist EXCEPT !.typed = f, !.dirty = TRUE]
    BY <2>1, <2>5
  <2> QED BY <1>2, <2>2, <2>3, <2>4, <2>5, Zenon
<1>4. /\ playlist' = [name |-> playlist'.name, typed |-> playlist'.typed, loops |-> playlist'.loops,
                      plays |-> playlist'.plays, dirty |-> playlist'.dirty]
      /\ playlist'.name = playlist.name /\ playlist'.typed \in Playlists \union {""}
      /\ playlist'.plays \in Seq(Nat) /\ playlist'.dirty
  <2>1. PICK typed \in Playlists \union {""}, plays \in Seq(Nat),
              rounds \in {playlist.loops, 1 - playlist.loops} :
          playlist' = [name |-> playlist.name, typed |-> typed, loops |-> rounds, plays |-> plays,
                       dirty |-> TRUE]
    BY <1>3, Zenon
  <2>2. /\ playlist'.name = playlist.name /\ playlist'.typed = typed /\ playlist'.loops = rounds
        /\ playlist'.plays = plays /\ playlist'.dirty = TRUE
    BY <2>1
  <2> QED BY <2>1, <2>2, Zenon
<1>5. PartsInv'
  BY <1>1, <1>4, Zenon DEF PartsInv
<1>6. FilesInv'
  BY <1>1, Zenon DEF FilesInv
<1>7. SavingInv'
  BY <1>1 DEF SavingInv, Idle
<1>8. SettingsInv'
  BY <1>1, Zenon DEF SettingsInv, LoadSettings
<1>9. PlaylistInv'
  BY <1>4, Zenon DEF PlaylistInv
<1> QED BY <1>5, <1>6, <1>7, <1>8, <1>9, Zenon

LEMMA OpenPlaylistKeeps ==
  ASSUME StoresInv, NEW f \in Playlists, OpenPlaylist(f) PROVE StoresInv'
<1> USE DEF StoresInv
<1>1. /\ program' = program /\ program = "runs" /\ saving = Idle /\ saving' = saving
      /\ shown' = shown /\ saved_settings' = saved_settings /\ disk' = disk /\ f \in disk.there
  BY DEF OpenPlaylist, Edits
<1>2. PICK p : p.plays \in Seq(Nat) /\ ReadPlaylist(disk.text[f]) = [loops |-> p.loops, plays |-> p.plays]
  BY <1>1, LoadedPlaylist, Zenon DEF FilesInv
<1>3. playlist' = [name |-> f, typed |-> f, loops |-> p.loops, plays |-> p.plays, dirty |-> FALSE]
  <2> DEFINE read == ReadPlaylist(disk.text[f])
  <2>1. playlist' = [name |-> f, typed |-> f, loops |-> read.loops, plays |-> read.plays,
                     dirty |-> FALSE]
    BY DEF OpenPlaylist
  <2>2. read.loops = p.loops /\ read.plays = p.plays
    BY <1>2
  <2> HIDE DEF read
  <2> QED BY <2>1, <2>2, Zenon
<1>4. past' = [failed |-> past.failed, deleted |-> FALSE, died |-> past.died, texts |-> past.texts]
  BY DEF OpenPlaylist, PartsInv
<1>5. /\ past'.failed = past.failed /\ past'.died = past.died /\ past'.texts = past.texts
      /\ playlist'.name = f /\ playlist'.loops = p.loops /\ playlist'.plays = p.plays
  BY <1>3, <1>4
<1>6. PartsInv'
  <2>1. past' = [failed |-> past'.failed, deleted |-> past'.deleted, died |-> past'.died,
                 texts |-> past'.texts]
    BY <1>4
  <2>2. /\ playlist' = [name |-> playlist'.name, typed |-> playlist'.typed, loops |-> playlist'.loops,
                        plays |-> playlist'.plays, dirty |-> playlist'.dirty]
        /\ playlist'.name \in Playlists \union {""} /\ playlist'.typed \in Playlists \union {""}
        /\ playlist'.plays \in Seq(Nat)
    BY <1>2, <1>3
  <2> QED BY <1>1, <2>1, <2>2, Zenon DEF PartsInv
<1>7. FilesInv'
  BY <1>1, <1>5, Zenon DEF FilesInv
<1>8. SavingInv'
  BY <1>1 DEF SavingInv, Idle
<1>9. SettingsInv'
  BY <1>1, <1>5, Zenon DEF SettingsInv, LoadSettings
<1>10. PlaylistInv'
  BY <1>1, <1>2, <1>5, Zenon DEF PlaylistInv
<1> QED BY <1>6, <1>7, <1>8, <1>9, <1>10, Zenon

LEMMA DeleteKeeps ==
  ASSUME StoresInv, NEW f \in {"preset"} \union Playlists, DeleteFile(f) PROVE StoresInv'
<1> USE DEF StoresInv
<1>1. /\ program' = program /\ program = "runs" /\ saving = Idle /\ saving' = saving
      /\ shown' = shown /\ saved_settings' = saved_settings /\ playlist' = playlist
      /\ disk' = [there |-> disk.there \ {f}, text |-> [disk.text EXCEPT ![f] = <<>>]]
  BY DEF DeleteFile, Edits
<1>2. past' = [failed |-> past.failed, deleted |-> past.deleted \/ f = playlist.name,
               died |-> past.died, texts |-> past.texts]
  BY DEF DeleteFile, PartsInv
<1>3. /\ disk'.there = disk.there \ {f} /\ disk'.text = [disk.text EXCEPT ![f] = <<>>]
      /\ past'.failed = past.failed /\ past'.died = past.died /\ past'.texts = past.texts
  BY <1>1, <1>2
<1>4. past'.deleted <=> past.deleted \/ f = playlist.name
  BY <1>2
<1>5. \A g \in Stored : g # f => disk'.text[g] = disk.text[g]
  BY <1>3 DEF PartsInv
<1>6. "settings" # f /\ "settings" \in Stored /\ f \in Stored
  BY DEF Playlists, Stored
<1>7. PartsInv'
  <2>1. past' = [failed |-> past'.failed, deleted |-> past'.deleted, died |-> past'.died,
                 texts |-> past'.texts]
    BY <1>2
  <2>2. /\ disk' = [there |-> disk'.there, text |-> disk'.text] /\ disk'.there \subseteq Stored
        /\ disk'.text = [g \in Stored |-> disk'.text[g]]
    BY <1>1, <1>3, <1>6 DEF PartsInv
  <2> QED BY <1>1, <2>1, <2>2, Zenon DEF PartsInv
<1>8. FilesInv'
  <2>1. ASSUME NEW g \in disk'.there PROVE <<g, disk'.text[g]>> \in past.texts
    <3>1. g \in disk.there /\ g # f /\ g \in Stored
      BY <1>3, Zenon DEF PartsInv
    <3> QED BY <1>5, <3>1, Zenon DEF FilesInv, WholeFiles
  <2> QED BY <1>3, <2>1, Zenon DEF FilesInv, WholeFiles
<1>9. SavingInv'
  BY <1>1 DEF SavingInv, Idle
<1>10. SettingsInv'
  <2>1. LoadSettings' = LoadSettings
    <3>1. "settings" \in disk'.there <=> "settings" \in disk.there
      BY <1>3, <1>6, Zenon
    <3>2. disk'.text["settings"] = disk.text["settings"]
      BY <1>5, <1>6, Zenon
    <3> QED BY <3>1, <3>2, Zenon DEF LoadSettings
  <2> QED BY <1>1, <1>3, <2>1, Zenon DEF SettingsInv
<1>11. PlaylistInv'
  <2>1. ASSUME playlist.name # "", ~past'.deleted
        PROVE  /\ ~past.deleted /\ disk'.text[playlist.name] = disk.text[playlist.name]
               /\ playlist.name \in disk.there => playlist.name \in disk'.there
    <3>1. ~past.deleted /\ f # playlist.name
      BY <1>4, <2>1, Zenon
    <3>2. playlist.name \in Stored
      BY <2>1 DEF PartsInv, Stored
    <3> QED BY <1>3, <1>5, <3>1, <3>2, Zenon
  <2> QED BY <1>1, <2>1, Zenon DEF PlaylistInv
<1> QED BY <1>7, <1>8, <1>9, <1>10, <1>11, Zenon

-----------------------------------------------------------------------------
(* The theorem                                                             *)

LEMMA StoresStep == StoresInv /\ [StoresNext]_storesVars => StoresInv'
<1> SUFFICES ASSUME StoresInv, [StoresNext]_storesVars PROVE StoresInv'
  OBVIOUS
<1>1. CASE UNCHANGED storesVars
  <2>1. /\ program' = program /\ shown' = shown /\ saved_settings' = saved_settings
        /\ playlist' = playlist /\ saving' = saving /\ disk' = disk /\ past' = past
    BY <1>1, Zenon DEF storesVars
  <2> QED BY <2>1, Zenon DEF StoresInv, PartsInv, FilesInv, SavingInv, SettingsInv, PlaylistInv,
                             LoadSettings
<1>2. CASE StoresNext
  <2>1. CASE StartProgram
    BY <2>1, StartKeeps
  <2>2. CASE OpenTemporary
    BY <2>2, OpenKeeps
  <2>3. CASE WriteTemporary
    BY <2>3, WriteKeeps
  <2>4. CASE RenameOver
    BY <2>4, RenameKeeps
  <2>5. CASE Persist
    BY <2>5, PersistKeeps
  <2>6. CASE CloseApp
    BY <2>6, CloseKeeps
  <2>7. CASE ProgramDies
    BY <2>7, DeathKeeps
  <2>8. CASE MoveWindow \/ ChangeSettings \/ ApplyPreset \/ WindowRests
    BY <2>8, SettingsEditKeeps, Zenon
  <2>9. CASE SavePreset
    BY <2>9, PresetKeeps
  <2>10. CASE EditPlaylist
    BY <2>10, PlaylistEditKeeps
  <2>11. CASE SavePlaylist
    BY <2>11, SavePlaylistKeeps
  <2>12. CASE \E f \in {"preset"} \union Playlists : DeleteFile(f)
    BY <2>12, DeleteKeeps, Zenon
  <2>13. CASE \E f \in Playlists : OpenPlaylist(f)
    BY <2>13, OpenPlaylistKeeps, Zenon
  <2> QED BY <1>2, <2>1, <2>2, <2>3, <2>4, <2>5, <2>6, <2>7, <2>8, <2>9, <2>10, <2>11, <2>12, <2>13,
             Zenon DEF StoresNext
<1> QED BY <1>1, <1>2, Zenon

\* App::persist_settings(), write_file() and save_playlist(): every file on the disk is a
\* text that was to be saved under its name, whole, and the settings and the playlist the
\* App takes for saved read back from the disk as they were; for any number of edits,
\* failures of a save and ends of the program, and for playlists of any length.
THEOREM SavesAreWhole == StoresSpec => []SavedIsOnDisk
<1>1. StoresInit => StoresInv
  BY InvHoldsAtFirst
<1>2. StoresInv /\ [StoresNext]_storesVars => StoresInv'
  BY StoresStep
<1>3. StoresInv => SavedIsOnDisk
  BY InvImplies
<1> QED BY <1>1, <1>2, <1>3, PTL DEF StoresSpec
==============================================================================
