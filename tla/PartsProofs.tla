------------------------------ MODULE PartsProofs ------------------------------
(***************************************************************************)
(* What parts of the application promise that stand alone, for any phones  *)
(* and bounds: the ADB Bridges that are switched on and off are followed   *)
(* to the end, on the Live tab the phone holds what the user holds, and    *)
(* the rows of a recording hold what the phone's own panel held.           *)
(***************************************************************************)
EXTENDS Bridges, Capture, Getevent, SequenceFacts, TLAPS

-----------------------------------------------------------------------------
(* What poll() makes of the events and of the commands that are done       *)

PhoneRow == [busy : BOOLEAN, linked : BOOLEAN, missing : BOOLEAN]

Job == {job \in [kind : {"connect", "disconnect", "restart"}, phone : Phones \union {0},
                 version : Nat, state : {"new", "done"}, ok : BOOLEAN] :
          job.kind # "restart" => job.phone \in Phones}

BridgeEvent == [phone : Phones, on : BOOLEAN, ok : BOOLEAN, stopped : BOOLEAN]

\* The rows and the commands, as poll() carries them from event to event.
Polled == [of : [Phones -> PhoneRow], jobs : Seq(Job)]

Asks(job, q) == job.kind = "connect" /\ job.phone = q /\ job.version = rows.version

\* Nothing has to be done any more for a bridge that listens: adb has it, or will be
\* asked to connect it, or is not there.
Served(s, q) ==
  s.of[q].linked \/ s.of[q].missing \/ \E job \in ToSet(s.jobs) : Asks(job, q)

Grows(s, t) == ToSet(s.jobs) \subseteq ToSet(t.jobs)

\* One step of the poll as a phone's row sees it that the step is not about.
LeavesAlone(s, t, q) == t.of[q].busy = s.of[q].busy /\ (Served(s, q) => Served(t, q))

LEMMA Joined ==
  ASSUME NEW S, NEW a \in Seq(S), NEW b \in Seq(S)
  PROVE  a \o b \in Seq(S) /\ ToSet(a \o b) = ToSet(a) \union ToSet(b)
<1>1. /\ a \o b \in Seq(S) /\ Len(a \o b) = Len(a) + Len(b)
      /\ \A i \in 1..(Len(a) + Len(b)) : (a \o b)[i] = IF i <= Len(a) THEN a[i] ELSE b[i - Len(a)]
  BY ConcatProperties
<1> DEFINE c == a \o b
<1>2. /\ Len(a) \in Nat /\ Len(b) \in Nat
      /\ DOMAIN a = 1..Len(a) /\ DOMAIN b = 1..Len(b) /\ DOMAIN c = 1..(Len(a) + Len(b))
  BY <1>1
<1> HIDE DEF c
<1>3. \A i \in 1..(Len(a) + Len(b)) : c[i] = IF i <= Len(a) THEN a[i] ELSE b[i - Len(a)]
  BY <1>1 DEF c
<1>4. ASSUME NEW e
      PROVE  (\E i \in DOMAIN c : c[i] = e)
               <=> (\E i \in DOMAIN a : a[i] = e) \/ \E i \in DOMAIN b : b[i] = e
  <2>1. ASSUME NEW i \in DOMAIN c, c[i] = e
        PROVE  (\E j \in DOMAIN a : a[j] = e) \/ \E j \in DOMAIN b : b[j] = e
    <3>1. CASE i <= Len(a)
      BY <1>2, <1>3, <2>1, <3>1
    <3>2. CASE ~(i <= Len(a))
      <4>1. i - Len(a) \in DOMAIN b /\ c[i] = b[i - Len(a)]
        BY <1>2, <1>3, <3>2
      <4> QED BY <2>1, <4>1, Zenon
    <3> QED BY <3>1, <3>2
  <2>2. ASSUME NEW i \in DOMAIN a, a[i] = e PROVE \E j \in DOMAIN c : c[j] = e
    <3>1. i \in DOMAIN c /\ c[i] = a[i]
      BY <1>2, <1>3
    <3> QED BY <2>2, <3>1, Zenon
  <2>3. ASSUME NEW i \in DOMAIN b, b[i] = e PROVE \E j \in DOMAIN c : c[j] = e
    <3>1. /\ i + Len(a) \in DOMAIN c /\ ~(i + Len(a) <= Len(a)) /\ (i + Len(a)) - Len(a) = i
      BY <1>2
    <3>2. c[i + Len(a)] = b[i]
      BY <1>2, <1>3, <3>1
    <3> QED BY <2>3, <3>1, <3>2, Zenon
  <2> QED BY <2>1, <2>2, <2>3, Zenon
<1>5. ToSet(c) = ToSet(a) \union ToSet(b)
  BY <1>4, Zenon DEF ToSet
<1> QED BY <1>1, <1>5 DEF c

\* One command for each of some phones.
LEMMA ForEachOf ==
  ASSUME BridgesAssumption, rows.version \in Nat, NEW set \in SUBSET Phones,
         NEW kind \in {"connect", "disconnect"}
  PROVE  /\ ForEach(kind, set) \in Seq(Job)
         /\ \A q \in set : AdbJob(kind, q, rows.version) \in ToSet(ForEach(kind, set))
<1>1. IsFiniteSet(set)
  BY FS_Subset, Zenon DEF BridgesAssumption
<1> DEFINE order == SetToSeq(set)
           list == [n \in DOMAIN order |-> AdbJob(kind, order[n], rows.version)]
<1>2. order \in Seq(set) /\ \A e \in set : \E n \in 1..Len(order) : order[n] = e
  BY <1>1, InSomeOrder, Zenon
<1> HIDE DEF order
<1>3. DOMAIN order = 1..Len(order) /\ Len(order) \in Nat
  BY <1>2
<1>4. ASSUME NEW q \in set PROVE AdbJob(kind, q, rows.version) \in Job
  BY DEF AdbJob, Job
<1>5. list \in [1..Len(order) -> Job]
  <2>1. \A n \in 1..Len(order) : order[n] \in set
    BY <1>2
  <2>2. \A n \in 1..Len(order) : AdbJob(kind, order[n], rows.version) \in Job
    BY <1>4, <2>1, Zenon
  <2> QED BY <1>3, <2>2
<1>6. ASSUME NEW q \in set PROVE \E n \in DOMAIN list : list[n] = AdbJob(kind, q, rows.version)
  <2>1. PICK n \in 1..Len(order) : order[n] = q
    BY <1>2
  <2>2. n \in DOMAIN list /\ list[n] = AdbJob(kind, order[n], rows.version)
    BY <1>3
  <2> QED BY <2>1, <2>2, Zenon
<1>7. ForEach(kind, set) = list
  BY DEF ForEach, order
<1> HIDE DEF list
<1>8. list \in Seq(Job)
  BY <1>3, <1>5
<1> QED BY <1>6, <1>7, <1>8, Zenon DEF ToSet

\* The rows of a poll, one phone's changed.
LEMMA RowChanged ==
  ASSUME NEW s \in Polled, NEW p \in Phones, NEW row \in PhoneRow
  PROVE  /\ [s EXCEPT !.of[p] = row] \in Polled
         /\ [s EXCEPT !.of[p] = row].jobs = s.jobs
         /\ \A q \in Phones : [s EXCEPT !.of[p] = row].of[q] = IF q = p THEN row ELSE s.of[q]
  BY DEF Polled

\* Bridges that are taken as not linked.
LEMMA Unlinked ==
  ASSUME NEW s \in Polled, NEW set
  PROVE  /\ Unlink(s, set) \in Polled /\ Unlink(s, set).jobs = s.jobs
         /\ \A q \in Phones : /\ Unlink(s, set).of[q].busy = s.of[q].busy
                              /\ Unlink(s, set).of[q].missing = s.of[q].missing
                              /\ q \notin set => Unlink(s, set).of[q] = s.of[q]
<1> DEFINE of == [p \in Phones |-> IF p \in set THEN [s.of[p] EXCEPT !.linked = FALSE] ELSE s.of[p]]
<1>1. \A q \in Phones : s.of[q] \in PhoneRow
  BY DEF Polled
<1>2. of \in [Phones -> PhoneRow]
  BY <1>1 DEF PhoneRow
<1>3. \A q \in Phones : /\ of[q].busy = s.of[q].busy /\ of[q].missing = s.of[q].missing
                        /\ q \notin set => of[q] = s.of[q]
  BY <1>1 DEF PhoneRow
<1> HIDE DEF of
<1>4. Unlink(s, set) = [s EXCEPT !.of = of]
  BY DEF Unlink, of
<1>5. [s EXCEPT !.of = of] \in Polled /\ [s EXCEPT !.of = of].jobs = s.jobs /\ [s EXCEPT !.of = of].of = of
  BY <1>2 DEF Polled
<1> QED BY <1>3, <1>4, <1>5, Zenon

\* More commands at the end of the queue.
LEMMA MoreJobs ==
  ASSUME NEW s \in Polled, NEW more \in Seq(Job)
  PROVE  LET t == [s EXCEPT !.jobs = @ \o more]
         IN  /\ t \in Polled /\ t.of = s.of
             /\ ToSet(t.jobs) = ToSet(s.jobs) \union ToSet(more)
<1>1. s.jobs \in Seq(Job) /\ s.of \in [Phones -> PhoneRow]
  BY DEF Polled
<1> DEFINE jobs1 == s.jobs \o more
<1>2. jobs1 \in Seq(Job) /\ ToSet(jobs1) = ToSet(s.jobs) \union ToSet(more)
  BY <1>1, Joined
<1> HIDE DEF jobs1
<1>3. LET t == [s EXCEPT !.jobs = jobs1] IN t \in Polled /\ t.of = s.of /\ t.jobs = jobs1
  BY <1>1, <1>2 DEF Polled
<1>4. [s EXCEPT !.jobs = @ \o more] = [s EXCEPT !.jobs = jobs1]
  BY DEF jobs1
<1> QED BY <1>2, <1>3, <1>4

LEMMA OneMoreJob ==
  ASSUME NEW s \in Polled, NEW job \in Job
  PROVE  LET t == [s EXCEPT !.jobs = Append(@, job)]
         IN  /\ t \in Polled /\ t.of = s.of
             /\ ToSet(t.jobs) = ToSet(s.jobs) \union {job}
<1>1. s.jobs \in Seq(Job) /\ s.of \in [Phones -> PhoneRow]
  BY DEF Polled
<1> DEFINE jobs1 == Append(s.jobs, job)
<1>2. jobs1 \in Seq(Job) /\ ToSet(jobs1) = ToSet(s.jobs) \union {job}
  BY <1>1, Appended
<1> HIDE DEF jobs1
<1>3. LET t == [s EXCEPT !.jobs = jobs1] IN t \in Polled /\ t.of = s.of /\ t.jobs = jobs1
  BY <1>1, <1>2 DEF Polled
<1>4. [s EXCEPT !.jobs = Append(@, job)] = [s EXCEPT !.jobs = jobs1]
  BY DEF jobs1
<1> QED BY <1>2, <1>3, <1>4

\* Steps that leave a row alone add up.
LEMMA AloneTwice ==
  ASSUME NEW s, NEW t, NEW u, NEW q, LeavesAlone(s, t, q), LeavesAlone(t, u, q)
  PROVE  LeavesAlone(s, u, q)
  BY DEF LeavesAlone

\* Bridges that lost their server are linked again, or will be.
LEMMA Relinked ==
  ASSUME BridgesAssumption, rows.version \in Nat, NEW s \in Polled, NEW but
  PROVE  /\ Relink(s, but) \in Polled /\ Grows(s, Relink(s, but))
         /\ \A q \in Phones : LeavesAlone(s, Relink(s, but), q)
<1> DEFINE lost == {p \in Phones \ but : s.of[p].linked}
           u == Unlink(s, lost)
           more == ForEach("connect", lost)
           t == [u EXCEPT !.jobs = @ \o more]
<1>1. lost \in SUBSET Phones /\ \A q \in Phones \ lost : s.of[q].linked => q \in but
  OBVIOUS
<1> HIDE DEF lost
<1>2. /\ u \in Polled /\ u.jobs = s.jobs
      /\ \A q \in Phones : /\ u.of[q].busy = s.of[q].busy /\ u.of[q].missing = s.of[q].missing
                           /\ q \notin lost => u.of[q] = s.of[q]
  BY Unlinked
<1>3. /\ more \in Seq(Job)
      /\ \A q \in lost : AdbJob("connect", q, rows.version) \in ToSet(more)
  BY <1>1, ForEachOf
<1> HIDE DEF u, more
<1>4. t \in Polled /\ t.of = u.of /\ ToSet(t.jobs) = ToSet(u.jobs) \union ToSet(more)
  BY <1>2, <1>3, MoreJobs, Zenon
<1>5. Relink(s, but) = t
  BY Zenon DEF Relink, u, more, lost
<1> HIDE DEF t
<1>6. Grows(s, t)
  BY <1>2, <1>4 DEF Grows
<1>7. ASSUME NEW q \in Phones PROVE LeavesAlone(s, t, q)
  <2>1. CASE q \in lost
    <3>1. Asks(AdbJob("connect", q, rows.version), q)
      BY DEF Asks, AdbJob
    <3>2. AdbJob("connect", q, rows.version) \in ToSet(t.jobs)
      BY <1>3, <1>4, <2>1
    <3>3. Served(t, q)
      BY <3>1, <3>2, Zenon DEF Served
    <3> QED BY <1>2, <1>4, <3>3 DEF LeavesAlone
  <2>2. CASE q \notin lost
    <3>1. t.of[q] = s.of[q]
      BY <1>2, <1>4, <2>2
    <3> QED BY <1>6, <3>1, Zenon DEF LeavesAlone, Served, Grows
  <2> QED BY <2>1, <2>2
<1> QED BY <1>4, <1>5, <1>6, <1>7

\* A step that adds a command, at most.
LEMMA AddsAJob ==
  ASSUME NEW s \in Polled, NEW job \in Job
  PROVE  LET t == [s EXCEPT !.jobs = Append(@, job)]
         IN  /\ t \in Polled /\ Grows(s, t) /\ job \in ToSet(t.jobs)
             /\ \A q \in Phones : LeavesAlone(s, t, q) /\ t.of[q] = s.of[q]
<1> DEFINE t == [s EXCEPT !.jobs = Append(@, job)]
<1>1. t \in Polled /\ t.of = s.of /\ ToSet(t.jobs) = ToSet(s.jobs) \union {job}
  BY OneMoreJob, Zenon
<1> HIDE DEF t
<1>2. Grows(s, t) /\ job \in ToSet(t.jobs)
  BY <1>1 DEF Grows
<1>3. ASSUME NEW q \in Phones PROVE LeavesAlone(s, t, q) /\ t.of[q] = s.of[q]
  BY <1>1, <1>2, Zenon DEF LeavesAlone, Served, Grows
<1> QED BY <1>1, <1>2, <1>3 DEF t

\* What an event does to the rows: its own phone is free again, and a bridge that came up
\* is linked before long; the others are left as they are.
EventEffect(s, t, p, on) ==
  /\ t \in Polled /\ Grows(s, t)
  /\ ~t.of[p].busy /\ (on => Served(t, p))
  /\ \A q \in Phones \ {p} : LeavesAlone(s, t, q)

LEMMA OnEventEffect ==
  ASSUME BridgesAssumption, rows.version \in Nat, NEW s \in Polled, NEW e \in BridgeEvent
  PROVE  EventEffect(s, OnEvent(s, e), e.phone, e.on)
<1> DEFINE p == e.phone
           free == [s EXCEPT !.of[p].busy = FALSE, !.of[p].missing = FALSE]
           told == IF e.stopped THEN Relink(free, {p}) ELSE free
           away == Unlink(told, {p})
<1>1. p \in Phones /\ e.on \in BOOLEAN /\ e.ok \in BOOLEAN /\ e.stopped \in BOOLEAN
  BY DEF BridgeEvent
<1>2. /\ OnEvent(s, e) = IF e.on THEN [told EXCEPT !.jobs = Append(@, Connect(p))]
                         ELSE IF ~e.ok THEN told
                         ELSE IF ~recording THEN [away EXCEPT !.jobs = Append(@, RestartJob)]
                         ELSE IF told.of[p].linked THEN [away EXCEPT !.jobs = Append(@, Disconnect(p))]
                         ELSE told
  BY DEF OnEvent
<1>3. /\ free \in Polled /\ Grows(s, free) /\ ~free.of[p].busy
      /\ \A q \in Phones \ {p} : LeavesAlone(s, free, q)
  <2> DEFINE row == [[s.of[p] EXCEPT !.busy = FALSE] EXCEPT !.missing = FALSE]
  <2>1. s.of[p] \in PhoneRow /\ s.of \in [Phones -> PhoneRow] /\ DOMAIN s = {"of", "jobs"} /\ p \in DOMAIN s.of
    BY <1>1 DEF Polled
  <2>2. row \in PhoneRow /\ ~row.busy
    <3> DEFINE idle == [s.of[p] EXCEPT !.busy = FALSE]
    <3>1. idle \in PhoneRow /\ ~idle.busy
      BY <2>1 DEF PhoneRow
    <3> HIDE DEF idle
    <3>2. [idle EXCEPT !.missing = FALSE] \in PhoneRow /\ ~[idle EXCEPT !.missing = FALSE].busy
      BY <3>1 DEF PhoneRow
    <3> QED BY <3>2 DEF idle
  <2>4. free = [s EXCEPT !.of[p] = row]
    BY <2>1
  <2> HIDE DEF row, free, p
  <2>6. /\ free \in Polled /\ free.jobs = s.jobs
        /\ \A q \in Phones : free.of[q] = IF q = p THEN row ELSE s.of[q]
    BY <1>1, <2>2, <2>4, RowChanged, Zenon
  <2>7. ~free.of[p].busy
    BY <1>1, <2>2, <2>6
  <2>8. ASSUME NEW q \in Phones \ {p} PROVE LeavesAlone(s, free, q)
    <3>1. free.of[q] = s.of[q]
      BY <2>6
    <3> QED BY <2>6, <3>1, Zenon DEF LeavesAlone, Served
  <2>9. Grows(s, free)
    BY <2>6 DEF Grows
  <2> QED BY <2>6, <2>7, <2>8, <2>9
<1> HIDE DEF p, free
<1>4. /\ told \in Polled /\ Grows(s, told) /\ ~told.of[p].busy
      /\ \A q \in Phones \ {p} : LeavesAlone(s, told, q)
  <2>1. CASE e.stopped
    <3>1. told = Relink(free, {p})
      BY <2>1
    <3> HIDE DEF told
    <3>2. /\ told \in Polled /\ Grows(free, told)
          /\ \A q \in Phones : LeavesAlone(free, told, q)
      BY <1>3, <3>1, Relinked, Zenon
    <3>3. Grows(s, told) /\ ~told.of[p].busy
      BY <1>1, <1>3, <3>2 DEF Grows, LeavesAlone
    <3>4. \A q \in Phones \ {p} : LeavesAlone(s, told, q)
      BY <1>3, <3>2, AloneTwice
    <3> QED BY <3>2, <3>3, <3>4
  <2>2. CASE ~e.stopped
    <3>1. told = free
      BY <2>2
    <3> QED BY <1>3, <3>1, Zenon
  <2> QED BY <2>1, <2>2
<1> HIDE DEF told
<1>5. /\ away \in Polled /\ Grows(s, away) /\ ~away.of[p].busy
      /\ \A q \in Phones \ {p} : LeavesAlone(s, away, q)
  <2>1. /\ away \in Polled /\ away.jobs = told.jobs
        /\ \A q \in Phones : /\ away.of[q].busy = told.of[q].busy
                             /\ q \notin {p} => away.of[q] = told.of[q]
    BY <1>4, Unlinked
  <2> HIDE DEF away
  <2>2. ~away.of[p].busy
    BY <1>1, <1>4, <2>1
  <2>3. Grows(s, away)
    BY <1>4, <2>1 DEF Grows
  <2>4. ASSUME NEW q \in Phones \ {p} PROVE LeavesAlone(s, away, q)
    <3>1. away.of[q] = told.of[q] /\ LeavesAlone(s, told, q)
      BY <1>4, <2>1
    <3> QED BY <2>1, <3>1, Zenon DEF LeavesAlone, Served
  <2> QED BY <2>1, <2>2, <2>3, <2>4
<1> HIDE DEF away
<1>6. Connect(p) \in Job /\ Disconnect(p) \in Job /\ RestartJob \in Job /\ Asks(Connect(p), p)
  BY <1>1 DEF Connect, Disconnect, RestartJob, AdbJob, Job, Asks
<1>7. ASSUME NEW u, u \in {told, away}, NEW job \in Job
      PROVE  LET t == [u EXCEPT !.jobs = Append(@, job)]
             IN  EventEffect(s, t, p, FALSE) /\ job \in ToSet(t.jobs)
  <2> DEFINE t == [u EXCEPT !.jobs = Append(@, job)]
  <2>1. /\ u \in Polled /\ Grows(s, u) /\ ~u.of[p].busy
        /\ \A q \in Phones \ {p} : LeavesAlone(s, u, q)
    BY <1>4, <1>5, <1>7, Zenon
  <2>2. /\ t \in Polled /\ Grows(u, t) /\ job \in ToSet(t.jobs)
        /\ \A q \in Phones : LeavesAlone(u, t, q) /\ t.of[q] = u.of[q]
    BY <2>1, AddsAJob, Zenon
  <2> HIDE DEF t
  <2>3. Grows(s, t) /\ ~t.of[p].busy
    BY <1>1, <2>1, <2>2 DEF Grows
  <2>4. \A q \in Phones \ {p} : LeavesAlone(s, t, q)
    BY <2>1, <2>2, AloneTwice
  <2> QED BY <2>2, <2>3, <2>4, Zenon DEF EventEffect, t
<1>8. CASE e.on
  <2> DEFINE t == [told EXCEPT !.jobs = Append(@, Connect(p))]
  <2>1. OnEvent(s, e) = t
    BY <1>2, <1>8
  <2>2. EventEffect(s, t, p, FALSE) /\ Connect(p) \in ToSet(t.jobs)
    BY <1>6, <1>7
  <2> HIDE DEF t
  <2>3. Served(t, p)
    BY <1>6, <2>2, Zenon DEF Served
  <2> QED BY <2>1, <2>2, <2>3, Zenon DEF EventEffect, p
<1>9. CASE ~e.on
  <2>1. EventEffect(s, told, p, FALSE)
    BY <1>4, Zenon DEF EventEffect
  <2>2. EventEffect(s, OnEvent(s, e), p, FALSE)
    <3>1. CASE ~e.ok
      BY <1>2, <1>9, <2>1, <3>1
    <3>2. CASE e.ok /\ ~recording
      <4>1. OnEvent(s, e) = [away EXCEPT !.jobs = Append(@, RestartJob)]
        BY <1>2, <1>9, <3>2
      <4> QED BY <1>6, <1>7, <4>1
    <3>3. CASE e.ok /\ recording /\ told.of[p].linked
      <4>1. OnEvent(s, e) = [away EXCEPT !.jobs = Append(@, Disconnect(p))]
        BY <1>2, <1>9, <3>3
      <4> QED BY <1>6, <1>7, <4>1
    <3>4. CASE e.ok /\ recording /\ ~told.of[p].linked
      BY <1>2, <1>9, <2>1, <3>4
    <3> QED BY <3>1, <3>2, <3>3, <3>4
  <2> QED BY <1>9, <2>2, Zenon DEF EventEffect, p
<1> QED BY <1>8, <1>9

\* What a command does to the rows when poll() looks at it: one that is not done stays;
\* an `adb connect` of this connection serves its bridge, done or not.
JobEffect(s, t, job) ==
  /\ t \in Polled /\ Grows(s, t)
  /\ job.state # "done" => job \in ToSet(t.jobs)
  /\ job.kind = "connect" /\ job.version = rows.version /\ rows.version # 0 => Served(t, job.phone)
  /\ \A q \in Phones : LeavesAlone(s, t, q)

LEMMA OnJobEffect ==
  ASSUME BridgesAssumption, rows.version \in Nat, NEW s \in Polled, NEW job \in Job
  PROVE  JobEffect(s, OnJob(s, job), job)
<1> DEFINE t == OnJob(s, job)
           p == job.phone
<1>1. \A u : Grows(u, u) /\ \A q \in Phones : LeavesAlone(u, u, q)
  BY Zenon DEF Grows, LeavesAlone
<1>2. CASE job.state # "done"
  <2> DEFINE u == [s EXCEPT !.jobs = Append(@, job)]
  <2>1. t = u
    BY <1>2 DEF OnJob
  <2>2. /\ u \in Polled /\ Grows(s, u) /\ job \in ToSet(u.jobs)
        /\ \A q \in Phones : LeavesAlone(s, u, q)
    BY AddsAJob, Zenon
  <2> HIDE DEF u, t
  <2>3. job.kind = "connect" /\ job.version = rows.version => Served(t, p)
    BY <2>1, <2>2, Zenon DEF Served, Asks
  <2> QED BY <2>1, <2>2, <2>3, Zenon DEF JobEffect, t
<1>3. CASE job.state = "done" /\ job.kind = "connect" /\ job.version = rows.version /\ rows.version # 0
  <2>1. p \in Phones
    BY <1>3 DEF Job
  <2> DEFINE row == IF installed THEN [s.of[p] EXCEPT !.linked = TRUE] ELSE [s.of[p] EXCEPT !.missing = TRUE]
  <2>2. t = IF installed THEN [s EXCEPT !.of[p].linked = TRUE] ELSE [s EXCEPT !.of[p].missing = TRUE]
    BY <1>3 DEF OnJob
  <2>3. s.of[p] \in PhoneRow /\ s.of \in [Phones -> PhoneRow] /\ DOMAIN s = {"of", "jobs"} /\ p \in DOMAIN s.of
    BY <2>1 DEF Polled
  <2>4. row \in PhoneRow /\ row.busy = s.of[p].busy /\ (row.linked \/ row.missing)
    <3>1. CASE installed
      BY <2>3, <3>1 DEF PhoneRow
    <3>2. CASE ~installed
      BY <2>3, <3>2 DEF PhoneRow
    <3> QED BY <3>1, <3>2
  <2>5. t = [s EXCEPT !.of[p] = row]
    <3> HIDE DEF t, p
    <3>1. CASE installed
      BY <2>2, <2>3, <3>1
    <3>2. CASE ~installed
      BY <2>2, <2>3, <3>2
    <3> QED BY <3>1, <3>2
  <2> HIDE DEF row, t, p
  <2>6. /\ t \in Polled /\ t.jobs = s.jobs
        /\ \A q \in Phones : t.of[q] = IF q = p THEN row ELSE s.of[q]
    BY <2>1, <2>4, <2>5, RowChanged, Zenon
  <2>7. Served(t, p)
    BY <2>1, <2>4, <2>6 DEF Served
  <2>8. ASSUME NEW q \in Phones PROVE LeavesAlone(s, t, q)
    <3>1. CASE q = p
      BY <2>1, <2>4, <2>6, <2>7, <3>1 DEF LeavesAlone
    <3>2. CASE q # p
      <4>1. t.of[q] = s.of[q]
        BY <2>6, <3>2
      <4> QED BY <2>6, <4>1, Zenon DEF LeavesAlone, Served
    <3> QED BY <3>1, <3>2
  <2>9. Grows(s, t)
    BY <2>6 DEF Grows
  <2> QED BY <1>3, <2>6, <2>7, <2>8, <2>9, Zenon DEF JobEffect, t, p
<1>4. CASE job.state = "done" /\ ~(job.kind = "connect" /\ job.version = rows.version /\ rows.version # 0)
  <2>1. job.kind \in {"connect", "disconnect", "restart"}
    BY DEF Job
  <2>2. t = s \/ t = Relink(s, {})
    BY <1>4, <2>1 DEF OnJob
  <2> HIDE DEF t
  <2>3. t \in Polled /\ Grows(s, t) /\ \A q \in Phones : LeavesAlone(s, t, q)
    BY <1>1, <2>2, Relinked, Zenon
  <2> QED BY <1>4, <2>3, Zenon DEF JobEffect, t
<1> QED BY <1>2, <1>3, <1>4

\* The events are read one after the other.
LEMMA EventsRun ==
  ASSUME BridgesAssumption, rows.version \in Nat, events \in Seq(BridgeEvent), NEW s \in Polled
  PROVE  \E r : /\ r[0] = s /\ \A n \in 1..Len(events) : r[n] = OnEvent(r[n - 1], events[n])
                /\ AfterEvents(s) = r[Len(events)]
<1> DEFINE L == Len(events)
           Reads(f) == f = [n \in 0..L |-> IF n = 0 THEN s ELSE OnEvent(f[n - 1], events[n])]
           r == CHOOSE g : Reads(g)
           step == [n \in 1..L |-> [u \in Polled |-> OnEvent(u, events[n])]]
<1>1. L \in Nat /\ \A n \in 1..L : events[n] \in BridgeEvent
  OBVIOUS
<1>2. AfterEvents(s) = r[L]
  BY DEF AfterEvents, L
<1> HIDE DEF L
<1>3. step \in [1..L -> [Polled -> Polled]]
  <2>1. ASSUME NEW n \in 1..L, NEW u \in Polled PROVE OnEvent(u, events[n]) \in Polled
    BY <1>1, OnEventEffect, Zenon DEF EventEffect
  <2> QED BY <2>1
<1>4. \A n \in 1..L, u \in Polled : step[n][u] = OnEvent(u, events[n])
  OBVIOUS
<1> HIDE DEF step
<1>5. PICK w \in [0..L -> Polled] : Follows(w, L, s, step)
  BY <1>1, <1>3, StepsExist, Zenon
<1>6. w = [n \in 0..L |-> w[n]]
  OBVIOUS
<1>7. Reads(w)
  <2>1. ASSUME NEW n \in 0..L
        PROVE  w[n] = IF n = 0 THEN s ELSE OnEvent(w[n - 1], events[n])
    <3>1. CASE n # 0
      <4>1. n \in 1..L /\ n - 1 \in 0..L
        BY <1>1, <3>1
      <4>2. w[n - 1] \in Polled
        BY <4>1
      <4>3. w[n] = step[n][w[n - 1]]
        BY <1>5, <4>1, Zenon DEF Follows
      <4> QED BY <1>4, <3>1, <4>1, <4>2, <4>3, Zenon
    <3>2. CASE n = 0
      BY <1>5, <3>2, Zenon DEF Follows
    <3> QED BY <3>1, <3>2, Zenon
  <2>2. [n \in 0..L |-> w[n]] = [n \in 0..L |-> IF n = 0 THEN s ELSE OnEvent(w[n - 1], events[n])]
    BY <2>1, Zenon
  <2> QED BY <1>6, <2>2, Zenon
<1>8. Reads(r)
  <2> HIDE DEF Reads
  <2> QED BY <1>7, Zenon
<1> HIDE DEF r
<1>9. \A n \in 0..L : r[n] = IF n = 0 THEN s ELSE OnEvent(r[n - 1], events[n])
  BY <1>8, Zenon
<1>10. r[0] = s
  <2>1. 0 \in 0..L
    BY <1>1
  <2> QED BY <1>9, <2>1, Zenon
<1>11. ASSUME NEW n \in 1..L PROVE r[n] = OnEvent(r[n - 1], events[n])
  <2>1. n \in 0..L /\ n # 0
    BY <1>1
  <2> QED BY <1>9, <2>1, Zenon
<1> QED BY <1>2, <1>10, <1>11, Zenon DEF L

LEMMA JobsRun ==
  ASSUME BridgesAssumption, rows.version \in Nat, jobs \in Seq(Job), NEW s \in Polled
  PROVE  \E r : /\ r[0] = s /\ \A n \in 1..Len(jobs) : r[n] = OnJob(r[n - 1], jobs[n])
                /\ AfterJobs(s) = r[Len(jobs)]
<1> DEFINE L == Len(jobs)
           Reads(f) == f = [n \in 0..L |-> IF n = 0 THEN s ELSE OnJob(f[n - 1], jobs[n])]
           r == CHOOSE g : Reads(g)
           step == [n \in 1..L |-> [u \in Polled |-> OnJob(u, jobs[n])]]
<1>1. L \in Nat /\ \A n \in 1..L : jobs[n] \in Job
  OBVIOUS
<1>2. AfterJobs(s) = r[L]
  BY DEF AfterJobs, L
<1> HIDE DEF L
<1>3. step \in [1..L -> [Polled -> Polled]]
  <2>1. ASSUME NEW n \in 1..L, NEW u \in Polled PROVE OnJob(u, jobs[n]) \in Polled
    BY <1>1, OnJobEffect, Zenon DEF JobEffect
  <2> QED BY <2>1
<1>4. \A n \in 1..L, u \in Polled : step[n][u] = OnJob(u, jobs[n])
  OBVIOUS
<1> HIDE DEF step
<1>5. PICK w \in [0..L -> Polled] : Follows(w, L, s, step)
  BY <1>1, <1>3, StepsExist, Zenon
<1>6. w = [n \in 0..L |-> w[n]]
  OBVIOUS
<1>7. Reads(w)
  <2>1. ASSUME NEW n \in 0..L
        PROVE  w[n] = IF n = 0 THEN s ELSE OnJob(w[n - 1], jobs[n])
    <3>1. CASE n # 0
      <4>1. n \in 1..L /\ n - 1 \in 0..L
        BY <1>1, <3>1
      <4>2. w[n - 1] \in Polled
        BY <4>1
      <4>3. w[n] = step[n][w[n - 1]]
        BY <1>5, <4>1, Zenon DEF Follows
      <4> QED BY <1>4, <3>1, <4>1, <4>2, <4>3, Zenon
    <3>2. CASE n = 0
      BY <1>5, <3>2, Zenon DEF Follows
    <3> QED BY <3>1, <3>2, Zenon
  <2>2. [n \in 0..L |-> w[n]] = [n \in 0..L |-> IF n = 0 THEN s ELSE OnJob(w[n - 1], jobs[n])]
    BY <2>1, Zenon
  <2> QED BY <1>6, <2>2, Zenon
<1>8. Reads(r)
  <2> HIDE DEF Reads
  <2> QED BY <1>7, Zenon
<1> HIDE DEF r
<1>9. \A n \in 0..L : r[n] = IF n = 0 THEN s ELSE OnJob(r[n - 1], jobs[n])
  BY <1>8, Zenon
<1>10. r[0] = s
  <2>1. 0 \in 0..L
    BY <1>1
  <2> QED BY <1>9, <2>1, Zenon
<1>11. ASSUME NEW n \in 1..L PROVE r[n] = OnJob(r[n - 1], jobs[n])
  <2>1. n \in 0..L /\ n # 0
    BY <1>1
  <2> QED BY <1>9, <2>1, Zenon
<1> QED BY <1>2, <1>10, <1>11, Zenon DEF L

\* After some of the events: a phone that none was about is left alone; one that some
\* were about is free, and served when all of them say that its bridge listens.
EventsRead(s, t, n) ==
  /\ t \in Polled /\ Grows(s, t)
  /\ \A q \in Phones : (\A m \in 1..n : events[m].phone # q) => LeavesAlone(s, t, q)
  /\ \A m \in 1..n :
       /\ ~t.of[events[m].phone].busy
       /\ (\A k \in 1..n : events[k].phone = events[m].phone => events[k].on) => Served(t, events[m].phone)

LEMMA AfterEventsRead ==
  ASSUME BridgesAssumption, rows.version \in Nat, events \in Seq(BridgeEvent), NEW s \in Polled
  PROVE  EventsRead(s, AfterEvents(s), Len(events))
<1> DEFINE L == Len(events)
<1>1. L \in Nat /\ \A n \in 1..L : events[n] \in BridgeEvent
  OBVIOUS
<1> HIDE DEF L
<1>2. PICK r : /\ r[0] = s /\ \A n \in 1..L : r[n] = OnEvent(r[n - 1], events[n])
               /\ AfterEvents(s) = r[L]
  BY EventsRun, Zenon DEF L
<1> DEFINE T == {n \in 0..L : EventsRead(s, r[n], n)}
<1>3. 0 \in T
  <2>1. 0 \in 0..L /\ \A m \in 1..0 : FALSE
    BY <1>1
  <2>2. EventsRead(s, s, 0)
    BY <2>1, Zenon DEF EventsRead, Grows, LeavesAlone
  <2> QED BY <1>2, <2>1, <2>2, Zenon
<1>4. ASSUME NEW n \in 1..L, n - 1 \in T PROVE n \in T
  <2> DEFINE u == r[n - 1]
             t == r[n]
             p == events[n].phone
  <2>1. EventsRead(s, u, n - 1)
    BY <1>4, Zenon
  <2>2. events[n] \in BridgeEvent /\ p \in Phones /\ n \in 0..L /\ t = OnEvent(u, events[n])
    BY <1>1, <1>2 DEF BridgeEvent
  <2>3. EventEffect(u, t, p, events[n].on)
    <3> HIDE DEF u, t, p
    <3>1. u \in Polled
      BY <2>1, Zenon DEF EventsRead
    <3> QED BY <2>2, <3>1, OnEventEffect, Zenon DEF p
  <2>4. \A m \in 1..n : m = n \/ m \in 1..(n - 1)
    BY <1>1
  <2>5. n \in 1..n /\ \A m \in 1..(n - 1) : m \in 1..n
    BY <1>1
  <2> HIDE DEF u, t
  <2>6. t \in Polled /\ Grows(s, t)
    BY <2>1, <2>3 DEF EventsRead, EventEffect, Grows
  <2>7. ASSUME NEW q \in Phones, \A m \in 1..n : events[m].phone # q
        PROVE  LeavesAlone(s, t, q)
    <3>1. LeavesAlone(s, u, q)
      BY <2>1, <2>5, <2>7, Zenon DEF EventsRead
    <3>2. q \in Phones \ {p}
      BY <2>5, <2>7
    <3>3. LeavesAlone(u, t, q)
      BY <2>3, <3>2, Zenon DEF EventEffect
    <3> QED BY <3>1, <3>3, AloneTwice, Zenon
  <2>8. ASSUME NEW m \in 1..n
        PROVE  /\ ~t.of[events[m].phone].busy
               /\ (\A k \in 1..n : events[k].phone = events[m].phone => events[k].on)
                    => Served(t, events[m].phone)
    <3>1. CASE events[m].phone = p
      <4>1. ~t.of[p].busy /\ (events[n].on => Served(t, p))
        BY <2>3, Zenon DEF EventEffect
      <4> QED BY <2>5, <3>1, <4>1, Zenon
    <3>2. CASE events[m].phone # p
      <4>1. m \in 1..(n - 1)
        BY <2>4, <3>2
      <4>2. m \in 1..L
        BY <1>1
      <4>3. events[m] \in BridgeEvent
        BY <1>1, <4>2, Zenon
      <4>4. events[m].phone \in Phones \ {p}
        BY <3>2, <4>3 DEF BridgeEvent
      <4>5. LeavesAlone(u, t, events[m].phone)
        BY <2>3, <4>4, Zenon DEF EventEffect
      <4>6. /\ ~u.of[events[m].phone].busy
            /\ (\A k \in 1..(n - 1) : events[k].phone = events[m].phone => events[k].on)
                 => Served(u, events[m].phone)
        BY <2>1, <4>1, Zenon DEF EventsRead
      <4> HIDE DEF p
      <4> QED BY <2>5, <4>5, <4>6, Zenon DEF LeavesAlone
    <3> QED BY <3>1, <3>2
  <2>9. EventsRead(s, t, n)
    BY <2>6, <2>7, <2>8, Zenon DEF EventsRead
  <2> QED BY <2>2, <2>9, Zenon DEF t
<1>5. L \in T
  <2> HIDE DEF T
  <2>1. 0..L \subseteq T
    BY <1>1, <1>3, <1>4, StepByStep, Zenon
  <2>2. L \in 0..L
    BY <1>1
  <2> QED BY <2>1, <2>2, Zenon
<1> QED BY <1>2, <1>5, Zenon DEF L

\* After some of the commands: every row is left alone, what is not done is still there,
\* and every bridge one of them was to connect is served.
JobsLookedAt(s, t, n) ==
  /\ t \in Polled /\ \A q \in Phones : LeavesAlone(s, t, q)
  /\ \A m \in 1..n :
       /\ jobs[m].state # "done" => jobs[m] \in ToSet(t.jobs)
       /\ jobs[m].kind = "connect" /\ jobs[m].version = rows.version /\ rows.version # 0
            => Served(t, jobs[m].phone)

LEMMA AfterJobsLookedAt ==
  ASSUME BridgesAssumption, rows.version \in Nat, jobs \in Seq(Job), NEW s \in Polled
  PROVE  JobsLookedAt(s, AfterJobs(s), Len(jobs))
<1> DEFINE L == Len(jobs)
<1>1. L \in Nat /\ \A n \in 1..L : jobs[n] \in Job
  OBVIOUS
<1> HIDE DEF L
<1>2. PICK r : /\ r[0] = s /\ \A n \in 1..L : r[n] = OnJob(r[n - 1], jobs[n])
               /\ AfterJobs(s) = r[L]
  BY JobsRun, Zenon DEF L
<1> DEFINE T == {n \in 0..L : JobsLookedAt(s, r[n], n)}
<1>3. 0 \in T
  <2>1. 0 \in 0..L /\ \A m \in 1..0 : FALSE
    BY <1>1
  <2>2. JobsLookedAt(s, s, 0)
    BY <2>1, Zenon DEF JobsLookedAt, LeavesAlone
  <2> QED BY <1>2, <2>1, <2>2, Zenon
<1>4. ASSUME NEW n \in 1..L, n - 1 \in T PROVE n \in T
  <2> DEFINE u == r[n - 1]
             t == r[n]
  <2>1. JobsLookedAt(s, u, n - 1)
    BY <1>4, Zenon
  <2>2. jobs[n] \in Job /\ n \in 0..L /\ t = OnJob(u, jobs[n])
    BY <1>1, <1>2
  <2>3. JobEffect(u, t, jobs[n])
    <3> HIDE DEF u, t
    <3>1. u \in Polled
      BY <2>1, Zenon DEF JobsLookedAt
    <3> QED BY <2>2, <3>1, OnJobEffect, Zenon
  <2>4. \A m \in 1..n : m = n \/ m \in 1..(n - 1)
    BY <1>1
  <2> HIDE DEF u, t
  <2>5. ASSUME NEW q \in Phones PROVE LeavesAlone(s, t, q)
    <3>1. LeavesAlone(s, u, q) /\ LeavesAlone(u, t, q)
      BY <2>1, <2>3, Zenon DEF JobsLookedAt, JobEffect
    <3> QED BY <3>1, AloneTwice, Zenon
  <2>6. ASSUME NEW m \in 1..n
        PROVE  /\ jobs[m].state # "done" => jobs[m] \in ToSet(t.jobs)
               /\ jobs[m].kind = "connect" /\ jobs[m].version = rows.version /\ rows.version # 0
                    => Served(t, jobs[m].phone)
    <3>1. CASE m = n
      BY <2>3, <3>1, Zenon DEF JobEffect
    <3>2. CASE m # n
      <4>1. m \in 1..(n - 1) /\ m \in 1..L
        BY <1>1, <2>4, <3>2
      <4>2. /\ jobs[m].state # "done" => jobs[m] \in ToSet(u.jobs)
            /\ jobs[m].kind = "connect" /\ jobs[m].version = rows.version /\ rows.version # 0
                 => Served(u, jobs[m].phone)
        BY <2>1, <4>1, Zenon DEF JobsLookedAt
      <4>3. ToSet(u.jobs) \subseteq ToSet(t.jobs)
        BY <2>3, Zenon DEF JobEffect, Grows
      <4>4. jobs[m].kind = "connect" => jobs[m].phone \in Phones
        <5>1. jobs[m] \in Job
          BY <1>1, <4>1, Zenon
        <5> QED BY <5>1 DEF Job
      <4>5. jobs[m].kind = "connect" => LeavesAlone(u, t, jobs[m].phone)
        BY <2>3, <4>4, Zenon DEF JobEffect
      <4> QED BY <4>2, <4>3, <4>5, Zenon DEF LeavesAlone
    <3> QED BY <3>1, <3>2
  <2>7. t \in Polled
    BY <2>3, Zenon DEF JobEffect
  <2>8. JobsLookedAt(s, t, n)
    BY <2>5, <2>6, <2>7, Zenon DEF JobsLookedAt
  <2> QED BY <2>2, <2>8, Zenon DEF t
<1>5. L \in T
  <2> HIDE DEF T
  <2>1. 0..L \subseteq T
    BY <1>1, <1>3, <1>4, StepByStep, Zenon
  <2>2. L \in 0..L
    BY <1>1
  <2> QED BY <2>1, <2>2, Zenon
<1> QED BY <1>2, <1>5, Zenon DEF L

-----------------------------------------------------------------------------
(* The switches of a connection                                            *)

BridgePhases == {"idle", "connecting", "connected", "playing", "disconnecting"}
Switch == [phone : Phones, on : BOOLEAN]

BridgeTypes ==
  /\ engine \in [phase : BridgePhases, version : Nat, on : SUBSET Phones]
  /\ inbox \in Seq(Switch) /\ events \in Seq(BridgeEvent)
  /\ rows \in [version : Nat, of : [Phones -> PhoneRow]]
  /\ jobs \in Seq(Job) /\ last_phase \in BridgePhases
  /\ server \in [up : BOOLEAN, links : SUBSET Phones]

\* The rows are never ahead of the connection, and until they are of it no bridge is asked
\* for and none listens.
OneConnection ==
  /\ rows.version <= engine.version
  /\ engine.phase \notin {"idle", "connecting"} => engine.version # 0
  /\ engine.phase \in {"idle", "connecting"} => engine.on = {}
  /\ connected /\ rows.version # engine.version => inbox = <<>> /\ engine.on = {}

Synced == connected /\ rows.version = engine.version

Served1(q) ==
  rows.of[q].linked \/ rows.of[q].missing \/ \E job \in ToSet(jobs) : Asks(job, q)

Fresh(q) == \E e \in ToSet(events) : e.phone = q
Wanted(q) == \E a \in ToSet(inbox) : a.phone = q

\* A phone is busy from the request to the poll that reads the answer, with one request
\* for it at a time, and what was answered last is so.
SwitchesInv ==
  Synced =>
    /\ NoTwice(inbox) /\ \A a, b \in ToSet(inbox) : a.phone = b.phone => a = b
    /\ \A a \in ToSet(inbox) : a.on => a.phone \notin engine.on
    /\ \A a \in ToSet(inbox) : rows.of[a.phone].busy /\ ~Fresh(a.phone)
    /\ \A e \in ToSet(events) : ~e.on => e.phone \notin engine.on
    /\ polling # "events" => \A e \in ToSet(events) : rows.of[e.phone].busy
    /\ \A q \in engine.on : Served1(q) \/ Fresh(q) \/ rows.of[q].busy
    /\ \A q \in Phones : rows.of[q].busy => Fresh(q) \/ Wanted(q)

\* Without a connection adb's server has no links, or is about to be restarted.
LinksInv ==
  /\ ~installed => server.links = {}
  /\ engine.phase = "connecting" /\ ~missed => last_phase \in {"idle", "connecting"}
  /\ ~missed /\ engine.phase \in {"idle", "connecting"} /\ last_phase \in {"idle", "connecting"}
       => server.links = {} \/ \E job \in ToSet(jobs) : job.kind = "restart" /\ job.state = "new"

BridgesInv == BridgeTypes /\ OneConnection /\ SwitchesInv /\ LinksInv

LEMMA EmptyQueue == ToSet(<<>>) = {} /\ NoTwice(<<>>) /\ \A S : <<>> \in Seq(S)
  BY DEF ToSet, NoTwice

LEMMA BridgesStart == BridgesInit => BridgesInv
<1> SUFFICES ASSUME BridgesInit PROVE BridgesInv
  OBVIOUS
<1>1. BridgeTypes
  BY EmptyQueue DEF BridgesInit, BridgeTypes, BridgePhases, NoRows, Off, BridgeRow, PhoneRow
<1>2. OneConnection
  BY DEF BridgesInit, OneConnection, connected, NoRows
<1>3. SwitchesInv
  BY DEF BridgesInit, SwitchesInv, Synced, connected
<1>4. LinksInv
  BY DEF BridgesInit, LinksInv
<1> QED BY <1>1, <1>2, <1>3, <1>4 DEF BridgesInv

\* What changes none of the queues and none of the rows.
LEMMA SwitchesStay ==
  ASSUME SwitchesInv, inbox' = inbox, events' = events, rows' = rows, jobs' = jobs,
         engine.on' = engine.on, polling' # "events" => polling # "events",
         Synced' => Synced
  PROVE  SwitchesInv'
  BY Zenon DEF SwitchesInv, Served1, Fresh, Wanted, Asks

\* The rows of a connection, one phone's changed.
LEMMA RowsChanged ==
  ASSUME NEW of \in [Phones -> PhoneRow], NEW p \in Phones, NEW version \in Nat
  PROVE  LET new == [of EXCEPT ![p].busy = TRUE, ![p].missing = FALSE]
         IN  /\ new \in [Phones -> PhoneRow] /\ new[p].busy
             /\ \A q \in Phones \ {p} : new[q] = of[q]
<1> DEFINE row == [[of[p] EXCEPT !.busy = TRUE] EXCEPT !.missing = FALSE]
           new == [of EXCEPT ![p].busy = TRUE, ![p].missing = FALSE]
<1>1. of[p] \in PhoneRow
  OBVIOUS
<1>2. row \in PhoneRow /\ row.busy
  <2> DEFINE u == [of[p] EXCEPT !.busy = TRUE]
  <2>1. u \in PhoneRow /\ u.busy
    BY <1>1 DEF PhoneRow
  <2> HIDE DEF u
  <2>2. [u EXCEPT !.missing = FALSE] \in PhoneRow /\ [u EXCEPT !.missing = FALSE].busy
    BY <2>1 DEF PhoneRow
  <2> QED BY <2>2 DEF u
<1>3. new = [of EXCEPT ![p] = row]
  BY <1>1
<1> HIDE DEF row, new
<1>4. new \in [Phones -> PhoneRow] /\ new[p] = row /\ \A q \in Phones \ {p} : new[q] = of[q]
  BY <1>2, <1>3
<1> QED BY <1>2, <1>4 DEF new

LEMMA SwitchRequested ==
  ASSUME BridgesInv, NEW p \in Phones, NEW on \in BOOLEAN, RequestBridge(p, on)
  PROVE  BridgesInv'
<1> DEFINE of == [rows.of EXCEPT ![p].busy = TRUE, ![p].missing = FALSE]
           a == [phone |-> p, on |-> on]
<1> USE DEF BridgesInv
<1>1. /\ rows.version = engine.version /\ engine.phase = "connected" /\ Synced
      /\ ~rows.of[p].busy /\ on # (p \in engine.on) /\ inbox' = Append(inbox, a)
      /\ rows' = [rows EXCEPT !.of[p].busy = TRUE, !.of[p].missing = FALSE]
      /\ engine' = engine /\ events' = events /\ jobs' = jobs /\ server' = server
      /\ polling' = polling /\ polling = "away" /\ installed' = installed /\ missed' = missed
      /\ last_phase' = last_phase
  BY DEF RequestBridge, Ask, Synced, connected
<1>2. rows.of \in [Phones -> PhoneRow] /\ rows.version \in Nat /\ DOMAIN rows = {"version", "of"}
  BY DEF BridgeTypes
<1>3. of \in [Phones -> PhoneRow] /\ of[p].busy /\ \A q \in Phones \ {p} : of[q] = rows.of[q]
  BY <1>2, RowsChanged, Zenon
<1>4. rows' = [rows EXCEPT !.of = of]
  BY <1>1, <1>2
<1> HIDE DEF of
<1>5. rows'.of = of /\ rows'.version = rows.version
  BY <1>2, <1>4
<1>6. rows' \in [version : Nat, of : [Phones -> PhoneRow]]
  BY <1>3, <1>4 DEF BridgeTypes
<1>7. a \in Switch /\ a.phone = p /\ a.on = on
  BY DEF Switch
<1> HIDE DEF a
<1>8. inbox \in Seq(Switch)
  BY DEF BridgeTypes
<1>9. a \notin ToSet(inbox)
  BY <1>1, <1>7, Zenon DEF SwitchesInv
<1>10. /\ inbox' \in Seq(Switch) /\ ToSet(inbox') = ToSet(inbox) \union {a}
       /\ NoTwice(inbox) => NoTwice(inbox')
  BY <1>1, <1>7, <1>8, <1>9, Appended
<1>11. BridgeTypes'
  BY <1>1, <1>6, <1>10 DEF BridgeTypes
<1>12. OneConnection'
  BY <1>1, <1>5 DEF OneConnection, connected
<1>13. LinksInv'
  BY <1>1 DEF LinksInv
<1>14. Synced'
  BY <1>1, <1>5 DEF Synced, connected
<1>15. \A b \in ToSet(inbox) : b.phone \in Phones \ {p} /\ rows'.of[b.phone] = rows.of[b.phone]
  <2>1. \A b \in ToSet(inbox) : b \in Switch
    BY <1>8 DEF ToSet
  <2>2. \A b \in ToSet(inbox) : rows.of[b.phone].busy
    BY <1>1, Zenon DEF SwitchesInv
  <2> QED BY <1>1, <1>3, <1>5, <2>1, <2>2 DEF Switch
<1>16. \A e \in ToSet(events) : e.phone \in Phones \ {p} /\ rows'.of[e.phone] = rows.of[e.phone]
  <2>1. \A e \in ToSet(events) : e \in BridgeEvent
    BY DEF ToSet, BridgeTypes
  <2>2. \A e \in ToSet(events) : rows.of[e.phone].busy
    BY <1>1 DEF SwitchesInv
  <2> QED BY <1>1, <1>3, <1>5, <2>1, <2>2 DEF BridgeEvent
<1>17. \A q : (Fresh(q))' <=> Fresh(q)
  BY <1>1, Zenon DEF Fresh
<1>18. \A q : (Wanted(q))' <=> Wanted(q) \/ q = p
  BY <1>7, <1>10 DEF Wanted
<1>19. \A q \in Phones \ {p} : rows'.of[q] = rows.of[q] /\ ((Served1(q))' <=> Served1(q))
  BY <1>1, <1>3, <1>5 DEF Served1, Asks
<1>20. rows'.of[p].busy
  BY <1>3, <1>5
<1>21. SwitchesInv'
  <2>1. (NoTwice(inbox) /\ \A b, c \in ToSet(inbox) : b.phone = c.phone => b = c)'
    BY <1>1, <1>7, <1>10, <1>15 DEF SwitchesInv
  <2>2. (\A b \in ToSet(inbox) : b.on => b.phone \notin engine.on)'
    BY <1>1, <1>7, <1>10 DEF SwitchesInv
  <2>3. (\A b \in ToSet(inbox) : rows.of[b.phone].busy /\ ~Fresh(b.phone))'
    <3>1. ~Fresh(p)
      BY <1>16, Zenon DEF Fresh
    <3> QED BY <1>1, <1>7, <1>10, <1>15, <1>17, <1>20, <3>1 DEF SwitchesInv
  <2>4. (\A e \in ToSet(events) : ~e.on => e.phone \notin engine.on)'
    BY <1>1, Zenon DEF SwitchesInv
  <2>5. (\A e \in ToSet(events) : rows.of[e.phone].busy)'
    BY <1>1, <1>16 DEF SwitchesInv
  <2>6. (\A q \in engine.on : Served1(q) \/ Fresh(q) \/ rows.of[q].busy)'
    <3>1. engine.on \subseteq Phones
      BY DEF BridgeTypes
    <3> TAKE q \in engine'.on
    <3>2. CASE q = p
      BY <1>20, <3>2
    <3>3. CASE q # p
      <4>1. q \in engine.on /\ q \in Phones \ {p}
        BY <1>1, <3>1, <3>3
      <4> QED BY <1>1, <1>17, <1>19, <4>1 DEF SwitchesInv
    <3> QED BY <3>2, <3>3
  <2>7. (\A q \in Phones : rows.of[q].busy => Fresh(q) \/ Wanted(q))'
    BY <1>1, <1>17, <1>18, <1>19 DEF SwitchesInv
  <2> QED BY <2>1, <2>2, <2>3, <2>4, <2>5, <2>6, <2>7, Zenon DEF SwitchesInv
<1> QED BY <1>11, <1>12, <1>13, <1>21 DEF BridgesInv

\* The engine comes into another phase.
LEMMA PhaseChanged ==
  ASSUME BridgeTypes, NEW phase \in BridgePhases, engine' = [engine EXCEPT !.phase = phase]
  PROVE  /\ engine' \in [phase : BridgePhases, version : Nat, on : SUBSET Phones]
         /\ engine'.phase = phase /\ engine'.version = engine.version /\ engine'.on = engine.on
  BY DEF BridgeTypes

\* The window's thread between two polls.
LEMMA AskedKept ==
  ASSUME BridgesInv, StartConnect \/ StartDisconnect \/ StartPlay \/ Retry \/ StartRecord \/ RecordEnds
  PROVE  BridgesInv'
<1> USE DEF BridgesInv
<1>1. /\ UNCHANGED <<inbox, events, rows, jobs, polling, last_phase, server, installed>>
      /\ polling = "away"
  BY DEF StartConnect, StartDisconnect, StartPlay, Retry, StartRecord, RecordEnds, Ask, Other
<1>2. CASE StartConnect
  <2>1. /\ engine.phase = "idle" /\ engine' = [engine EXCEPT !.phase = "connecting"]
        /\ missed' = (missed \/ last_phase # "idle")
    BY <1>2 DEF StartConnect
  <2>2. /\ engine' \in [phase : BridgePhases, version : Nat, on : SUBSET Phones]
        /\ engine'.phase = "connecting" /\ engine'.version = engine.version /\ engine'.on = engine.on
    BY <2>1, PhaseChanged DEF BridgePhases
  <2>3. BridgeTypes'
    BY <1>1, <2>2 DEF BridgeTypes
  <2>4. OneConnection'
    BY <1>1, <2>1, <2>2 DEF OneConnection, connected
  <2>5. SwitchesInv'
    BY <2>2 DEF SwitchesInv, Synced, connected
  <2>6. LinksInv'
    <3>1. (~missed)' => ~missed /\ last_phase = "idle"
      BY <2>1
    <3> QED BY <1>1, <2>1, <2>2, <3>1 DEF LinksInv
  <2> QED BY <2>3, <2>4, <2>5, <2>6
<1>3. CASE StartDisconnect
  <2>1. connected /\ engine' = [engine EXCEPT !.phase = "disconnecting"] /\ missed' = missed
    BY <1>3 DEF StartDisconnect
  <2>2. /\ engine' \in [phase : BridgePhases, version : Nat, on : SUBSET Phones]
        /\ engine'.phase = "disconnecting" /\ engine'.version = engine.version /\ engine'.on = engine.on
    BY <2>1, PhaseChanged DEF BridgePhases
  <2>3. BridgeTypes'
    BY <1>1, <2>2 DEF BridgeTypes
  <2>4. OneConnection'
    BY <1>1, <2>1, <2>2 DEF OneConnection, connected
  <2>5. SwitchesInv'
    BY <2>2 DEF SwitchesInv, Synced, connected
  <2>6. LinksInv'
    BY <1>1, <2>2 DEF LinksInv
  <2> QED BY <2>3, <2>4, <2>5, <2>6
<1>4. CASE StartPlay
  <2>1. engine.phase = "connected" /\ engine' = [engine EXCEPT !.phase = "playing"] /\ missed' = missed
    BY <1>4 DEF StartPlay, Other
  <2>2. /\ engine' \in [phase : BridgePhases, version : Nat, on : SUBSET Phones]
        /\ engine'.phase = "playing" /\ engine'.version = engine.version /\ engine'.on = engine.on
    BY <2>1, PhaseChanged DEF BridgePhases
  <2>3. BridgeTypes'
    BY <1>1, <2>2 DEF BridgeTypes
  <2>4. OneConnection'
    BY <1>1, <2>1, <2>2 DEF OneConnection, connected
  <2>5. SwitchesInv'
    <3>1. Synced' => Synced
      BY <1>1, <2>1, <2>2 DEF Synced, connected
    <3> QED BY <1>1, <2>2, <3>1, SwitchesStay
  <2>6. LinksInv'
    BY <1>1, <2>2 DEF LinksInv
  <2> QED BY <2>3, <2>4, <2>5, <2>6
<1>5. CASE Retry \/ StartRecord \/ RecordEnds
  <2>1. engine' = engine /\ missed' = missed
    BY <1>5 DEF Retry, StartRecord, RecordEnds, Other
  <2>2. BridgeTypes'
    BY <1>1, <2>1 DEF BridgeTypes
  <2>3. OneConnection'
    BY <1>1, <2>1 DEF OneConnection, connected
  <2>4. SwitchesInv'
    <3>1. Synced' => Synced
      BY <1>1, <2>1 DEF Synced, connected
    <3> QED BY <1>1, <2>1, <3>1, SwitchesStay
  <2>5. LinksInv'
    BY <1>1, <2>1 DEF LinksInv
  <2> QED BY <2>2, <2>3, <2>4, <2>5
<1> QED BY <1>2, <1>3, <1>4, <1>5

\* A command at the end of the queue leaves the switches as they are.
LEMMA SwitchesGrow ==
  ASSUME SwitchesInv, inbox' = inbox, events' = events, rows' = rows, ToSet(jobs) \subseteq ToSet(jobs'),
         engine' = engine, polling' # "events" => polling # "events"
  PROVE  SwitchesInv'
<1>1. Synced' <=> Synced
  BY DEF Synced, connected
<1>2. \A q : Served1(q) => (Served1(q))'
  BY DEF Served1, Asks
<1>3. \A q : ((Fresh(q))' <=> Fresh(q)) /\ ((Wanted(q))' <=> Wanted(q))
  BY DEF Fresh, Wanted
<1> QED BY <1>1, <1>2, <1>3 DEF SwitchesInv

LEMMA PhasePolled == ASSUME BridgesInv, PollPhase PROVE BridgesInv'
<1> DEFINE ended == engine.phase = "idle" /\ last_phase \in {"disconnecting", "connected", "playing"}
<1> USE DEF BridgesInv
<1>1. /\ engine' = engine /\ inbox' = inbox /\ events' = events /\ rows' = rows /\ server' = server
      /\ installed' = installed /\ polling' = "prep" /\ polling = "away" /\ last_phase' = engine.phase
      /\ jobs' = IF ended /\ ~recording THEN Append(jobs, RestartJob) ELSE jobs
      /\ missed' = IF ended THEN recording ELSE missed
  BY DEF PollPhase, Polls
<1> HIDE DEF ended
<1>2. jobs \in Seq(Job) /\ RestartJob \in Job
  BY DEF BridgeTypes, RestartJob, AdbJob, Job
<1>3. /\ jobs' \in Seq(Job) /\ ToSet(jobs) \subseteq ToSet(jobs')
      /\ ended /\ ~recording => RestartJob \in ToSet(jobs')
  <2>1. CASE ended /\ ~recording
    <3>1. Append(jobs, RestartJob) \in Seq(Job) /\ ToSet(Append(jobs, RestartJob)) = ToSet(jobs) \union {RestartJob}
      BY <1>2, Appended
    <3> QED BY <1>1, <2>1, <3>1
  <2>2. CASE ~(ended /\ ~recording)
    BY <1>1, <1>2, <2>2
  <2> QED BY <2>1, <2>2
<1>4. BridgeTypes'
  BY <1>1, <1>3 DEF BridgeTypes
<1>5. OneConnection'
  BY <1>1 DEF OneConnection, connected
<1>6. SwitchesInv'
  BY <1>1, <1>3, SwitchesGrow
<1>7. RestartJob.kind = "restart" /\ RestartJob.state = "new"
  BY DEF RestartJob, AdbJob
<1>8. engine.phase = "idle" /\ ~ended => last_phase \notin {"disconnecting", "connected", "playing"}
  BY DEF ended
<1>9. LinksInv'
  <2>1. (engine.phase = "connecting" /\ ~missed => last_phase \in {"idle", "connecting"})'
    BY <1>1
  <2>2. (~installed => server.links = {})'
    BY <1>1 DEF LinksInv
  <2>3. (~missed /\ engine.phase \in {"idle", "connecting"} /\ last_phase \in {"idle", "connecting"}
           => server.links = {} \/ \E job \in ToSet(jobs) : job.kind = "restart" /\ job.state = "new")'
    <3> SUFFICES ASSUME (~missed)', engine.phase \in {"idle", "connecting"}
                 PROVE  server.links = {} \/ \E job \in ToSet(jobs') : job.kind = "restart" /\ job.state = "new"
      BY <1>1
    <3>1. CASE ended
      BY <1>1, <1>3, <1>7, <3>1
    <3>2. CASE ~ended
      <4>1. ~missed
        BY <1>1, <3>2
      <4>2. last_phase \in {"idle", "connecting"}
        BY <4>1, <3>2 DEF LinksInv, ended, BridgeTypes, BridgePhases
      <4> QED BY <1>3, <4>1, <4>2 DEF LinksInv
    <3> QED BY <3>1, <3>2
  <2> QED BY <2>1, <2>2, <2>3 DEF LinksInv
<1> QED BY <1>4, <1>5, <1>6, <1>9

\* The rows of a connection that the App has just seen: none is linked, none is busy.
LEMMA VersionPolled == ASSUME BridgesAssumption, BridgesInv, PollVersion PROVE BridgesInv'
<1> DEFINE version == IF connected THEN engine.version ELSE 0
           linked == {p \in Phones : rows.of[p].linked}
<1> USE DEF BridgesInv
<1>1. /\ engine' = engine /\ inbox' = inbox /\ events' = events /\ server' = server
      /\ installed' = installed /\ polling' = "events" /\ last_phase' = last_phase /\ missed' = missed
      /\ IF version = rows.version THEN UNCHANGED <<rows, jobs>>
         ELSE /\ rows' = NoRows(version)
              /\ jobs' = IF version # 0 \/ recording THEN jobs \o ForEach("disconnect", linked) ELSE jobs
  BY DEF PollVersion, Polls
<1>2. jobs \in Seq(Job) /\ rows.version \in Nat /\ engine.version \in Nat /\ version \in Nat
  BY DEF BridgeTypes
<1>3. linked \in SUBSET Phones
  OBVIOUS
<1>4. rows.version <= engine.version /\ version <= engine.version /\ (connected => version = engine.version)
  BY <1>2 DEF OneConnection
<1> HIDE DEF version, linked
<1>5. jobs' \in Seq(Job) /\ ToSet(jobs) \subseteq ToSet(jobs')
  <2>1. /\ jobs \o ForEach("disconnect", linked) \in Seq(Job)
        /\ ToSet(jobs) \subseteq ToSet(jobs \o ForEach("disconnect", linked))
    <3>1. ForEach("disconnect", linked) \in Seq(Job)
      BY <1>2, <1>3, ForEachOf
    <3> QED BY <1>2, <3>1, Joined
  <2> QED BY <1>1, <1>2, <2>1
<1>6. LinksInv'
  BY <1>1, <1>5 DEF LinksInv
<1>7. CASE version = rows.version
  <2>1. rows' = rows
    BY <1>1, <1>7
  <2>2. BridgeTypes'
    BY <1>1, <1>5, <2>1 DEF BridgeTypes
  <2>3. OneConnection'
    BY <1>1, <2>1 DEF OneConnection, connected
  <2>4. SwitchesInv'
    BY <1>1, <1>5, <2>1, SwitchesGrow
  <2> QED BY <1>6, <2>2, <2>3, <2>4
<1>8. CASE version # rows.version
  <2>1. /\ rows' = [version |-> version, of |-> [p \in Phones |-> Off]] /\ rows'.version = version
        /\ \A q \in Phones : rows'.of[q] = Off
    BY <1>1, <1>8 DEF NoRows
  <2>2. Off \in PhoneRow /\ ~Off.busy
    BY DEF Off, BridgeRow, PhoneRow
  <2>3. rows' \in [version : Nat, of : [Phones -> PhoneRow]]
    BY <1>2, <2>1, <2>2
  <2>4. BridgeTypes'
    BY <1>1, <1>5, <2>3 DEF BridgeTypes
  <2>5. OneConnection'
    BY <1>1, <1>4, <2>1 DEF OneConnection, connected
  <2>6. connected => inbox = <<>> /\ engine.on = {}
    BY <1>4, <1>8 DEF OneConnection
  <2>7. SwitchesInv'
    <3> SUFFICES ASSUME Synced' PROVE SwitchesInv'
      BY DEF SwitchesInv
    <3>1. connected
      BY <1>1 DEF Synced, connected
    <3>2. ToSet(inbox') = {} /\ NoTwice(inbox') /\ engine'.on = {} /\ polling' = "events"
      BY <1>1, <2>6, <3>1, EmptyQueue
    <3>3. \A q \in Phones : ~rows'.of[q].busy
      BY <2>1, <2>2
    <3> QED BY <3>2, <3>3 DEF SwitchesInv
  <2> QED BY <1>6, <2>4, <2>5, <2>7
<1> QED BY <1>7, <1>8

\* What a queue holds, by its elements or by their places.
LEMMA HeardAt ==
  ASSUME events \in Seq(BridgeEvent)
  PROVE  \A q : Fresh(q) <=> \E n \in 1..Len(events) : events[n].phone = q
<1>1. DOMAIN events = 1..Len(events)
  OBVIOUS
<1> QED BY <1>1, Zenon DEF Fresh, ToSet

LEMMA EventsPolled == ASSUME BridgesAssumption, BridgesInv, PollEvents PROVE BridgesInv'
<1> DEFINE s == [of |-> rows.of, jobs |-> jobs]
           t == AfterEvents(s)
<1> USE DEF BridgesInv
<1>1. /\ engine' = engine /\ inbox' = inbox /\ events' = <<>> /\ server' = server
      /\ installed' = installed /\ polling' = "jobs" /\ last_phase' = last_phase /\ missed' = missed
      /\ IF rows.version = 0 THEN UNCHANGED <<rows, jobs>>
         ELSE rows' = [rows EXCEPT !.of = t.of] /\ jobs' = t.jobs
  BY DEF PollEvents, Polls
<1>2. /\ jobs \in Seq(Job) /\ rows \in [version : Nat, of : [Phones -> PhoneRow]] /\ rows.version \in Nat
      /\ events \in Seq(BridgeEvent) /\ engine.on \subseteq Phones
  BY DEF BridgeTypes
<1>3. s \in Polled /\ s.of = rows.of /\ s.jobs = jobs
  BY <1>2 DEF Polled
<1> HIDE DEF s
<1>4. EventsRead(s, t, Len(events))
  BY <1>2, <1>3, AfterEventsRead, Zenon
<1> HIDE DEF t
<1>5. events' \in Seq(BridgeEvent) /\ ToSet(events') = {}
  BY <1>1, EmptyQueue
<1>6. CASE rows.version = 0
  <2>1. rows' = rows /\ jobs' = jobs
    BY <1>1, <1>6
  <2>2. BridgeTypes'
    BY <1>1, <1>5, <2>1 DEF BridgeTypes
  <2>3. OneConnection'
    BY <1>1, <2>1 DEF OneConnection, connected
  <2>4. SwitchesInv'
    BY <1>1, <1>6, <2>1 DEF SwitchesInv, Synced, connected, OneConnection
  <2>5. LinksInv'
    BY <1>1, <2>1 DEF LinksInv
  <2> QED BY <2>2, <2>3, <2>4, <2>5
<1>7. CASE rows.version # 0
  <2>1. t \in Polled /\ ToSet(jobs) \subseteq ToSet(t.jobs)
    BY <1>3, <1>4, Zenon DEF EventsRead, Grows
  <2>2. t.of \in [Phones -> PhoneRow] /\ t.jobs \in Seq(Job)
    BY <2>1 DEF Polled
  <2>3. /\ rows' \in [version : Nat, of : [Phones -> PhoneRow]] /\ rows'.version = rows.version
        /\ rows'.of = t.of /\ jobs' = t.jobs
    BY <1>1, <1>2, <1>7, <2>2
  <2>4. BridgeTypes'
    BY <1>1, <1>5, <2>2, <2>3 DEF BridgeTypes
  <2>5. OneConnection'
    BY <1>1, <2>3 DEF OneConnection, connected
  <2>6. LinksInv'
    BY <1>1, <2>1, <2>3 DEF LinksInv
  <2>7. \A q : Served(s, q) <=> Served1(q)
    BY <1>3, Zenon DEF Served, Served1
  <2>8. \A q : (Served1(q))' <=> Served(t, q)
    BY <2>3 DEF Served, Served1, Asks
  <2>9. \A q \in Phones : ~Fresh(q) => /\ rows'.of[q].busy = rows.of[q].busy
                                       /\ Served1(q) => (Served1(q))'
    <3> TAKE q \in Phones
    <3>1. ~Fresh(q) => LeavesAlone(s, t, q)
      BY <1>2, <1>4, HeardAt, Zenon DEF EventsRead
    <3> QED BY <1>3, <2>3, <2>7, <2>8, <3>1, Zenon DEF LeavesAlone
  <2>10. \A q \in Phones : Fresh(q) => ~rows'.of[q].busy
    BY <1>2, <1>4, <2>3, HeardAt, Zenon DEF EventsRead
  <2>11. ASSUME NEW q \in Phones, Synced, q \in engine.on, Fresh(q) PROVE (Served1(q))'
    <3>1. PICK m \in 1..Len(events) : events[m].phone = q
      BY <1>2, <2>11, HeardAt, Zenon
    <3>2. ASSUME NEW k \in 1..Len(events), events[k].phone = q PROVE events[k].on
      <4>1. events[k] \in ToSet(events)
        <5>1. DOMAIN events = 1..Len(events)
          BY <1>2
        <5> QED BY <5>1, Zenon DEF ToSet
      <4> QED BY <2>11, <3>2, <4>1, Zenon DEF SwitchesInv
    <3>3. Served(t, q)
      BY <1>4, <3>1, <3>2, Zenon DEF EventsRead
    <3> QED BY <2>8, <3>3, Zenon
  <2>12. SwitchesInv'
    <3> SUFFICES ASSUME Synced' PROVE SwitchesInv'
      BY DEF SwitchesInv
    <3>1. Synced
      BY <1>1, <2>3 DEF Synced, connected
    <3>2. (NoTwice(inbox) /\ \A a, b \in ToSet(inbox) : a.phone = b.phone => a = b)'
      BY <1>1, <3>1, Zenon DEF SwitchesInv
    <3>3. (\A a \in ToSet(inbox) : a.on => a.phone \notin engine.on)'
      BY <1>1, <3>1, Zenon DEF SwitchesInv
    <3>4. (\A a \in ToSet(inbox) : rows.of[a.phone].busy /\ ~Fresh(a.phone))'
      <4>1. \A a \in ToSet(inbox) : a.phone \in Phones
        <5>1. inbox \in Seq(Switch)
          BY DEF BridgeTypes
        <5>2. \A a \in ToSet(inbox) : a \in Switch
          BY <5>1 DEF ToSet
        <5> QED BY <5>2 DEF Switch
      <4>2. \A a \in ToSet(inbox) : rows.of[a.phone].busy /\ ~Fresh(a.phone)
        BY <3>1, Zenon DEF SwitchesInv
      <4>3. \A q : (~Fresh(q))'
        BY <1>5 DEF Fresh
      <4> QED BY <1>1, <2>9, <4>1, <4>2, <4>3
    <3>5. (\A q \in engine.on : Served1(q) \/ Fresh(q) \/ rows.of[q].busy)'
      <4> TAKE q \in engine'.on
      <4>1. q \in engine.on /\ q \in Phones
        BY <1>1, <1>2
      <4>2. Served1(q) \/ Fresh(q) \/ rows.of[q].busy
        BY <3>1, <4>1, Zenon DEF SwitchesInv
      <4> QED BY <2>9, <2>11, <3>1, <4>1, <4>2
    <3>6. (\A q \in Phones : rows.of[q].busy => Fresh(q) \/ Wanted(q))'
      <4>1. \A q : (Wanted(q))' <=> Wanted(q)
        BY <1>1, Zenon DEF Wanted
      <4> TAKE q \in Phones
      <4>2. rows.of[q].busy => Fresh(q) \/ Wanted(q)
        BY <3>1, Zenon DEF SwitchesInv
      <4> QED BY <2>9, <2>10, <4>1, <4>2
    <3> QED BY <1>5, <3>2, <3>3, <3>4, <3>5, <3>6, Zenon DEF SwitchesInv
  <2> QED BY <2>4, <2>5, <2>6, <2>12
<1> QED BY <1>6, <1>7

LEMMA JobsPolled == ASSUME BridgesAssumption, BridgesInv, PollJobs PROVE BridgesInv'
<1> DEFINE s == [of |-> rows.of, jobs |-> <<>>]
           t == AfterJobs(s)
<1> USE DEF BridgesInv
<1>1. /\ engine' = engine /\ inbox' = inbox /\ events' = events /\ server' = server
      /\ installed' = installed /\ polling = "jobs" /\ polling' = "away" /\ last_phase' = last_phase
      /\ missed' = missed /\ rows' = [rows EXCEPT !.of = t.of] /\ jobs' = t.jobs
  BY DEF PollJobs, Polls
<1>2. /\ jobs \in Seq(Job) /\ rows \in [version : Nat, of : [Phones -> PhoneRow]] /\ rows.version \in Nat
      /\ engine.on \subseteq Phones
  BY DEF BridgeTypes
<1>3. s \in Polled /\ s.of = rows.of /\ s.jobs = <<>>
  BY <1>2, EmptyQueue DEF Polled
<1> HIDE DEF s
<1>4. JobsLookedAt(s, t, Len(jobs))
  BY <1>2, <1>3, AfterJobsLookedAt, Zenon
<1> HIDE DEF t
<1>5. t \in Polled
  BY <1>4, Zenon DEF JobsLookedAt
<1>6. t.of \in [Phones -> PhoneRow] /\ t.jobs \in Seq(Job)
  BY <1>5 DEF Polled
<1>7. /\ rows' \in [version : Nat, of : [Phones -> PhoneRow]] /\ rows'.version = rows.version
      /\ rows'.of = t.of
  BY <1>1, <1>2, <1>6
<1>8. BridgeTypes'
  BY <1>1, <1>6, <1>7 DEF BridgeTypes
<1>9. OneConnection'
  BY <1>1, <1>7 DEF OneConnection, connected
<1>10. \A job \in ToSet(jobs) : \E m \in 1..Len(jobs) : jobs[m] = job
  <2>1. DOMAIN jobs = 1..Len(jobs)
    BY <1>2
  <2> QED BY <2>1, Zenon DEF ToSet
<1>11. ASSUME NEW job \in ToSet(jobs)
       PROVE  /\ job.state # "done" => job \in ToSet(jobs')
              /\ job.kind = "connect" /\ job.version = rows.version /\ rows.version # 0
                   => Served(t, job.phone)
  BY <1>1, <1>4, <1>10, Zenon DEF JobsLookedAt
<1>12. LinksInv'
  BY <1>1, <1>11 DEF LinksInv
<1>13. \A q : (Served1(q))' <=> Served(t, q)
  BY <1>1, <1>7 DEF Served, Served1, Asks
<1>14. ASSUME NEW q \in Phones
       PROVE  /\ rows'.of[q].busy = rows.of[q].busy
              /\ rows.version # 0 /\ Served1(q) => (Served1(q))'
  <2>1. LeavesAlone(s, t, q)
    BY <1>4, Zenon DEF JobsLookedAt
  <2>2. rows.of[q].linked \/ rows.of[q].missing => Served(t, q)
    BY <1>3, <2>1, Zenon DEF LeavesAlone, Served
  <2>3. rows.version # 0 /\ (\E job \in ToSet(jobs) : Asks(job, q)) => Served(t, q)
    BY <1>11 DEF Asks
  <2>4. rows'.of[q].busy = rows.of[q].busy
    BY <1>3, <1>7, <2>1, Zenon DEF LeavesAlone
  <2> QED BY <1>13, <2>2, <2>3, <2>4, Zenon DEF Served1
<1>15. SwitchesInv'
  <2> SUFFICES ASSUME Synced' PROVE SwitchesInv'
    BY DEF SwitchesInv
  <2>1. Synced /\ rows.version # 0
    BY <1>1, <1>7 DEF Synced, connected, OneConnection
  <2>2. \A q : ((Fresh(q))' <=> Fresh(q)) /\ ((Wanted(q))' <=> Wanted(q))
    BY <1>1, Zenon DEF Fresh, Wanted
  <2>3. \A a \in ToSet(inbox) : a.phone \in Phones
    <3>1. inbox \in Seq(Switch)
      BY DEF BridgeTypes
    <3>2. \A a \in ToSet(inbox) : a \in Switch
      BY <3>1 DEF ToSet
    <3> QED BY <3>2 DEF Switch
  <2>4. \A e \in ToSet(events) : e.phone \in Phones
    <3>1. events \in Seq(BridgeEvent)
      BY DEF BridgeTypes
    <3>2. \A e \in ToSet(events) : e \in BridgeEvent
      BY <3>1 DEF ToSet
    <3> QED BY <3>2 DEF BridgeEvent
  <2>5. (NoTwice(inbox) /\ \A a, b \in ToSet(inbox) : a.phone = b.phone => a = b)'
    BY <1>1, <2>1, Zenon DEF SwitchesInv
  <2>6. (\A a \in ToSet(inbox) : a.on => a.phone \notin engine.on)'
    BY <1>1, <2>1, Zenon DEF SwitchesInv
  <2>7. (\A a \in ToSet(inbox) : rows.of[a.phone].busy /\ ~Fresh(a.phone))'
    <3>1. \A a \in ToSet(inbox) : rows.of[a.phone].busy /\ ~Fresh(a.phone)
      BY <2>1, Zenon DEF SwitchesInv
    <3> QED BY <1>1, <1>14, <2>2, <2>3, <3>1
  <2>8. (\A e \in ToSet(events) : ~e.on => e.phone \notin engine.on)'
    BY <1>1, <2>1, Zenon DEF SwitchesInv
  <2>9. (\A e \in ToSet(events) : rows.of[e.phone].busy)'
    <3>1. \A e \in ToSet(events) : rows.of[e.phone].busy
      BY <1>1, <2>1 DEF SwitchesInv
    <3> QED BY <1>1, <1>14, <2>4, <3>1
  <2>10. (\A q \in engine.on : Served1(q) \/ Fresh(q) \/ rows.of[q].busy)'
    <3> TAKE q \in engine'.on
    <3>1. q \in engine.on /\ q \in Phones
      BY <1>1, <1>2
    <3>2. Served1(q) \/ Fresh(q) \/ rows.of[q].busy
      BY <2>1, <3>1, Zenon DEF SwitchesInv
    <3> QED BY <1>14, <2>1, <2>2, <3>1, <3>2
  <2>11. (\A q \in Phones : rows.of[q].busy => Fresh(q) \/ Wanted(q))'
    <3> TAKE q \in Phones
    <3>1. rows.of[q].busy => Fresh(q) \/ Wanted(q)
      BY <2>1, Zenon DEF SwitchesInv
    <3> QED BY <1>14, <2>2, <3>1
  <2> QED BY <2>5, <2>6, <2>7, <2>8, <2>9, <2>10, <2>11, Zenon DEF SwitchesInv
<1> QED BY <1>8, <1>9, <1>12, <1>15

\* The worker answers the first request: its bridge listens, or does not.
LEMMA SwitchAnswered ==
  ASSUME BridgesInv, inbox # <<>>, NEW e \in BridgeEvent, e.phone = Head(inbox).phone,
         inbox' = Tail(inbox), events' = Append(events, e), rows' = rows, jobs' = jobs,
         polling' = polling, engine.phase' = engine.phase, engine.version' = engine.version,
         Synced => engine.on' = IF e.on THEN engine.on \union {e.phone} ELSE engine.on \ {e.phone}
  PROVE  /\ inbox' \in Seq(Switch) /\ events' \in Seq(BridgeEvent)
         /\ SwitchesInv'
<1> DEFINE p == e.phone
           h == Head(inbox)
<1> USE DEF BridgesInv
<1>1. inbox \in Seq(Switch) /\ events \in Seq(BridgeEvent)
  BY DEF BridgeTypes
<1>2. events' \in Seq(BridgeEvent) /\ ToSet(events') = ToSet(events) \union {e}
  BY <1>1, Appended
<1>3. inbox' \in Seq(Switch)
  BY <1>1
<1>4. SwitchesInv'
  <2> SUFFICES ASSUME Synced' PROVE SwitchesInv'
    BY DEF SwitchesInv
  <2>1. Synced
    BY DEF Synced, connected
  <2>2. NoTwice(inbox) /\ \A a, b \in ToSet(inbox) : a.phone = b.phone => a = b
    BY <2>1, Zenon DEF SwitchesInv
  <2>3. /\ NoTwice(inbox') /\ ToSet(inbox') = ToSet(inbox) \ {h} /\ h \in ToSet(inbox)
    BY <1>1, <2>2, TailTaken
  <2>4. engine'.on = IF e.on THEN engine.on \union {p} ELSE engine.on \ {p}
    BY <2>1
  <2>5. h.phone = p
    OBVIOUS
  <2> HIDE DEF h, p
  <2>6. \A a \in ToSet(inbox') : a \in ToSet(inbox) /\ a.phone # p
    BY <2>2, <2>3, <2>5
  <2>7. ~Fresh(p) /\ rows.of[p].busy
    BY <2>1, <2>3, <2>5, Zenon DEF SwitchesInv
  <2>8. \A d \in ToSet(events) : d.phone # p
    BY <2>7, Zenon DEF Fresh
  <2>9. \A q : (Fresh(q))' <=> Fresh(q) \/ q = p
    BY <1>2 DEF Fresh, p
  <2>10. \A q : Wanted(q) => (Wanted(q))' \/ q = p
    BY <2>3, <2>5 DEF Wanted
  <2>11. \A q : Served1(q) => (Served1(q))'
    BY Zenon DEF Served1, Asks
  <2>12. (NoTwice(inbox) /\ \A a, b \in ToSet(inbox) : a.phone = b.phone => a = b)'
    BY <2>2, <2>3, <2>6
  <2>13. (\A a \in ToSet(inbox) : a.on => a.phone \notin engine.on)'
    <3>1. \A a \in ToSet(inbox) : a.on => a.phone \notin engine.on
      BY <2>1, Zenon DEF SwitchesInv
    <3> QED BY <2>4, <2>6, <3>1
  <2>14. (\A a \in ToSet(inbox) : rows.of[a.phone].busy /\ ~Fresh(a.phone))'
    <3>1. \A a \in ToSet(inbox) : rows.of[a.phone].busy /\ ~Fresh(a.phone)
      BY <2>1, Zenon DEF SwitchesInv
    <3> QED BY <2>6, <2>9, <3>1, Zenon
  <2>15. (\A d \in ToSet(events) : ~d.on => d.phone \notin engine.on)'
    <3>1. \A d \in ToSet(events) : ~d.on => d.phone \notin engine.on
      BY <2>1, Zenon DEF SwitchesInv
    <3>2. ~e.on => p \notin engine'.on
      BY <2>4
    <3> QED BY <1>2, <2>4, <2>8, <3>1, <3>2 DEF p
  <2>16. (polling # "events" => \A d \in ToSet(events) : rows.of[d.phone].busy)'
    <3>1. polling # "events" => \A d \in ToSet(events) : rows.of[d.phone].busy
      BY <2>1, Zenon DEF SwitchesInv
    <3> QED BY <1>2, <2>7, <3>1, Zenon DEF p
  <2>17. (\A q \in engine.on : Served1(q) \/ Fresh(q) \/ rows.of[q].busy)'
    <3>1. \A q \in engine.on : Served1(q) \/ Fresh(q) \/ rows.of[q].busy
      BY <2>1, Zenon DEF SwitchesInv
    <3>2. \A q \in engine'.on : q = p \/ q \in engine.on
      BY <2>4
    <3> QED BY <2>9, <2>11, <3>1, <3>2, Zenon
  <2>18. (\A q \in Phones : rows.of[q].busy => Fresh(q) \/ Wanted(q))'
    <3>1. \A q \in Phones : rows.of[q].busy => Fresh(q) \/ Wanted(q)
      BY <2>1, Zenon DEF SwitchesInv
    <3> QED BY <2>9, <2>10, <3>1, Zenon
  <2> QED BY <2>12, <2>13, <2>14, <2>15, <2>16, <2>17, <2>18, Zenon DEF SwitchesInv
<1> QED BY <1>2, <1>3, <1>4

\* The engine's worker.
LEMMA ServerKept ==
  ASSUME BridgeTypes, server' = server \/ server' = Killed
  PROVE  /\ server' \in [up : BOOLEAN, links : SUBSET Phones]
         /\ server.links = {} => server'.links = {}
<1>1. Killed \in [up : BOOLEAN, links : SUBSET Phones] /\ Killed.links = {}
  BY DEF Killed
<1> QED BY <1>1 DEF BridgeTypes

LEMMA BridgeStopped == ASSUME BridgesInv, StopBridge PROVE BridgesInv'
<1> DEFINE p == Head(inbox).phone
           e == [phone |-> p, on |-> FALSE, ok |-> TRUE, stopped |-> FALSE]
<1> USE DEF BridgesInv
<1>1. /\ inbox # <<>> /\ inbox' = Tail(inbox) /\ engine' = [engine EXCEPT !.on = @ \ {p}]
      /\ events' = Append(events, e) /\ server' = server /\ installed' = installed
      /\ rows' = rows /\ jobs' = jobs /\ polling' = polling /\ last_phase' = last_phase
      /\ missed' = missed
  BY DEF StopBridge, Engine, appState
<1>2. p \in Phones
  <2>1. inbox \in Seq(Switch)
    BY DEF BridgeTypes
  <2>2. Head(inbox) \in Switch
    BY <1>1, <2>1
  <2> QED BY <2>2 DEF Switch
<1>3. /\ engine' \in [phase : BridgePhases, version : Nat, on : SUBSET Phones]
      /\ engine'.phase = engine.phase /\ engine'.version = engine.version /\ engine'.on = engine.on \ {p}
  <2>1. engine \in [phase : BridgePhases, version : Nat, on : SUBSET Phones]
    BY DEF BridgeTypes
  <2> HIDE DEF p
  <2> QED BY <1>1, <2>1
<1>4. e \in BridgeEvent /\ e.phone = p /\ ~e.on
  BY <1>2 DEF BridgeEvent
<1> HIDE DEF e, p
<1>5. inbox' \in Seq(Switch) /\ events' \in Seq(BridgeEvent) /\ SwitchesInv'
  <2>1. e.phone = Head(inbox).phone
    BY <1>4 DEF p
  <2>2. engine'.on = IF e.on THEN engine.on \union {e.phone} ELSE engine.on \ {e.phone}
    BY <1>3, <1>4
  <2> QED BY <1>1, <1>3, <1>4, <2>1, <2>2, SwitchAnswered
<1>6. BridgeTypes'
  BY <1>1, <1>3, <1>5 DEF BridgeTypes
<1>7. OneConnection'
  BY <1>1, <1>3 DEF OneConnection, connected
<1>8. LinksInv'
  BY <1>1, <1>3 DEF LinksInv
<1> QED BY <1>5, <1>6, <1>7, <1>8

LEMMA BridgeStarted ==
  ASSUME BridgesInv, NEW works \in BOOLEAN, NEW stopped \in BOOLEAN, StartBridge(works, stopped)
  PROVE  BridgesInv'
<1> DEFINE p == Head(inbox).phone
           e == [phone |-> p, on |-> works, ok |-> works, stopped |-> stopped]
<1> USE DEF BridgesInv
<1>1. /\ inbox # <<>> /\ Head(inbox).on /\ inbox' = Tail(inbox)
      /\ works => engine.phase \in {"connected", "disconnecting"}
      /\ engine' = IF works THEN [engine EXCEPT !.on = @ \union {p}] ELSE engine
      /\ server' = IF stopped THEN Killed ELSE server
      /\ events' = Append(events, e) /\ installed' = installed
      /\ rows' = rows /\ jobs' = jobs /\ polling' = polling /\ last_phase' = last_phase
      /\ missed' = missed
  BY DEF StartBridge, Engine, appState
<1>2. Head(inbox) \in Switch /\ p \in Phones
  <2>1. inbox \in Seq(Switch)
    BY DEF BridgeTypes
  <2>2. Head(inbox) \in Switch
    BY <1>1, <2>1
  <2> QED BY <2>2 DEF Switch
<1>3. /\ engine' \in [phase : BridgePhases, version : Nat, on : SUBSET Phones]
      /\ engine'.phase = engine.phase /\ engine'.version = engine.version
      /\ engine'.on = IF works THEN engine.on \union {p} ELSE engine.on
  <2>1. engine \in [phase : BridgePhases, version : Nat, on : SUBSET Phones]
    BY DEF BridgeTypes
  <2> HIDE DEF p
  <2>2. CASE works
    BY <1>1, <1>2, <2>1, <2>2
  <2>3. CASE ~works
    BY <1>1, <2>1, <2>3
  <2> QED BY <2>2, <2>3
<1>4. e \in BridgeEvent /\ e.phone = p /\ e.on = works
  BY <1>2 DEF BridgeEvent
<1> HIDE DEF e, p
<1>5. inbox' \in Seq(Switch) /\ events' \in Seq(BridgeEvent) /\ SwitchesInv'
  <2>1. e.phone = Head(inbox).phone
    BY <1>4 DEF p
  <2>2. Synced => p \notin engine.on
    <3> SUFFICES ASSUME Synced PROVE p \notin engine.on
      OBVIOUS
    <3>1. Head(inbox) \in ToSet(inbox)
      <4>1. inbox \in Seq(Switch)
        BY DEF BridgeTypes
      <4>2. NoTwice(inbox)
        BY Zenon DEF SwitchesInv
      <4> QED BY <1>1, <4>1, <4>2, TailTaken
    <3> QED BY <1>1, <3>1, Zenon DEF SwitchesInv, p
  <2>3. Synced => engine'.on = IF e.on THEN engine.on \union {e.phone} ELSE engine.on \ {e.phone}
    BY <1>3, <1>4, <2>2
  <2> QED BY <1>1, <1>3, <1>4, <2>1, <2>3, SwitchAnswered
<1>6. /\ server' \in [up : BOOLEAN, links : SUBSET Phones]
      /\ server.links = {} => server'.links = {}
  BY <1>1, ServerKept
<1>7. BridgeTypes'
  BY <1>1, <1>3, <1>5, <1>6 DEF BridgeTypes
<1>8. OneConnection'
  BY <1>1, <1>3 DEF OneConnection, connected
<1>9. LinksInv'
  BY <1>1, <1>3, <1>6 DEF LinksInv
<1> QED BY <1>5, <1>7, <1>8, <1>9

LEMMA WorkerKept == ASSUME BridgesInv, Connected \/ Disconnected \/ PlayEnds PROVE BridgesInv'
<1> USE DEF BridgesInv
<1>1. /\ UNCHANGED <<inbox, events, rows, jobs, polling, last_phase, server, installed>>
  BY DEF Connected, Disconnected, PlayEnds, Engine, appState
<1>2. engine \in [phase : BridgePhases, version : Nat, on : SUBSET Phones] /\ rows.version \in Nat
  BY DEF BridgeTypes
<1>3. CASE Connected
  <2>1. /\ engine.phase = "connecting" /\ inbox = <<>> /\ missed' = missed
        /\ \/ engine' = [engine EXCEPT !.phase = "connected", !.version = @ + 1]
           \/ engine' = [engine EXCEPT !.phase = "idle"]
    BY <1>3 DEF Connected, Engine, appState
  <2>2. CASE engine' = [engine EXCEPT !.phase = "connected", !.version = @ + 1]
    <3>1. /\ engine' \in [phase : BridgePhases, version : Nat, on : SUBSET Phones]
          /\ engine'.phase = "connected" /\ engine'.version = engine.version + 1 /\ engine'.on = engine.on
      <4> DEFINE new == [engine EXCEPT !.phase = "connected"]
      <4>1. /\ new \in [phase : BridgePhases, version : Nat, on : SUBSET Phones]
            /\ new.phase = "connected" /\ new.version = engine.version /\ new.on = engine.on
        BY <1>2 DEF BridgePhases
      <4>2. engine' = [new EXCEPT !.version = engine.version + 1]
        BY <1>2, <2>2
      <4> HIDE DEF new
      <4> QED BY <1>2, <4>1, <4>2
    <3>2. BridgeTypes'
      BY <1>1, <3>1 DEF BridgeTypes
    <3>3. OneConnection'
      BY <1>1, <1>2, <2>1, <3>1 DEF OneConnection, connected
    <3>4. SwitchesInv'
      BY <1>1, <1>2, <3>1 DEF SwitchesInv, Synced, OneConnection
    <3>5. LinksInv'
      BY <1>1, <3>1 DEF LinksInv
    <3> QED BY <3>2, <3>3, <3>4, <3>5
  <2>3. CASE engine' = [engine EXCEPT !.phase = "idle"]
    <3>1. /\ engine' \in [phase : BridgePhases, version : Nat, on : SUBSET Phones]
          /\ engine'.phase = "idle" /\ engine'.version = engine.version /\ engine'.on = engine.on
      BY <2>3, PhaseChanged DEF BridgePhases
    <3>2. BridgeTypes'
      BY <1>1, <3>1 DEF BridgeTypes
    <3>3. OneConnection'
      BY <1>1, <1>2, <2>1, <3>1 DEF OneConnection, connected
    <3>4. SwitchesInv'
      BY <3>1 DEF SwitchesInv, Synced, connected
    <3>5. LinksInv'
      BY <1>1, <2>1, <3>1 DEF LinksInv
    <3> QED BY <3>2, <3>3, <3>4, <3>5
  <2> QED BY <2>1, <2>2, <2>3
<1>4. CASE Disconnected
  <2>1. /\ engine.phase = "disconnecting" /\ engine' = [engine EXCEPT !.phase = "idle", !.on = {}]
        /\ missed' = (missed \/ last_phase \notin {"connected", "playing", "disconnecting"})
    BY <1>4 DEF Disconnected
  <2>2. /\ engine' \in [phase : BridgePhases, version : Nat, on : SUBSET Phones]
        /\ engine'.phase = "idle" /\ engine'.version = engine.version /\ engine'.on = {}
    BY <1>2, <2>1 DEF BridgePhases
  <2>3. BridgeTypes'
    BY <1>1, <2>2 DEF BridgeTypes
  <2>4. OneConnection'
    BY <1>1, <2>2 DEF OneConnection, connected
  <2>5. SwitchesInv'
    BY <2>2 DEF SwitchesInv, Synced, connected
  <2>6. LinksInv'
    <3>1. (~missed)' => last_phase \notin {"idle", "connecting"}
      BY <2>1
    <3> QED BY <1>1, <2>2, <3>1 DEF LinksInv
  <2> QED BY <2>3, <2>4, <2>5, <2>6
<1>5. CASE PlayEnds
  <2>1. /\ engine.phase = "playing" /\ engine' = [engine EXCEPT !.phase = "connected"] /\ missed' = missed
    BY <1>5 DEF PlayEnds, Engine, appState
  <2>2. /\ engine' \in [phase : BridgePhases, version : Nat, on : SUBSET Phones]
        /\ engine'.phase = "connected" /\ engine'.version = engine.version /\ engine'.on = engine.on
    BY <2>1, PhaseChanged DEF BridgePhases
  <2>3. BridgeTypes'
    BY <1>1, <2>2 DEF BridgeTypes
  <2>4. OneConnection'
    BY <1>1, <2>1, <2>2 DEF OneConnection, connected
  <2>5. SwitchesInv'
    <3>1. Synced' => Synced
      BY <1>1, <2>1, <2>2 DEF Synced, connected
    <3> QED BY <1>1, <2>2, <3>1, SwitchesStay
  <2>6. LinksInv'
    BY <1>1, <2>2 DEF LinksInv
  <2> QED BY <2>3, <2>4, <2>5, <2>6
<1> QED BY <1>3, <1>4, <1>5

LEMMA PrepKept == ASSUME BridgesInv, PollPrep \/ RunPrep PROVE BridgesInv'
<1> USE DEF BridgesInv
<1>1. /\ UNCHANGED <<engine, inbox, events, rows, jobs, last_phase, installed, missed>>
      /\ polling' # "events" => polling # "events"
      /\ server' = server \/ server' = Killed
  BY DEF PollPrep, RunPrep, Polls, Adb
<1>2. /\ server' \in [up : BOOLEAN, links : SUBSET Phones]
      /\ server.links = {} => server'.links = {}
  BY <1>1, ServerKept
<1>3. BridgeTypes'
  BY <1>1, <1>2 DEF BridgeTypes
<1>4. OneConnection'
  BY <1>1 DEF OneConnection, connected
<1>5. SwitchesInv'
  BY <1>1, SwitchesGrow
<1>6. LinksInv'
  BY <1>1, <1>2 DEF LinksInv
<1> QED BY <1>3, <1>4, <1>5, <1>6

LEMMA JobRun == ASSUME BridgesInv, NEW n \in DOMAIN jobs, RunJob(n) PROVE BridgesInv'
<1> DEFINE job == jobs[n]
           p == job.phone
           ok == job.kind # "connect" \/ p \in engine.on
           done == IF installed THEN [[job EXCEPT !.state = "done"] EXCEPT !.ok = ok]
                                ELSE [job EXCEPT !.state = "done"]
<1> USE DEF BridgesInv
<1>1. /\ UNCHANGED <<engine, inbox, events, rows, last_phase, polling, installed, missed>>
      /\ job.state = "new"
      /\ IF ~installed
         THEN jobs' = [jobs EXCEPT ![n].state = "done"] /\ server' = server
         ELSE /\ jobs' = [jobs EXCEPT ![n].state = "done", ![n].ok = ok]
              /\ server' =
                   CASE job.kind = "restart"    -> Killed
                     [] job.kind = "disconnect" -> [server EXCEPT !.links = @ \ {p}]
                     [] job.kind = "connect"    ->
                          [up |-> TRUE, links |-> server.links \union ({p} \intersect engine.on)]
  BY DEF RunJob, Adb
<1>2. /\ jobs \in Seq(Job) /\ job \in Job /\ n \in 1..Len(jobs) /\ DOMAIN jobs = 1..Len(jobs)
      /\ jobs \in [1..Len(jobs) -> Job] /\ Len(jobs) \in Nat
  BY DEF BridgeTypes
<1>3. /\ DOMAIN job = {"kind", "phone", "version", "state", "ok"}
      /\ job.kind \in {"connect", "disconnect", "restart"} /\ ok \in BOOLEAN
  BY <1>2 DEF Job
<1> HIDE DEF ok, p, job
<1>4. done \in Job /\ done.kind = job.kind /\ done.phone = job.phone /\ done.version = job.version
  <2> DEFINE u == [job EXCEPT !.state = "done"]
  <2>1. u \in Job /\ u.kind = job.kind /\ u.phone = job.phone /\ u.version = job.version
    BY <1>2, <1>3 DEF Job
  <2> HIDE DEF u
  <2>2. LET v == [u EXCEPT !.ok = ok]
        IN v \in Job /\ v.kind = job.kind /\ v.phone = job.phone /\ v.version = job.version
    BY <1>3, <2>1 DEF Job
  <2> QED BY <2>1, <2>2 DEF u
<1>5. jobs' = [jobs EXCEPT ![n] = done]
  <2>1. CASE installed
    BY <1>1, <1>2, <2>1 DEF job
  <2>2. CASE ~installed
    BY <1>1, <1>2, <2>2 DEF job
  <2> QED BY <2>1, <2>2
<1> HIDE DEF done
<1>6. jobs' \in Seq(Job)
  <2>1. jobs' \in [1..Len(jobs) -> Job]
    BY <1>2, <1>4, <1>5
  <2> QED BY <1>2, <2>1
<1>7. DOMAIN jobs' = DOMAIN jobs /\ jobs'[n] = done /\ \A m \in DOMAIN jobs \ {n} : jobs'[m] = jobs[m]
  BY <1>2, <1>5
<1>8. \A other \in ToSet(jobs) : other = job \/ other \in ToSet(jobs')
  BY <1>7, Zenon DEF ToSet, job
<1>9. done \in ToSet(jobs')
  BY <1>7, Zenon DEF ToSet
<1>10. /\ server' \in [up : BOOLEAN, links : SUBSET Phones]
       /\ engine.on = {} /\ server.links = {} => server'.links = {}
       /\ ~installed => server' = server
       /\ installed /\ job.kind = "restart" => server'.links = {}
  <2>1. server \in [up : BOOLEAN, links : SUBSET Phones] /\ engine.on \subseteq Phones
    BY DEF BridgeTypes
  <2>2. CASE ~installed
    BY <1>1, <2>1, <2>2
  <2>3. CASE installed /\ job.kind = "restart"
    <3>1. server' = Killed
      BY <1>1, <2>3
    <3>2. Killed \in [up : BOOLEAN, links : SUBSET Phones] /\ Killed.links = {}
      BY DEF Killed
    <3> QED BY <2>3, <3>1, <3>2
  <2>4. CASE installed /\ job.kind = "disconnect"
    BY <1>1, <2>1, <2>4
  <2>5. CASE installed /\ job.kind = "connect"
    <3> DEFINE links == server.links \union ({p} \intersect engine.on)
    <3>1. server' = [up |-> TRUE, links |-> links]
      BY <1>1, <2>5
    <3>2. links \in SUBSET Phones /\ (engine.on = {} /\ server.links = {} => links = {})
      BY <2>1
    <3> HIDE DEF links
    <3>3. server' \in [up : BOOLEAN, links : SUBSET Phones] /\ server'.links = links
      BY <3>1, <3>2
    <3> QED BY <2>5, <3>2, <3>3
  <2> QED BY <1>3, <2>2, <2>3, <2>4, <2>5
<1>11. BridgeTypes'
  BY <1>1, <1>6, <1>10 DEF BridgeTypes
<1>12. OneConnection'
  BY <1>1 DEF OneConnection, connected
<1>13. \A q : Served1(q) => (Served1(q))'
  <2>1. \A q : Asks(job, q) => Asks(done, q)
    BY <1>4, Zenon DEF Asks
  <2>2. \A other, q : Asks(other, q) => (Asks(other, q))'
    BY <1>1 DEF Asks
  <2> TAKE q
  <2>3. (\E other \in ToSet(jobs) : Asks(other, q)) => \E other \in ToSet(jobs') : Asks(other, q)
    BY <1>8, <1>9, <2>1, Zenon
  <2>4. (\E other \in ToSet(jobs') : Asks(other, q)) => (\E other \in ToSet(jobs) : Asks(other, q))'
    BY <2>2, Zenon
  <2> QED BY <1>1, <2>3, <2>4, Zenon DEF Served1
<1>14. SwitchesInv'
  <2>1. Synced' <=> Synced
    BY <1>1 DEF Synced, connected
  <2>2. \A q : ((Fresh(q))' <=> Fresh(q)) /\ ((Wanted(q))' <=> Wanted(q))
    BY <1>1 DEF Fresh, Wanted
  <2> QED BY <1>1, <1>13, <2>1, <2>2 DEF SwitchesInv
<1>15. LinksInv'
  <2>1. (~installed => server.links = {})'
    BY <1>1, <1>10 DEF LinksInv
  <2>2. (engine.phase = "connecting" /\ ~missed => last_phase \in {"idle", "connecting"})'
    BY <1>1 DEF LinksInv
  <2>3. (~missed /\ engine.phase \in {"idle", "connecting"} /\ last_phase \in {"idle", "connecting"}
           => server.links = {} \/ \E other \in ToSet(jobs) : other.kind = "restart" /\ other.state = "new")'
    <3> SUFFICES ASSUME ~missed, engine.phase \in {"idle", "connecting"}, last_phase \in {"idle", "connecting"}
                 PROVE  server'.links = {} \/ \E other \in ToSet(jobs') : other.kind = "restart" /\ other.state = "new"
      BY <1>1
    <3>1. engine.on = {}
      BY DEF OneConnection
    <3>2. CASE server.links = {}
      BY <1>10, <3>1, <3>2
    <3>3. CASE server.links # {}
      <4>1. installed
        BY <3>3 DEF LinksInv
      <4>2. PICK other \in ToSet(jobs) : other.kind = "restart" /\ other.state = "new"
        BY <3>3 DEF LinksInv
      <4> QED BY <1>8, <1>10, <4>1, <4>2
    <3> QED BY <3>2, <3>3
  <2> QED BY <2>1, <2>2, <2>3 DEF LinksInv
<1> QED BY <1>11, <1>12, <1>14, <1>15

LEMMA BridgesStep == BridgesAssumption /\ BridgesInv /\ [BridgesNext]_bridgeVars => BridgesInv'
<1> SUFFICES ASSUME BridgesAssumption, BridgesInv, [BridgesNext]_bridgeVars PROVE BridgesInv'
  OBVIOUS
<1>1. CASE UNCHANGED bridgeVars
  <2>1. UNCHANGED <<engine, inbox, events, rows, jobs, polling, last_phase, server, installed, missed>>
    BY <1>1 DEF bridgeVars, appState
  <2> QED BY <2>1 DEF BridgesInv, BridgeTypes, OneConnection, SwitchesInv, LinksInv, Synced, connected,
                      Served1, Fresh, Wanted, Asks
<1>2. CASE \E p \in Phones, on \in BOOLEAN : RequestBridge(p, on)
  BY <1>2, SwitchRequested, Zenon
<1>3. CASE StartConnect \/ StartDisconnect \/ StartPlay \/ Retry \/ StartRecord \/ RecordEnds
  BY <1>3, AskedKept, Zenon
<1>4. CASE PollPhase
  BY <1>4, PhasePolled, Zenon
<1>5. CASE PollVersion
  BY <1>5, VersionPolled, Zenon
<1>6. CASE PollEvents
  BY <1>6, EventsPolled, Zenon
<1>7. CASE PollJobs
  BY <1>7, JobsPolled, Zenon
<1>8. CASE StopBridge
  BY <1>8, BridgeStopped, Zenon
<1>9. CASE \E works, stopped \in BOOLEAN : StartBridge(works, stopped)
  BY <1>9, BridgeStarted, Zenon
<1>10. CASE Connected \/ Disconnected \/ PlayEnds
  BY <1>10, WorkerKept, Zenon
<1>11. CASE \E n \in DOMAIN jobs : RunJob(n)
  BY <1>11, JobRun, Zenon
<1>12. CASE PollPrep \/ RunPrep
  BY <1>12, PrepKept, Zenon
<1> QED BY <1>1, <1>2, <1>3, <1>4, <1>5, <1>6, <1>7, <1>8, <1>9, <1>10, <1>11, <1>12, Zenon DEF BridgesNext

\* BridgesAreFollowed for any phones and any number of switches, connections and
\* commands under way: when a bridge comes up while an `adb connect` of it, a restart
\* of the server or an answer is still on its way, it is not forgotten.
THEOREM SwitchesAreCarriedOut == BridgesSpec => []BridgesAreFollowed
<1>1. BridgesInv => BridgesAreFollowed
  <2> SUFFICES ASSUME BridgesInv, Synced PROVE BridgesAreFollowed
    BY DEF BridgesAreFollowed, Synced
  <2>1. events \in Seq(BridgeEvent) /\ inbox \in Seq(Switch) /\ jobs \in Seq(Job)
    BY DEF BridgesInv, BridgeTypes
  <2>2. \A q : Fresh(q) <=> Told(q)
    BY Zenon DEF Fresh, Told, ToSet
  <2>3. \A q : Wanted(q) <=> \E n \in DOMAIN inbox : inbox[n].phone = q
    BY Zenon DEF Wanted, ToSet
  <2>4. \A q : (\E job \in ToSet(jobs) : Asks(job, q)) => Waits(q, rows.version)
    BY Zenon DEF Waits, Asks, ToSet
  <2> QED BY <2>2, <2>3, <2>4 DEF BridgesInv, SwitchesInv, BridgesAreFollowed, Served1
<1> QED BY <1>1, BridgesStart, BridgesStep, BridgesAssumption, PTL DEF BridgesSpec

\* ClosedIsDropped likewise: once everything rests after Disconnect adb's server lists no
\* bridge, because whatever ends a connection either restarts the server or is seen late.
THEOREM NothingIsLeftLinked == BridgesSpec => []ClosedIsDropped
<1>1. BridgesInv => ClosedIsDropped
  BY EmptyQueue DEF BridgesInv, LinksInv, ClosedIsDropped, Quiet
<1> QED BY <1>1, BridgesStart, BridgesStep, BridgesAssumption, PTL DEF BridgesSpec

-----------------------------------------------------------------------------
(* Where inputs of one kind lead                                           *)

Inputs == [what : {"left", "at", "touch", "key"}, down : BOOLEAN, spot : Nat]

\* The inputs up to the n-th take what is held from one value to another.
LeadsUpTo(s, n, what, from, to) ==
  \/ \E k \in 1..n : /\ s[k].what = what /\ s[k].down = to
                     /\ \A m \in 1..n : m > k => s[m].what # what
  \/ from = to /\ \A m \in 1..n : s[m].what # what

Leads(s, what, from, to) == LeadsUpTo(s, Len(s), what, from, to)

\* None of them is of that kind.
Still(s, what) == \A m \in 1..Len(s) : s[m].what # what

LEMMA LeadsStep ==
  ASSUME NEW s, NEW n \in Nat \ {0}, NEW what, NEW from, NEW to
  PROVE  /\ s[n].what = what => (LeadsUpTo(s, n, what, from, to) <=> s[n].down = to)
         /\ s[n].what # what
              => (LeadsUpTo(s, n, what, from, to) <=> LeadsUpTo(s, n - 1, what, from, to))
<1>1. n \in 1..n /\ \A m \in 1..n : m = n \/ m \in 1..(n - 1)
  OBVIOUS
<1>2. \A m \in 1..(n - 1) : m \in 1..n /\ ~(m > n) /\ n > m
  OBVIOUS
<1>3. CASE s[n].what = what
  <2>1. ASSUME s[n].down = to PROVE LeadsUpTo(s, n, what, from, to)
    <3>1. \A m \in 1..n : ~(m > n)
      OBVIOUS
    <3> QED BY <1>1, <1>3, <2>1, <3>1, Zenon DEF LeadsUpTo
  <2>2. ASSUME LeadsUpTo(s, n, what, from, to) PROVE s[n].down = to
    <3>1. PICK k \in 1..n : s[k].down = to /\ \A m \in 1..n : m > k => s[m].what # what
      BY <1>1, <1>3, <2>2, Zenon DEF LeadsUpTo
    <3>2. k = n
      BY <1>1, <1>2, <1>3, <3>1
    <3> QED BY <3>1, <3>2
  <2> QED BY <1>3, <2>1, <2>2
<1>4. CASE s[n].what # what
  <2>1. ASSUME LeadsUpTo(s, n - 1, what, from, to) PROVE LeadsUpTo(s, n, what, from, to)
    <3>1. CASE \E k \in 1..(n - 1) : /\ s[k].what = what /\ s[k].down = to
                                     /\ \A m \in 1..(n - 1) : m > k => s[m].what # what
      BY <1>1, <1>2, <1>4, <3>1, Zenon DEF LeadsUpTo
    <3>2. CASE from = to /\ \A m \in 1..(n - 1) : s[m].what # what
      BY <1>1, <1>4, <3>2, Zenon DEF LeadsUpTo
    <3> QED BY <2>1, <3>1, <3>2, Zenon DEF LeadsUpTo
  <2>2. ASSUME LeadsUpTo(s, n, what, from, to) PROVE LeadsUpTo(s, n - 1, what, from, to)
    BY <1>1, <1>2, <1>4, <2>2, Zenon DEF LeadsUpTo
  <2> QED BY <1>4, <2>1, <2>2
<1> QED BY <1>3, <1>4

LEMMA LeadsNowhere ==
  ASSUME NEW s, NEW what, NEW from, NEW to
  PROVE  LeadsUpTo(s, 0, what, from, to) <=> from = to
<1>1. \A m \in 1..0 : FALSE
  OBVIOUS
<1> QED BY <1>1, Zenon DEF LeadsUpTo

\* They lead somewhere, and to one value only.
LEMMA LeadsSomewhere ==
  ASSUME NEW s \in Seq(Inputs), NEW what, NEW from \in BOOLEAN
  PROVE  /\ \E to \in BOOLEAN : Leads(s, what, from, to)
         /\ \A x, y : Leads(s, what, from, x) /\ Leads(s, what, from, y) => x = y
<1> DEFINE L == Len(s)
           OK(n) == /\ \E to \in BOOLEAN : LeadsUpTo(s, n, what, from, to)
                    /\ \A x, y : LeadsUpTo(s, n, what, from, x) /\ LeadsUpTo(s, n, what, from, y) => x = y
           T == {n \in 0..L : OK(n)}
<1>1. L \in Nat /\ \A n \in 1..L : s[n].down \in BOOLEAN
  <2>1. \A n \in 1..L : s[n] \in Inputs
    OBVIOUS
  <2> QED BY <2>1 DEF Inputs
<1> HIDE DEF L
<1>2. 0 \in T
  <2>1. 0 \in 0..L
    BY <1>1
  <2> QED BY <2>1, LeadsNowhere, Zenon
<1>3. ASSUME NEW n \in 1..L, n - 1 \in T PROVE n \in T
  <2>1. n \in 0..L /\ n \in Nat \ {0}
    BY <1>1
  <2>2. OK(n - 1)
    BY <1>3, Zenon
  <2>3. OK(n)
    <3>1. \A to :
            /\ s[n].what = what => (LeadsUpTo(s, n, what, from, to) <=> s[n].down = to)
            /\ s[n].what # what
                 => (LeadsUpTo(s, n, what, from, to) <=> LeadsUpTo(s, n - 1, what, from, to))
      BY <2>1, LeadsStep, Zenon
    <3>2. s[n].down \in BOOLEAN
      BY <1>1
    <3>3. CASE s[n].what = what
      <4> DEFINE down == s[n].down
      <4>1. \A to : LeadsUpTo(s, n, what, from, to) <=> down = to
        BY <3>1, <3>3, Zenon
      <4>2. down \in BOOLEAN
        BY <3>2
      <4> HIDE DEF down
      <4>3. LeadsUpTo(s, n, what, from, down)
        BY <4>1, Zenon
      <4>4. \E to \in BOOLEAN : LeadsUpTo(s, n, what, from, to)
        BY <4>2, <4>3
      <4>5. ASSUME NEW x, NEW y, LeadsUpTo(s, n, what, from, x), LeadsUpTo(s, n, what, from, y)
            PROVE  x = y
        <5>1. down = x /\ down = y
          BY <4>1, <4>5, Zenon
        <5> QED BY <5>1
      <4> QED BY <4>4, <4>5
    <3>4. CASE s[n].what # what
      BY <2>2, <3>1, <3>4, Zenon
    <3> QED BY <3>3, <3>4
  <2> HIDE DEF OK
  <2> QED BY <2>1, <2>3, Zenon
<1>4. L \in T
  <2> HIDE DEF T
  <2>1. 0..L \subseteq T
    BY <1>1, <1>2, <1>3, StepByStep, Zenon
  <2>2. L \in 0..L
    BY <1>1
  <2> QED BY <2>1, <2>2, Zenon
<1> QED BY <1>4, Zenon DEF L, Leads

\* One more input at the end.
LEMMA LeadsAppended ==
  ASSUME NEW s \in Seq(Inputs), NEW e \in Inputs, NEW what, NEW from, NEW to
  PROVE  /\ e.what = what => (Leads(Append(s, e), what, from, to) <=> e.down = to)
         /\ e.what # what => (Leads(Append(s, e), what, from, to) <=> Leads(s, what, from, to))
<1> DEFINE L == Len(s)
           t == Append(s, e)
<1>1. L \in Nat /\ Len(t) = L + 1 /\ t[L + 1] = e /\ \A m \in 1..L : t[m] = s[m]
  OBVIOUS
<1> HIDE DEF L, t
<1>2. L + 1 \in Nat \ {0} /\ (L + 1) - 1 = L
  BY <1>1
<1>3. /\ e.what = what => (LeadsUpTo(t, L + 1, what, from, to) <=> e.down = to)
      /\ e.what # what
           => (LeadsUpTo(t, L + 1, what, from, to) <=> LeadsUpTo(t, L, what, from, to))
  BY <1>1, <1>2, LeadsStep
<1>4. LeadsUpTo(t, L, what, from, to) <=> LeadsUpTo(s, L, what, from, to)
  BY <1>1, Zenon DEF LeadsUpTo
<1> QED BY <1>1, <1>3, <1>4, Zenon DEF Leads, L, t

\* The first n inputs, and then the rest.
LEMMA LeadsSplit ==
  ASSUME NEW s, NEW L \in Nat, NEW n \in 0..L, NEW rest, NEW what, NEW from, NEW mid, NEW to,
         \A m \in 1..(L - n) : rest[m] = s[m + n],
         LeadsUpTo(s, n, what, from, mid)
  PROVE  LeadsUpTo(s, L, what, from, to) <=> LeadsUpTo(rest, L - n, what, mid, to)
<1>1. \A m \in 1..L : m \in 1..n \/ (m - n \in 1..(L - n) /\ s[m] = rest[m - n] /\ m > n)
  <2> TAKE m \in 1..L
  <2>1. CASE m > n
    <3>1. m - n \in 1..(L - n) /\ (m - n) + n = m
      BY <2>1
    <3> QED BY <2>1, <3>1
  <2>2. CASE ~(m > n)
    BY <2>2
  <2> QED BY <2>1, <2>2
<1>2. \A m \in 1..(L - n) : m + n \in 1..L /\ rest[m] = s[m + n] /\ m + n > n
  OBVIOUS
<1>3. \A m \in 1..n : m \in 1..L
  OBVIOUS
<1>4. CASE \E k \in 1..(L - n) : rest[k].what = what
  <2>1. ASSUME LeadsUpTo(s, L, what, from, to) PROVE LeadsUpTo(rest, L - n, what, mid, to)
    <3>1. PICK k \in 1..L : s[k].what = what /\ s[k].down = to /\ \A m \in 1..L : m > k => s[m].what # what
      BY <1>2, <1>4, <2>1, Zenon DEF LeadsUpTo
    <3>2. k - n \in 1..(L - n) /\ s[k] = rest[k - n]
      BY <1>1, <1>2, <1>4, <3>1
    <3>3. \A m \in 1..(L - n) : m > k - n => rest[m].what # what
      BY <1>2, <3>1
    <3> QED BY <3>1, <3>2, <3>3, Zenon DEF LeadsUpTo
  <2>2. ASSUME LeadsUpTo(rest, L - n, what, mid, to) PROVE LeadsUpTo(s, L, what, from, to)
    <3>1. PICK k \in 1..(L - n) : /\ rest[k].what = what /\ rest[k].down = to
                                  /\ \A m \in 1..(L - n) : m > k => rest[m].what # what
      BY <1>4, <2>2, Zenon DEF LeadsUpTo
    <3>2. k + n \in 1..L /\ s[k + n] = rest[k]
      BY <1>2
    <3>3. \A m \in 1..L : m > k + n => s[m].what # what
      BY <1>1, <3>1
    <3> QED BY <3>1, <3>2, <3>3, Zenon DEF LeadsUpTo
  <2> QED BY <2>1, <2>2
<1>5. CASE ~(\E k \in 1..(L - n) : rest[k].what = what)
  <2>1. LeadsUpTo(rest, L - n, what, mid, to) <=> mid = to
    BY <1>5, Zenon DEF LeadsUpTo
  <2>2. \A m \in 1..L : m \in 1..n \/ s[m].what # what
    BY <1>1, <1>5, Zenon
  <2>3. ASSUME mid = to PROVE LeadsUpTo(s, L, what, from, to)
    <3>1. CASE from = mid /\ \A m \in 1..n : s[m].what # what
      BY <2>2, <2>3, <3>1, Zenon DEF LeadsUpTo
    <3>2. CASE \E k \in 1..n : /\ s[k].what = what /\ s[k].down = mid
                               /\ \A m \in 1..n : m > k => s[m].what # what
      BY <1>3, <2>2, <2>3, <3>2, Zenon DEF LeadsUpTo
    <3> QED BY <3>1, <3>2, Zenon DEF LeadsUpTo
  <2>4. ASSUME LeadsUpTo(s, L, what, from, to) PROVE mid = to
    <3>1. LeadsUpTo(s, n, what, from, to)
      BY <1>3, <2>2, <2>4, Zenon DEF LeadsUpTo
    <3>2. CASE \A m \in 1..n : s[m].what # what
      BY <3>1, <3>2, Zenon DEF LeadsUpTo
    <3>3. CASE ~(\A m \in 1..n : s[m].what # what)
      <4>1. PICK k \in 1..n : s[k].what = what /\ s[k].down = mid /\ \A m \in 1..n : m > k => s[m].what # what
        BY <3>3, Zenon DEF LeadsUpTo
      <4>2. PICK j \in 1..n : s[j].what = what /\ s[j].down = to /\ \A m \in 1..n : m > j => s[m].what # what
        BY <3>1, <3>3, Zenon DEF LeadsUpTo
      <4>3. j = k
        BY <4>1, <4>2
      <4> QED BY <4>1, <4>2, <4>3
    <3> QED BY <3>2, <3>3
  <2> QED BY <2>1, <2>3, <2>4
<1> QED BY <1>4, <1>5

\* The first input, and then the others.
LEMMA LeadsFromHead ==
  ASSUME NEW s \in Seq(Inputs), s # <<>>, NEW what, NEW from, NEW to
  PROVE  Leads(s, what, from, to)
           <=> Leads(Tail(s), what, IF Head(s).what = what THEN Head(s).down ELSE from, to)
<1> DEFINE L == Len(s)
           rest == Tail(s)
           mid == IF Head(s).what = what THEN Head(s).down ELSE from
<1>1. L \in Nat /\ L # 0
  BY NoLength
<1>2. Len(rest) = L - 1 /\ Head(s) = s[1] /\ \A m \in 1..(L - 1) : rest[m] = s[m + 1]
  BY <1>1
<1> HIDE DEF L, rest
<1>3. LeadsUpTo(s, 1, what, from, mid)
  <2>1. 1 \in Nat \ {0} /\ 1 - 1 = 0
    OBVIOUS
  <2>2. /\ s[1].what = what => (LeadsUpTo(s, 1, what, from, mid) <=> s[1].down = mid)
        /\ s[1].what # what
             => (LeadsUpTo(s, 1, what, from, mid) <=> LeadsUpTo(s, 0, what, from, mid))
    BY <2>1, LeadsStep
  <2> QED BY <1>2, <2>2, LeadsNowhere, Zenon
<1>4. 1 \in 0..L
  BY <1>1
<1> HIDE DEF mid
<1>5. LeadsUpTo(s, L, what, from, to) <=> LeadsUpTo(rest, L - 1, what, mid, to)
  BY <1>1, <1>2, <1>3, <1>4, LeadsSplit
<1> QED BY <1>2, <1>5, Zenon DEF Leads, L, rest, mid

-----------------------------------------------------------------------------
(* What the frames make of the queues                                      *)

SurfaceState == [touching : BOOLEAN, spot : Nat, button : BOOLEAN, captured : BOOLEAN,
                 swallow : BOOLEAN, pressed : Nat]
MouseState == [left : BOOLEAN, spot : Nat]

\* What a report does to the surface: the last one of a kind counts.
Shows(t, s, item) ==
  /\ t \in SurfaceState
  /\ t.captured = s.captured /\ t.swallow = s.swallow /\ t.pressed = s.pressed
  /\ t.button = IF item.what = "left" THEN item.down ELSE s.button
  /\ t.touching = IF item.what = "touch" THEN item.down ELSE s.touching

LEMMA ObserveShows ==
  ASSUME NEW s \in SurfaceState, NEW item \in Inputs
  PROVE  Shows(Observe(s, item), s, item)
<1>1. item.what \in {"left", "at", "touch", "key"} /\ item.down \in BOOLEAN /\ item.spot \in Nat
  BY DEF Inputs
<1>2. CASE item.what = "touch"
  <2> DEFINE u == [s EXCEPT !.touching = item.down]
  <2>1. /\ u \in SurfaceState /\ u.touching = item.down
        /\ u.captured = s.captured /\ u.swallow = s.swallow /\ u.pressed = s.pressed
        /\ u.button = s.button
    BY <1>1 DEF SurfaceState
  <2>2. Observe(s, item) = [u EXCEPT !.spot = item.spot]
    BY <1>1, <1>2 DEF Observe, SurfaceState
  <2> HIDE DEF u
  <2>3. LET t == [u EXCEPT !.spot = item.spot]
        IN  /\ t \in SurfaceState /\ t.touching = u.touching
            /\ t.captured = u.captured /\ t.swallow = u.swallow /\ t.pressed = u.pressed
            /\ t.button = u.button
    BY <1>1, <2>1 DEF SurfaceState
  <2> QED BY <1>2, <2>1, <2>2, <2>3 DEF Shows
<1>3. CASE item.what = "left"
  <2>1. Observe(s, item) = [s EXCEPT !.button = item.down]
    BY <1>3 DEF Observe
  <2> QED BY <1>1, <1>3, <2>1 DEF SurfaceState, Shows
<1>4. CASE item.what \notin {"touch", "left"}
  <2>1. Observe(s, item) = s
    BY <1>1, <1>4 DEF Observe
  <2> QED BY <1>1, <1>4, <2>1 DEF SurfaceState, Shows
<1> QED BY <1>1, <1>2, <1>3, <1>4

LEMMA ObserveType ==
  \A s \in SurfaceState, item \in Inputs : Observe(s, item) \in SurfaceState
  BY ObserveShows DEF Shows

LEMMA MousedType ==
  \A m \in MouseState, e \in Inputs : Moused(m, e) \in MouseState
  BY DEF Moused, MouseState, Inputs

LEMMA MousedLeft ==
  \A m \in MouseState, e \in Inputs :
    /\ e.what = "left" => Moused(m, e).left = e.down
    /\ e.what # "left" => Moused(m, e).left = m.left
  BY DEF Moused, MouseState, Inputs

\* The ring is observed input by input.
LEMMA RingRuns ==
  ASSUME ring \in Seq(Inputs), surface \in SurfaceState
  PROVE  \E r : /\ r[0] = surface /\ \A n \in 1..Len(ring) : r[n] = Observe(r[n - 1], ring[n])
                /\ Drained = r[Len(ring)] /\ \A n \in 0..Len(ring) : r[n] \in SurfaceState
<1> DEFINE L == Len(ring)
           Reads(f) == f = [n \in 0..L |-> IF n = 0 THEN surface ELSE Observe(f[n - 1], ring[n])]
           r == CHOOSE g : Reads(g)
           step == [n \in 1..L |-> [u \in SurfaceState |-> Observe(u, ring[n])]]
<1>1. L \in Nat /\ \A n \in 1..L : ring[n] \in Inputs
  OBVIOUS
<1>2. Drained = r[L]
  BY DEF Drained, L
<1> HIDE DEF L
<1>3. step \in [1..L -> [SurfaceState -> SurfaceState]]
  <2>1. ASSUME NEW n \in 1..L, NEW u \in SurfaceState PROVE Observe(u, ring[n]) \in SurfaceState
    BY <1>1, ObserveType, Zenon
  <2> QED BY <2>1
<1>4. \A n \in 1..L, u \in SurfaceState : step[n][u] = Observe(u, ring[n])
  OBVIOUS
<1> HIDE DEF step
<1>5. PICK w \in [0..L -> SurfaceState] : Follows(w, L, surface, step)
  BY <1>1, <1>3, StepsExist, Zenon
<1>6. w = [n \in 0..L |-> w[n]]
  OBVIOUS
<1>7. Reads(w)
  <2>1. ASSUME NEW n \in 0..L
        PROVE  w[n] = IF n = 0 THEN surface ELSE Observe(w[n - 1], ring[n])
    <3>1. CASE n # 0
      <4>1. n \in 1..L /\ n - 1 \in 0..L
        BY <1>1, <3>1
      <4>2. w[n - 1] \in SurfaceState
        BY <4>1
      <4>3. w[n] = step[n][w[n - 1]]
        BY <1>5, <4>1, Zenon DEF Follows
      <4> QED BY <1>4, <3>1, <4>1, <4>2, <4>3, Zenon
    <3>2. CASE n = 0
      BY <1>5, <3>2, Zenon DEF Follows
    <3> QED BY <3>1, <3>2, Zenon
  <2>2. [n \in 0..L |-> w[n]] = [n \in 0..L |-> IF n = 0 THEN surface ELSE Observe(w[n - 1], ring[n])]
    BY <2>1, Zenon
  <2> QED BY <1>6, <2>2, Zenon
<1>8. Reads(r)
  <2> HIDE DEF Reads
  <2> QED BY <1>7, Zenon
<1> HIDE DEF r
<1>9. \A n \in 0..L : r[n] = IF n = 0 THEN surface ELSE Observe(r[n - 1], ring[n])
  BY <1>8, Zenon
<1>10. r[0] = surface /\ 0 \in 0..L
  <2>1. 0 \in 0..L
    BY <1>1
  <2> QED BY <1>9, <2>1, Zenon
<1>11. ASSUME NEW n \in 1..L PROVE r[n] = Observe(r[n - 1], ring[n])
  <2>1. n \in 0..L /\ n # 0
    BY <1>1
  <2> QED BY <1>9, <2>1, Zenon
<1>12. \A n \in 0..L : r[n] \in SurfaceState
  <2> DEFINE T == {n \in 0..L : r[n] \in SurfaceState}
  <2>1. 0 \in T
    BY <1>10
  <2>2. ASSUME NEW n \in 1..L, n - 1 \in T PROVE n \in T
    <3>1. n \in 0..L /\ ring[n] \in Inputs /\ r[n - 1] \in SurfaceState
      BY <1>1, <2>2
    <3> QED BY <1>11, <3>1, ObserveType, Zenon
  <2> HIDE DEF T
  <2>3. 0..L \subseteq T
    BY <1>1, <2>1, <2>2, StepByStep, Zenon
  <2> QED BY <2>3, Zenon DEF T
<1> QED BY <1>2, <1>10, <1>11, <1>12, Zenon DEF L

\* The window system's events are taken one by one.
LEMMA MouseRuns ==
  ASSUME NEW queued \in Seq(Inputs), mouse \in MouseState
  PROVE  \E r : /\ r[0] = mouse /\ \A n \in 1..Len(queued) : r[n] = Moused(r[n - 1], queued[n])
                /\ NewMouse(queued) = r[Len(queued)] /\ \A n \in 0..Len(queued) : r[n] \in MouseState
<1> DEFINE L == Len(queued)
           Reads(f) == f = [n \in 0..L |-> IF n = 0 THEN mouse ELSE Moused(f[n - 1], queued[n])]
           r == CHOOSE g : Reads(g)
           step == [n \in 1..L |-> [u \in MouseState |-> Moused(u, queued[n])]]
<1>1. L \in Nat /\ \A n \in 1..L : queued[n] \in Inputs
  OBVIOUS
<1>2. NewMouse(queued) = r[L]
  BY DEF NewMouse, L
<1> HIDE DEF L
<1>3. step \in [1..L -> [MouseState -> MouseState]]
  <2>1. ASSUME NEW n \in 1..L, NEW u \in MouseState PROVE Moused(u, queued[n]) \in MouseState
    BY <1>1, MousedType, Zenon
  <2> QED BY <2>1
<1>4. \A n \in 1..L, u \in MouseState : step[n][u] = Moused(u, queued[n])
  OBVIOUS
<1> HIDE DEF step
<1>5. PICK w \in [0..L -> MouseState] : Follows(w, L, mouse, step)
  BY <1>1, <1>3, StepsExist, Zenon
<1>6. w = [n \in 0..L |-> w[n]]
  OBVIOUS
<1>7. Reads(w)
  <2>1. ASSUME NEW n \in 0..L
        PROVE  w[n] = IF n = 0 THEN mouse ELSE Moused(w[n - 1], queued[n])
    <3>1. CASE n # 0
      <4>1. n \in 1..L /\ n - 1 \in 0..L
        BY <1>1, <3>1
      <4>2. w[n - 1] \in MouseState
        BY <4>1
      <4>3. w[n] = step[n][w[n - 1]]
        BY <1>5, <4>1, Zenon DEF Follows
      <4> QED BY <1>4, <3>1, <4>1, <4>2, <4>3, Zenon
    <3>2. CASE n = 0
      BY <1>5, <3>2, Zenon DEF Follows
    <3> QED BY <3>1, <3>2, Zenon
  <2>2. [n \in 0..L |-> w[n]] = [n \in 0..L |-> IF n = 0 THEN mouse ELSE Moused(w[n - 1], queued[n])]
    BY <2>1, Zenon
  <2> QED BY <1>6, <2>2, Zenon
<1>8. Reads(r)
  <2> HIDE DEF Reads
  <2> QED BY <1>7, Zenon
<1> HIDE DEF r
<1>9. \A n \in 0..L : r[n] = IF n = 0 THEN mouse ELSE Moused(r[n - 1], queued[n])
  BY <1>8, Zenon
<1>10. r[0] = mouse /\ 0 \in 0..L
  <2>1. 0 \in 0..L
    BY <1>1
  <2> QED BY <1>9, <2>1, Zenon
<1>11. ASSUME NEW n \in 1..L PROVE r[n] = Moused(r[n - 1], queued[n])
  <2>1. n \in 0..L /\ n # 0
    BY <1>1
  <2> QED BY <1>9, <2>1, Zenon
<1>12. \A n \in 0..L : r[n] \in MouseState
  <2> DEFINE T == {n \in 0..L : r[n] \in MouseState}
  <2>1. 0 \in T
    BY <1>10
  <2>2. ASSUME NEW n \in 1..L, n - 1 \in T PROVE n \in T
    <3>1. n \in 0..L /\ queued[n] \in Inputs /\ r[n - 1] \in MouseState
      BY <1>1, <2>2
    <3> QED BY <1>11, <3>1, MousedType, Zenon
  <2> HIDE DEF T
  <2>3. 0..L \subseteq T
    BY <1>1, <2>1, <2>2, StepByStep, Zenon
  <2> QED BY <2>3, Zenon DEF T
<1> QED BY <1>2, <1>10, <1>11, <1>12, Zenon DEF L

\* A value that every input of a kind sets, and no other, is where the inputs lead.
LEMMA SetOnTheWay ==
  ASSUME NEW s \in Seq(Inputs), NEW what, NEW v,
         \A n \in 1..Len(s) : /\ s[n].what = what => v[n] = s[n].down
                              /\ s[n].what # what => v[n] = v[n - 1]
  PROVE  Leads(s, what, v[0], v[Len(s)])
<1> DEFINE L == Len(s)
           T == {n \in 0..L : LeadsUpTo(s, n, what, v[0], v[n])}
<1>1. L \in Nat
  OBVIOUS
<1>2. \A n \in 1..L : /\ s[n].what = what => v[n] = s[n].down
                      /\ s[n].what # what => v[n] = v[n - 1]
  OBVIOUS
<1> HIDE DEF L
<1>3. 0 \in T
  <2>1. 0 \in 0..L
    BY <1>1
  <2> QED BY <2>1, LeadsNowhere, Zenon
<1>4. ASSUME NEW n \in 1..L, n - 1 \in T PROVE n \in T
  <2>1. n \in 0..L /\ n \in Nat \ {0}
    BY <1>1
  <2>2. LeadsUpTo(s, n - 1, what, v[0], v[n - 1])
    BY <1>4, Zenon
  <2>3. /\ s[n].what = what => (LeadsUpTo(s, n, what, v[0], v[n]) <=> s[n].down = v[n])
        /\ s[n].what # what
             => (LeadsUpTo(s, n, what, v[0], v[n]) <=> LeadsUpTo(s, n - 1, what, v[0], v[n]))
    BY <2>1, LeadsStep, Zenon
  <2>4. LeadsUpTo(s, n, what, v[0], v[n])
    BY <1>2, <2>2, <2>3, Zenon
  <2> QED BY <2>1, <2>4, Zenon
<1>5. L \in T
  <2> HIDE DEF T
  <2>1. 0..L \subseteq T
    BY <1>1, <1>3, <1>4, StepByStep, Zenon
  <2>2. L \in 0..L
    BY <1>1
  <2> QED BY <2>1, <2>2, Zenon
<1> QED BY <1>5, Zenon DEF L, Leads

\* A frame that watches the ring shows what was sent last.
LEMMA DrainedIs ==
  ASSUME ring \in Seq(Inputs), surface \in SurfaceState
  PROVE  /\ Drained \in SurfaceState
         /\ Drained.captured = surface.captured /\ Drained.swallow = surface.swallow
         /\ Drained.pressed = surface.pressed
         /\ Leads(ring, "left", surface.button, Drained.button)
         /\ Leads(ring, "touch", surface.touching, Drained.touching)
<1> DEFINE L == Len(ring)
<1>1. PICK r : /\ r[0] = surface /\ \A n \in 1..L : r[n] = Observe(r[n - 1], ring[n])
               /\ Drained = r[L] /\ \A n \in 0..L : r[n] \in SurfaceState
  BY RingRuns, Zenon
<1>2. L \in Nat /\ \A n \in 1..L : ring[n] \in Inputs
  OBVIOUS
<1> HIDE DEF L
<1>3. ASSUME NEW n \in 1..L
      PROVE  /\ r[n].captured = r[n - 1].captured /\ r[n].swallow = r[n - 1].swallow
             /\ r[n].pressed = r[n - 1].pressed
             /\ r[n].button = IF ring[n].what = "left" THEN ring[n].down ELSE r[n - 1].button
             /\ r[n].touching = IF ring[n].what = "touch" THEN ring[n].down ELSE r[n - 1].touching
  <2>1. r[n - 1] \in SurfaceState
    <3>1. n - 1 \in 0..L
      BY <1>2
    <3> QED BY <1>1, <3>1, Zenon
  <2>2. ring[n] \in Inputs /\ r[n] = Observe(r[n - 1], ring[n])
    BY <1>1, <1>2
  <2>3. Shows(r[n], r[n - 1], ring[n])
    BY <2>1, <2>2, ObserveShows
  <2> QED BY <2>3, Zenon DEF Shows
<1>4. L \in 0..L /\ 0 \in 0..L
  BY <1>2
<1>5. /\ r[L].captured = r[0].captured /\ r[L].swallow = r[0].swallow /\ r[L].pressed = r[0].pressed
  <2> DEFINE T == {n \in 0..L : /\ r[n].captured = r[0].captured /\ r[n].swallow = r[0].swallow
                                /\ r[n].pressed = r[0].pressed}
  <2>1. 0 \in T
    BY <1>4
  <2>2. ASSUME NEW n \in 1..L, n - 1 \in T PROVE n \in T
    <3>1. n \in 0..L
      BY <1>2
    <3> QED BY <1>3, <2>2, <3>1, Zenon
  <2> HIDE DEF T
  <2>3. 0..L \subseteq T
    BY <1>2, <2>1, <2>2, StepByStep, Zenon
  <2> QED BY <1>4, <2>3, Zenon DEF T
<1>6. Leads(ring, "left", surface.button, Drained.button)
  <2> DEFINE v == [n \in 0..L |-> r[n].button]
  <2>1. v[0] = surface.button /\ v[L] = Drained.button
    BY <1>1, <1>4
  <2>2. ASSUME NEW n \in 1..L
        PROVE  /\ ring[n].what = "left" => v[n] = ring[n].down
               /\ ring[n].what # "left" => v[n] = v[n - 1]
    <3>1. n \in 0..L /\ n - 1 \in 0..L
      BY <1>2
    <3>2. v[n] = r[n].button /\ v[n - 1] = r[n - 1].button
      BY <3>1
    <3> HIDE DEF v
    <3> QED BY <1>3, <3>2
  <2> HIDE DEF v
  <2>3. Leads(ring, "left", v[0], v[L])
    BY <2>2, SetOnTheWay, Zenon DEF L
  <2> QED BY <2>1, <2>3, Zenon
<1>7. Leads(ring, "touch", surface.touching, Drained.touching)
  <2> DEFINE v == [n \in 0..L |-> r[n].touching]
  <2>1. v[0] = surface.touching /\ v[L] = Drained.touching
    BY <1>1, <1>4
  <2>2. ASSUME NEW n \in 1..L
        PROVE  /\ ring[n].what = "touch" => v[n] = ring[n].down
               /\ ring[n].what # "touch" => v[n] = v[n - 1]
    <3>1. n \in 0..L /\ n - 1 \in 0..L
      BY <1>2
    <3>2. v[n] = r[n].touching /\ v[n - 1] = r[n - 1].touching
      BY <3>1
    <3> HIDE DEF v
    <3> QED BY <1>3, <3>2
  <2> HIDE DEF v
  <2>3. Leads(ring, "touch", v[0], v[L])
    BY <2>2, SetOnTheWay, Zenon DEF L
  <2> QED BY <2>1, <2>3, Zenon
<1> QED BY <1>1, <1>4, <1>5, <1>6, <1>7, Zenon

\* The mouse of a frame is where the events it takes lead.
LEMMA NewMouseIs ==
  ASSUME NEW queued \in Seq(Inputs), mouse \in MouseState
  PROVE  NewMouse(queued) \in MouseState /\ Leads(queued, "left", mouse.left, NewMouse(queued).left)
<1> DEFINE L == Len(queued)
<1>1. PICK r : /\ r[0] = mouse /\ \A n \in 1..L : r[n] = Moused(r[n - 1], queued[n])
               /\ NewMouse(queued) = r[L] /\ \A n \in 0..L : r[n] \in MouseState
  BY MouseRuns, Zenon
<1>2. L \in Nat /\ \A n \in 1..L : queued[n] \in Inputs
  OBVIOUS
<1> HIDE DEF L
<1>3. L \in 0..L /\ 0 \in 0..L
  BY <1>2
<1> DEFINE v == [n \in 0..L |-> r[n].left]
<1>4. v[0] = mouse.left /\ v[L] = NewMouse(queued).left
  BY <1>1, <1>3
<1>5. ASSUME NEW n \in 1..L
      PROVE  /\ queued[n].what = "left" => v[n] = queued[n].down
             /\ queued[n].what # "left" => v[n] = v[n - 1]
  <2>1. n \in 0..L /\ n - 1 \in 0..L
    BY <1>2
  <2>2. v[n] = r[n].left /\ v[n - 1] = r[n - 1].left
    BY <2>1
  <2> HIDE DEF v
  <2>3. r[n - 1] \in MouseState /\ queued[n] \in Inputs /\ r[n] = Moused(r[n - 1], queued[n])
    BY <1>1, <1>2, <2>1, Zenon
  <2> QED BY <2>2, <2>3, MousedLeft, Zenon
<1> HIDE DEF v
<1>6. Leads(queued, "left", v[0], v[L])
  BY <1>5, SetOnTheWay, Zenon DEF L
<1> QED BY <1>1, <1>3, <1>4, <1>6, Zenon

-----------------------------------------------------------------------------
(* What the inbox makes of the inputs of a step                            *)

LEMMA FrontAndLast ==
  ASSUME NEW S, NEW q \in Seq(S), q # <<>>
  PROVE  Front(q) \in Seq(S) /\ Last(q) \in S /\ q = Append(Front(q), Last(q))
<1> DEFINE L == Len(q)
           front == SubSeq(q, 1, L - 1)
           last == q[L]
<1>1. L \in Nat /\ L >= 1 /\ DOMAIN q = 1..L /\ L \in 1..L
  <2>1. L \in Nat /\ DOMAIN q = 1..L
    OBVIOUS
  <2>2. L # 0
    BY NoLength
  <2> QED BY <2>1, <2>2
<1>2. last \in S
  BY <1>1
<1>3. front \in Seq(S) /\ Len(front) = L - 1 /\ \A n \in 1..(L - 1) : front[n] = q[n]
  BY <1>1, SubSeqProperties
<1>4. L = Len(q) /\ last = q[L]
  OBVIOUS
<1> HIDE DEF front, last, L
<1>5. /\ Append(front, last) \in Seq(S) /\ Len(Append(front, last)) = Len(front) + 1
      /\ Append(front, last)[Len(front) + 1] = last
      /\ \A n \in 1..Len(front) : Append(front, last)[n] = front[n]
  BY <1>2, <1>3, AppendProperties
<1>6. (L - 1) + 1 = L /\ \A n \in 1..L : n = L \/ n \in 1..(L - 1)
  BY <1>1
<1>7. \A n \in 1..L : Append(front, last)[n] = q[n]
  BY <1>3, <1>4, <1>5, <1>6, Zenon
<1>8. q = Append(front, last)
  BY <1>3, <1>4, <1>5, <1>6, <1>7, SeqEqual, Zenon
<1> QED BY <1>2, <1>3, <1>8, Zenon DEF Front, Last, front, last, L

LEMMA Queued1Type ==
  ASSUME NEW S, NEW q \in Seq(S), NEW e \in S
  PROVE  Queued1(q, e) \in Seq(S)
<1>1. CASE FoldsContact(q, e)
  <2>1. Front(q) \in Seq(S)
    BY <1>1, FrontAndLast DEF FoldsContact
  <2> QED BY <1>1, <2>1 DEF Queued1
<1>2. CASE ~FoldsContact(q, e)
  BY <1>2 DEF Queued1
<1> QED BY <1>1, <1>2

\* A contact's position is folded; presses and releases of the button and of keys are not.
LEMMA Queued1Leads ==
  ASSUME NEW q \in Seq(Inputs), NEW e \in Inputs, NEW what \in {"left", "key"}, NEW from, NEW to
  PROVE  /\ e.what = what => (Leads(Queued1(q, e), what, from, to) <=> e.down = to)
         /\ e.what # what => (Leads(Queued1(q, e), what, from, to) <=> Leads(q, what, from, to))
<1>1. CASE FoldsContact(q, e)
  <2> DEFINE front == Front(q)
             last == Last(q)
  <2>1. front \in Seq(Inputs) /\ last \in Inputs /\ q = Append(front, last)
    BY <1>1, FrontAndLast DEF FoldsContact
  <2>2. e.what = "touch" /\ last.what = "touch" /\ Queued1(q, e) = Append(front, e)
    BY <1>1 DEF FoldsContact, Queued1
  <2>3. e.what # what /\ last.what # what
    BY <2>2
  <2> HIDE DEF front, last
  <2>4. Leads(Append(front, last), what, from, to) <=> Leads(front, what, from, to)
    BY <2>1, <2>3, LeadsAppended, Zenon
  <2>5. Leads(Append(front, e), what, from, to) <=> Leads(front, what, from, to)
    BY <2>1, <2>3, LeadsAppended, Zenon
  <2> QED BY <2>1, <2>2, <2>3, <2>4, <2>5, Zenon
<1>2. CASE ~FoldsContact(q, e)
  <2>1. Queued1(q, e) = Append(q, e)
    BY <1>2, Zenon DEF Queued1
  <2>2. /\ e.what = what => (Leads(Append(q, e), what, from, to) <=> e.down = to)
        /\ e.what # what => (Leads(Append(q, e), what, from, to) <=> Leads(q, what, from, to))
    BY LeadsAppended, Zenon
  <2> QED BY <2>1, <2>2
<1> QED BY <1>1, <1>2, Zenon

\* The inputs are queued one by one.
LEMMA QueuedRuns ==
  ASSUME NEW S, NEW items \in Seq(S), to_phone \in Seq(S)
  PROVE  \E r : /\ r[0] = to_phone /\ \A n \in 1..Len(items) : r[n] = Queued1(r[n - 1], items[n])
                /\ Queued(items) = r[Len(items)] /\ \A n \in 0..Len(items) : r[n] \in Seq(S)
<1> DEFINE L == Len(items)
           Reads(f) == f = [n \in 0..L |-> IF n = 0 THEN to_phone ELSE Queued1(f[n - 1], items[n])]
           r == CHOOSE g : Reads(g)
           step == [n \in 1..L |-> [u \in Seq(S) |-> Queued1(u, items[n])]]
<1>1. L \in Nat /\ \A n \in 1..L : items[n] \in S
  OBVIOUS
<1>2. Queued(items) = r[L]
  BY DEF Queued, L
<1> HIDE DEF L
<1>3. step \in [1..L -> [Seq(S) -> Seq(S)]]
  <2>1. ASSUME NEW n \in 1..L, NEW u \in Seq(S) PROVE Queued1(u, items[n]) \in Seq(S)
    BY <1>1, Queued1Type, Zenon
  <2> QED BY <2>1
<1>4. \A n \in 1..L, u \in Seq(S) : step[n][u] = Queued1(u, items[n])
  OBVIOUS
<1> HIDE DEF step
<1>5. PICK w \in [0..L -> Seq(S)] : Follows(w, L, to_phone, step)
  BY <1>1, <1>3, StepsExist, Zenon
<1>6. w = [n \in 0..L |-> w[n]]
  OBVIOUS
<1>7. Reads(w)
  <2>1. ASSUME NEW n \in 0..L
        PROVE  w[n] = IF n = 0 THEN to_phone ELSE Queued1(w[n - 1], items[n])
    <3>1. CASE n # 0
      <4>1. n \in 1..L /\ n - 1 \in 0..L
        BY <1>1, <3>1
      <4>2. w[n - 1] \in Seq(S)
        BY <4>1
      <4>3. w[n] = step[n][w[n - 1]]
        BY <1>5, <4>1, Zenon DEF Follows
      <4> QED BY <1>4, <3>1, <4>1, <4>2, <4>3, Zenon
    <3>2. CASE n = 0
      BY <1>5, <3>2, Zenon DEF Follows
    <3> QED BY <3>1, <3>2, Zenon
  <2>2. [n \in 0..L |-> w[n]] = [n \in 0..L |-> IF n = 0 THEN to_phone ELSE Queued1(w[n - 1], items[n])]
    BY <2>1, Zenon
  <2> QED BY <1>6, <2>2, Zenon
<1>8. Reads(r)
  <2> HIDE DEF Reads
  <2> QED BY <1>7, Zenon
<1> HIDE DEF r
<1>9. \A n \in 0..L : r[n] = IF n = 0 THEN to_phone ELSE Queued1(r[n - 1], items[n])
  BY <1>8, Zenon
<1>10. r[0] = to_phone /\ 0 \in 0..L
  <2>1. 0 \in 0..L
    BY <1>1
  <2> QED BY <1>9, <2>1, Zenon
<1>11. ASSUME NEW n \in 1..L PROVE r[n] = Queued1(r[n - 1], items[n])
  <2>1. n \in 0..L /\ n # 0
    BY <1>1
  <2> QED BY <1>9, <2>1, Zenon
<1>12. \A n \in 0..L : r[n] \in Seq(S)
  <2> DEFINE T == {n \in 0..L : r[n] \in Seq(S)}
  <2>1. 0 \in T
    BY <1>10
  <2>2. ASSUME NEW n \in 1..L, n - 1 \in T PROVE n \in T
    <3>1. n \in 0..L /\ items[n] \in S /\ r[n - 1] \in Seq(S)
      BY <1>1, <2>2
    <3> QED BY <1>11, <3>1, Queued1Type, Zenon
  <2> HIDE DEF T
  <2>3. 0..L \subseteq T
    BY <1>1, <2>1, <2>2, StepByStep, Zenon
  <2> QED BY <2>3, Zenon DEF T
<1> QED BY <1>2, <1>10, <1>11, <1>12, Zenon DEF L

\* What is queued is of the kinds that were, and leads where the inputs lead in turn.
LEMMA QueuedType ==
  ASSUME NEW S, NEW items \in Seq(S), to_phone \in Seq(S)
  PROVE  Queued(items) \in Seq(S)
<1>1. PICK r : /\ Queued(items) = r[Len(items)] /\ \A n \in 0..Len(items) : r[n] \in Seq(S)
  BY QueuedRuns, Zenon
<1>2. Len(items) \in 0..Len(items)
  <2>1. Len(items) \in Nat
    OBVIOUS
  <2> QED BY <2>1
<1> QED BY <1>1, <1>2, Zenon

LEMMA QueuedLeads ==
  ASSUME NEW items \in Seq(Inputs), to_phone \in Seq(Inputs), NEW what \in {"left", "key"},
         NEW from, NEW mid, NEW to,
         Leads(to_phone, what, from, mid), Leads(items, what, mid, to)
  PROVE  Leads(Queued(items), what, from, to)
<1> DEFINE L == Len(items)
<1>1. PICK r : /\ r[0] = to_phone /\ \A n \in 1..L : r[n] = Queued1(r[n - 1], items[n])
               /\ Queued(items) = r[L] /\ \A n \in 0..L : r[n] \in Seq(Inputs)
  BY QueuedRuns, Zenon
<1>2. L \in Nat /\ \A n \in 1..L : items[n] \in Inputs
  OBVIOUS
<1>3. LeadsUpTo(items, L, what, mid, to)
  BY Zenon DEF Leads
<1> HIDE DEF L
<1>4. L \in 0..L /\ 0 \in 0..L
  BY <1>2
<1> DEFINE OK(n) == \A x : LeadsUpTo(items, n, what, mid, x) => Leads(r[n], what, from, x)
           T == {n \in 0..L : OK(n)}
<1>5. 0 \in T
  <2>1. ASSUME NEW x, LeadsUpTo(items, 0, what, mid, x) PROVE Leads(r[0], what, from, x)
    <3>1. mid = x
      BY <2>1, LeadsNowhere, Zenon
    <3> QED BY <1>1, <3>1, Zenon
  <2> QED BY <1>4, <2>1, Zenon
<1>6. ASSUME NEW n \in 1..L, n - 1 \in T PROVE n \in T
  <2>1. n \in 0..L /\ n - 1 \in 0..L /\ n \in Nat \ {0} /\ items[n] \in Inputs
    BY <1>2
  <2>2. r[n - 1] \in Seq(Inputs) /\ r[n] = Queued1(r[n - 1], items[n])
    BY <1>1, <2>1, Zenon
  <2>3. OK(n - 1)
    BY <1>6, Zenon
  <2>4. ASSUME NEW x, LeadsUpTo(items, n, what, mid, x) PROVE Leads(r[n], what, from, x)
    <3>1. /\ items[n].what = what
               => (LeadsUpTo(items, n, what, mid, x) <=> items[n].down = x)
          /\ items[n].what # what
               => (LeadsUpTo(items, n, what, mid, x) <=> LeadsUpTo(items, n - 1, what, mid, x))
      BY <2>1, LeadsStep, Zenon
    <3>2. /\ items[n].what = what
               => (Leads(Queued1(r[n - 1], items[n]), what, from, x) <=> items[n].down = x)
          /\ items[n].what # what
               => (Leads(Queued1(r[n - 1], items[n]), what, from, x) <=> Leads(r[n - 1], what, from, x))
      <4> DEFINE q == r[n - 1]
                 e == items[n]
      <4>1. q \in Seq(Inputs) /\ e \in Inputs
        BY <2>1, <2>2
      <4> HIDE DEF q, e
      <4>2. /\ e.what = what => (Leads(Queued1(q, e), what, from, x) <=> e.down = x)
            /\ e.what # what => (Leads(Queued1(q, e), what, from, x) <=> Leads(q, what, from, x))
        BY <4>1, Queued1Leads
      <4> QED BY <4>2 DEF q, e
    <3> QED BY <2>2, <2>3, <2>4, <3>1, <3>2, Zenon
  <2>5. OK(n)
    BY <2>4, Zenon
  <2> HIDE DEF OK
  <2> QED BY <2>1, <2>5, Zenon
<1>7. L \in T
  <2> HIDE DEF T
  <2>1. 0..L \subseteq T
    BY <1>2, <1>5, <1>6, StepByStep, Zenon
  <2> QED BY <1>4, <2>1, Zenon
<1> QED BY <1>1, <1>3, <1>7, Zenon

\* Either no input is of that kind, or they lead to one value from everywhere.
LEMMA StillOrSet ==
  ASSUME NEW s \in Seq(Inputs), NEW what
  PROVE  \/ Still(s, what) /\ \A x : Leads(s, what, x, x)
         \/ ~Still(s, what) /\ \E d \in BOOLEAN : \A x : Leads(s, what, x, d)
<1>1. ASSUME Still(s, what), NEW x PROVE Leads(s, what, x, x)
  BY <1>1, Zenon DEF Still, Leads, LeadsUpTo
<1>2. ASSUME ~Still(s, what) PROVE \E d \in BOOLEAN : \A x : Leads(s, what, x, d)
  <2>1. PICK d \in BOOLEAN : Leads(s, what, TRUE, d)
    BY LeadsSomewhere
  <2>2. ~(\A m \in 1..Len(s) : s[m].what # what)
    BY <1>2, Zenon DEF Still
  <2>3. \E k \in 1..Len(s) : /\ s[k].what = what /\ s[k].down = d
                             /\ \A m \in 1..Len(s) : m > k => s[m].what # what
    BY <2>1, <2>2, Zenon DEF Leads, LeadsUpTo
  <2>4. \A x : Leads(s, what, x, d)
    BY <2>3, Zenon DEF Leads, LeadsUpTo
  <2> QED BY <2>4
<1> QED BY <1>1, <1>2, Zenon

LEMMA QueuedStill ==
  ASSUME NEW items \in Seq(Inputs), to_phone \in Seq(Inputs), Still(Queued(items), "left")
  PROVE  Still(to_phone, "left") /\ Still(items, "left")
<1> DEFINE q == Queued(items)
<1>1. q \in Seq(Inputs)
  BY QueuedType
<1>2. "left" \in {"left", "key"}
  OBVIOUS
<1>3. \A x : Leads(q, "left", x, x)
  BY <1>1, StillOrSet, Zenon
<1>4. ASSUME NEW d \in BOOLEAN, \A x : Leads(q, "left", x, d) PROVE FALSE
  <2>1. Leads(q, "left", TRUE, TRUE) /\ Leads(q, "left", FALSE, FALSE)
    BY <1>3, Zenon
  <2>2. Leads(q, "left", TRUE, d) /\ Leads(q, "left", FALSE, d)
    BY <1>4, Zenon
  <2> HIDE DEF q
  <2>3. TRUE \in BOOLEAN /\ FALSE \in BOOLEAN
    OBVIOUS
  <2>4. TRUE = d
    BY <1>1, <2>1, <2>2, <2>3, LeadsSomewhere, Zenon
  <2>5. FALSE = d
    BY <1>1, <2>1, <2>2, <2>3, LeadsSomewhere, Zenon
  <2> QED BY <2>4, <2>5
<1>5. Still(items, "left")
  <2>1. ASSUME NEW d \in BOOLEAN, \A x : Leads(items, "left", x, d) PROVE FALSE
    <3>1. ASSUME NEW x PROVE Leads(q, "left", x, d)
      <4>1. \E mid : Leads(to_phone, "left", x, mid)
        BY StillOrSet, Zenon
      <4> QED BY <1>2, <2>1, <4>1, QueuedLeads, Zenon
    <3> QED BY <1>4, <3>1, Zenon
  <2> QED BY <2>1, StillOrSet, Zenon
<1>6. Still(to_phone, "left")
  <2>1. ASSUME NEW d \in BOOLEAN, \A x : Leads(to_phone, "left", x, d) PROVE FALSE
    <3>1. Leads(items, "left", d, d)
      BY <1>5, StillOrSet, Zenon
    <3>2. ASSUME NEW x PROVE Leads(q, "left", x, d)
      BY <1>2, <2>1, <3>1, QueuedLeads, Zenon
    <3> QED BY <1>4, <3>2, Zenon
  <2> QED BY <2>1, StillOrSet, Zenon
<1> QED BY <1>5, <1>6

-----------------------------------------------------------------------------
(* The invariant                                                           *)

OfKinds(kinds) == {i \in Inputs : i.what \in kinds}

SentKinds == {"left", "touch", "key"}

HandState == [left : BOOLEAN, key : BOOLEAN, spot : Nat, acts : Nat]
PhoneState == [touch : BOOLEAN, left : BOOLEAN, key : BOOLEAN]
SeenBy == [lost_up : BOOLEAN, slipped : BOOLEAN, unheard : BOOLEAN, settled : BOOLEAN]

CaptureTypes ==
  /\ hand \in HandState /\ mouse \in MouseState /\ surface \in SurfaceState
  /\ phone \in PhoneState /\ seen_by \in SeenBy
  /\ input_queue \in Seq(Inputs) /\ ring \in Seq(Inputs) /\ to_phone \in Seq(OfKinds(SentKinds))
  /\ typing \in BOOLEAN /\ observing \in BOOLEAN /\ pointer \in {"touch", "mouse"}

\* The events on their way make the window's mouse what the hand is.
MouseFollows == Leads(input_queue, "left", mouse.left, hand.left)

\* The reports on their way make the window's contact and button what the phone's are, the
\* button's until one is sent that the capture's end has shown before.
SurfaceFollows ==
  ~seen_by.unheard =>
    /\ Leads(ring, "touch", surface.touching, phone.touch)
    /\ Still(to_phone, "left") => Leads(ring, "left", surface.button, phone.left)

\* Without the pointer, the button comes up.
ButtonComesUp ==
  ~seen_by.unheard /\ ~surface.captured /\ ~seen_by.slipped =>
    \E y \in BOOLEAN : Leads(ring, "left", surface.button, y) /\ Leads(to_phone, "left", y, FALSE)

\* A key that was let go comes up.
KeyComesUp ==
  ~hand.key /\ ~seen_by.lost_up =>
    surface.pressed = 0 /\ Leads(to_phone, "key", phone.key, FALSE)

\* Each mode of the pointer has inputs of its own.
OneMode ==
  /\ pointer = "mouse" => ~phone.touch /\ to_phone \in Seq(OfKinds({"left", "key"}))
  /\ pointer = "touch" => ~surface.captured

\* Nothing is on its way any more, and a frame found nothing to send.
NothingToSend ==
  seen_by.settled =>
    /\ to_phone = <<>> /\ ring = <<>> /\ input_queue = <<>>
    /\ pointer = "touch" => surface.touching = mouse.left
    /\ surface.captured => surface.button = (mouse.left /\ ~surface.swallow)

HandInv ==
  /\ CaptureTypes /\ MouseFollows /\ SurfaceFollows /\ ButtonComesUp
  /\ KeyComesUp /\ OneMode /\ NothingToSend

-----------------------------------------------------------------------------
(* What is sent in a step                                                  *)

LEMMA NothingLeads ==
  ASSUME NEW what, NEW from, NEW to
  PROVE  Leads(<<>>, what, from, to) <=> from = to
<1>1. Len(<<>>) = 0
  OBVIOUS
<1> QED BY <1>1, LeadsNowhere, Zenon DEF Leads

LEMMA OfKindsAreInputs ==
  ASSUME NEW kinds, NEW s \in Seq(OfKinds(kinds))
  PROVE  s \in Seq(Inputs) /\ \A m \in 1..Len(s) : s[m].what \in kinds
<1>1. \A m \in 1..Len(s) : s[m] \in OfKinds(kinds)
  OBVIOUS
<1>2. \A m \in 1..Len(s) : s[m] \in Inputs /\ s[m].what \in kinds
  BY <1>1 DEF OfKinds
<1>3. s \in Seq(Inputs)
  <2>1. DOMAIN s = 1..Len(s) /\ Len(s) \in Nat /\ s = [m \in 1..Len(s) |-> s[m]]
    OBVIOUS
  <2> QED BY <1>2, <2>1
<1> QED BY <1>2, <1>3

LEMMA OtherKinds ==
  ASSUME NEW kinds, NEW s \in Seq(OfKinds(kinds)), NEW what, what \notin kinds
  PROVE  Still(s, what) /\ \A x : Leads(s, what, x, x)
<1>1. s \in Seq(Inputs) /\ \A m \in 1..Len(s) : s[m].what \in kinds
  BY OfKindsAreInputs
<1>2. Still(s, what)
  BY <1>1, Zenon DEF Still
<1> QED BY <1>1, <1>2, StillOrSet, Zenon

LEMMA InputMade ==
  ASSUME NEW what \in {"left", "at", "touch", "key"}, NEW down \in BOOLEAN, NEW spot \in Nat
  PROVE  /\ Item(what, down, spot) \in Inputs
         /\ Item(what, down, spot).what = what /\ Item(what, down, spot).down = down
  BY DEF Item, Inputs

\* The releases of the button and of the key that a step sends.
Ups(button, key) ==
  (IF button THEN <<Item("left", FALSE, 0)>> ELSE <<>>)
  \o (IF key THEN <<Item("key", FALSE, 0)>> ELSE <<>>)

LEMMA OneUp ==
  ASSUME NEW what \in {"left", "key"}, NEW kind \in {"left", "key"}, NEW x
  PROVE  /\ <<Item(what, FALSE, 0)>> \in Seq(OfKinds({"left", "key"}))
         /\ what = kind => Leads(<<Item(what, FALSE, 0)>>, kind, x, FALSE)
         /\ what # kind => Leads(<<Item(what, FALSE, 0)>>, kind, x, x)
<1> DEFINE e == Item(what, FALSE, 0)
<1>1. e \in Inputs /\ e.what = what /\ e.down = FALSE
  <2>1. e = [what |-> what, down |-> FALSE, spot |-> 0]
    BY DEF Item
  <2> HIDE DEF e
  <2>2. e \in Inputs
    BY <2>1 DEF Inputs
  <2> QED BY <2>1, <2>2
<1>2. e \in OfKinds({"left", "key"})
  BY <1>1 DEF OfKinds
<1> HIDE DEF e
<1>3. <<e>> = Append(<<>>, e) /\ <<>> \in Seq(Inputs)
  OBVIOUS
<1>4. /\ what = kind => (Leads(Append(<<>>, e), kind, x, FALSE) <=> e.down = FALSE)
      /\ what # kind => (Leads(Append(<<>>, e), kind, x, x) <=> Leads(<<>>, kind, x, x))
  BY <1>1, <1>3, LeadsAppended, Zenon
<1>5. Leads(<<>>, kind, x, x)
  BY NothingLeads, Zenon
<1>6. <<e>> \in Seq(OfKinds({"left", "key"}))
  BY <1>2
<1> QED BY <1>1, <1>3, <1>4, <1>5, <1>6, Zenon DEF e

LEMMA UpsLead ==
  ASSUME NEW button \in BOOLEAN, NEW key \in BOOLEAN
  PROVE  /\ Ups(button, key) \in Seq(OfKinds({"left", "key"}))
         /\ \A x : Leads(Ups(button, key), "left", x, IF button THEN FALSE ELSE x)
         /\ \A x : Leads(Ups(button, key), "key", x, IF key THEN FALSE ELSE x)
         /\ button => ~Still(Ups(button, key), "left")
<1> DEFINE u == Item("left", FALSE, 0)
           v == Item("key", FALSE, 0)
           kinds == {"left", "key"}
<1>1. /\ "left" \in {"left", "key"} /\ "key" \in {"left", "key"} /\ "left" # "key"
      /\ u \in Inputs /\ u.what = "left" /\ v \in Inputs /\ v.what = "key" /\ v.down = FALSE
  BY InputMade
<1>2. <<u>> \in Seq(OfKinds(kinds)) /\ <<v>> \in Seq(OfKinds(kinds))
  BY <1>1, OneUp
<1>3. ASSUME NEW x
      PROVE  /\ Leads(<<u>>, "left", x, FALSE) /\ Leads(<<u>>, "key", x, x)
             /\ Leads(<<v>>, "left", x, x) /\ Leads(<<v>>, "key", x, FALSE)
             /\ Leads(<<>>, "left", x, x) /\ Leads(<<>>, "key", x, x)
  BY <1>1, OneUp, NothingLeads
<1>4. Ups(button, key) = (IF button THEN <<u>> ELSE <<>>) \o (IF key THEN <<v>> ELSE <<>>)
  BY DEF Ups
<1>5. {"left", "key"} = kinds
  OBVIOUS
<1> HIDE DEF u, v, kinds
<1>6. /\ <<u>> \o <<>> = <<u>> /\ <<>> \o <<v>> = <<v>> /\ <<>> \o <<>> = <<>>
       /\ <<u>> \o <<v>> = Append(<<u>>, v) /\ <<u>> \in Seq(Inputs)
       /\ <<>> \in Seq(OfKinds(kinds))
  <2>1. <<u>> \in Seq(Inputs) /\ <<v>> \in Seq(Inputs) /\ <<>> \in Seq(Inputs)
    BY <1>1
  <2>2. <<u>> \o <<>> = <<u>> /\ <<>> \o <<v>> = <<v>> /\ <<>> \o <<>> = <<>>
    BY <2>1, ConcatEmptySeq
  <2>3. <<u>> \o <<v>> = Append(<<u>>, v)
    BY <1>1, <2>1, AppendIsConcat
  <2>4. <<>> \in Seq(OfKinds(kinds))
    OBVIOUS
  <2> QED BY <2>1, <2>2, <2>3, <2>4
<1>7. CASE button /\ key
  <2>1. Ups(button, key) = Append(<<u>>, v) /\ <<u>> \in Seq(Inputs)
    BY <1>7, <1>4, <1>6
  <2>2. \A x : Leads(Append(<<u>>, v), "left", x, FALSE) /\ Leads(Append(<<u>>, v), "key", x, FALSE)
    BY <1>1, <1>3, <2>1, LeadsAppended, Zenon
  <2>3. Append(<<u>>, v) \in Seq(OfKinds(kinds))
    <3>1. u \in OfKinds(kinds) /\ v \in OfKinds(kinds)
      BY <1>1 DEF OfKinds, kinds
    <3> QED BY <3>1
  <2>4. ~Still(Append(<<u>>, v), "left")
    BY <1>1 DEF Still
  <2> QED BY <1>7, <1>5, <2>1, <2>2, <2>3, <2>4
<1>8. CASE button /\ ~key
  <2>1. Ups(button, key) = <<u>>
    BY <1>8, <1>4, <1>6
  <2>2. ~Still(<<u>>, "left")
    BY <1>1 DEF Still
  <2> QED BY <1>2, <1>3, <1>8, <1>5, <2>1, <2>2
<1>9. CASE ~button /\ key
  <2>1. Ups(button, key) = <<v>>
    BY <1>9, <1>4, <1>6
  <2> QED BY <1>2, <1>3, <1>9, <1>5, <2>1
<1>10. CASE ~button /\ ~key
  <2>1. Ups(button, key) = <<>>
    BY <1>10, <1>4, <1>6
  <2> QED BY <1>3, <1>10, <1>5, <1>6, <2>1
<1> QED BY <1>7, <1>8, <1>9, <1>10

\* What a step sends follows what was sent.
LEMMA SentLeads ==
  ASSUME CaptureTypes, NEW items \in Seq(OfKinds(SentKinds)), Sends(items)
  PROVE  /\ to_phone' \in Seq(OfKinds(SentKinds))
         /\ \A what \in {"left", "key"} : \A x, y, z :
              Leads(to_phone, what, x, y) /\ Leads(items, what, y, z) => Leads(to_phone', what, x, z)
         /\ Still(to_phone', "left") => Still(to_phone, "left") /\ Still(items, "left")
<1>1. to_phone \in Seq(OfKinds(SentKinds)) /\ to_phone' = Queued(items)
  BY Zenon DEF CaptureTypes, Sends
<1>2. to_phone \in Seq(Inputs) /\ items \in Seq(Inputs)
  BY <1>1, OfKindsAreInputs
<1>3. Queued(items) \in Seq(OfKinds(SentKinds))
  BY <1>1, QueuedType
<1>4. ASSUME NEW what \in {"left", "key"}, NEW x, NEW y, NEW z,
             Leads(to_phone, what, x, y), Leads(items, what, y, z)
      PROVE  Leads(Queued(items), what, x, z)
  BY <1>2, <1>4, QueuedLeads
<1>5. Still(Queued(items), "left") => Still(to_phone, "left") /\ Still(items, "left")
  BY <1>2, QueuedStill, Zenon
<1> QED BY <1>1, <1>3, <1>4, <1>5, Zenon

LEMMA SentInMouseMode ==
  ASSUME NEW items \in Seq(OfKinds({"left", "key"})), Sends(items),
         to_phone \in Seq(OfKinds({"left", "key"}))
  PROVE  to_phone' \in Seq(OfKinds({"left", "key"}))
<1>1. Queued(items) \in Seq(OfKinds({"left", "key"}))
  BY QueuedType
<1> QED BY <1>1, Zenon DEF Sends

LEMMA ButtonsAndKeysAreSent ==
  ASSUME NEW items \in Seq(OfKinds({"left", "key"}))
  PROVE  items \in Seq(OfKinds(SentKinds))
<1>1. OfKinds({"left", "key"}) \subseteq OfKinds(SentKinds)
  BY DEF OfKinds, SentKinds
<1> QED BY <1>1

-----------------------------------------------------------------------------
(* What the user does                                                      *)

LEMMA UnsettledIs ==
  ASSUME NEW s \in SeenBy
  PROVE  /\ Unsettled(s) \in SeenBy
         /\ Unsettled(s).unheard = s.unheard /\ Unsettled(s).slipped = s.slipped
         /\ Unsettled(s).lost_up = s.lost_up /\ ~Unsettled(s).settled
  BY DEF Unsettled, SeenBy

LEMMA SurfaceRests ==
  ASSUME SurfaceFollows, UNCHANGED <<ring, phone>>, seen_by'.unheard = seen_by.unheard,
         surface'.touching = surface.touching,
         Still(to_phone', "left")
           => Still(to_phone, "left") /\ surface'.button = surface.button
  PROVE  SurfaceFollows'
  BY Zenon DEF SurfaceFollows

LEMMA ButtonRests ==
  ASSUME ButtonComesUp, ring' = ring, seen_by'.unheard = seen_by.unheard,
         seen_by'.slipped = seen_by.slipped, surface'.captured = surface.captured,
         surface'.button = surface.button,
         \A y : Leads(to_phone, "left", y, FALSE) => Leads(to_phone', "left", y, FALSE)
  PROVE  ButtonComesUp'
  BY Zenon DEF ButtonComesUp

LEMMA KeyRests ==
  ASSUME KeyComesUp, phone' = phone, hand'.key = hand.key, seen_by'.lost_up = seen_by.lost_up,
         surface'.pressed = surface.pressed,
         \A x : Leads(to_phone, "key", x, FALSE) => Leads(to_phone', "key", x, FALSE)
  PROVE  KeyComesUp'
  BY Zenon DEF KeyComesUp

LEMMA NotSettled == ASSUME ~seen_by'.settled PROVE NothingToSend'
  BY Zenon DEF NothingToSend

LEMMA Acted ==
  ASSUME NEW change \in HandState, Act(change)
  PROVE  hand' \in HandState /\ hand'.left = change.left /\ hand'.key = change.key
<1>1. hand' = [change EXCEPT !.acts = @ + 1]
  BY DEF Act
<1>2. change.acts + 1 \in Nat
  BY DEF HandState
<1> QED BY <1>1, <1>2 DEF HandState

LEMMA ClickKeeps == ASSUME HandInv, Click PROVE HandInv'
<1>1. CaptureTypes
  BY Zenon DEF HandInv
<1>2. /\ hand \in HandState /\ seen_by \in SeenBy /\ input_queue \in Seq(Inputs)
      /\ seen_by' = Unsettled(seen_by)
      /\ input_queue' = Append(input_queue, Item("left", hand'.left, 0))
      /\ UNCHANGED <<mouse, typing, pointer, surface, to_phone, observing, ring, phone>>
  BY <1>1 DEF CaptureTypes, Click
<1>3. hand' \in HandState /\ hand'.key = hand.key
  <2> DEFINE change == [hand EXCEPT !.left = ~@]
  <2>1. change \in HandState /\ change.key = hand.key
    BY <1>2 DEF HandState
  <2>2. Act(change)
    BY DEF Click
  <2> HIDE DEF change
  <2> QED BY <2>1, <2>2, Acted
<1>4. seen_by' \in SeenBy /\ seen_by'.unheard = seen_by.unheard /\ seen_by'.slipped = seen_by.slipped
      /\ seen_by'.lost_up = seen_by.lost_up /\ ~seen_by'.settled
  BY <1>2, UnsettledIs
<1> DEFINE e == Item("left", hand'.left, 0)
<1>5. e \in Inputs /\ e.what = "left" /\ e.down = hand'.left
  BY <1>3 DEF Item, Inputs, HandState
<1>6. input_queue' = Append(input_queue, e)
  BY <1>2
<1> HIDE DEF e
<1>7. CaptureTypes'
  <2>1. input_queue' \in Seq(Inputs)
    BY <1>2, <1>5, <1>6
  <2> QED BY <1>1, <1>2, <1>3, <1>4, <2>1, Zenon DEF CaptureTypes
<1>8. MouseFollows'
  <2>1. Leads(Append(input_queue, e), "left", mouse.left, hand'.left) <=> e.down = hand'.left
    BY <1>2, <1>5, LeadsAppended, Zenon
  <2> QED BY <1>2, <1>5, <1>6, <2>1, Zenon DEF MouseFollows
<1>9. SurfaceFollows' /\ ButtonComesUp' /\ KeyComesUp'
  BY <1>2, <1>3, <1>4, SurfaceRests, ButtonRests, KeyRests, Zenon DEF HandInv
<1>10. OneMode'
  BY <1>2, Zenon DEF HandInv, OneMode
<1> QED BY <1>4, <1>7, <1>8, <1>9, <1>10, NotSettled, Zenon DEF HandInv

LEMMA MoveKeeps == ASSUME HandInv, Move PROVE HandInv'
<1>1. CaptureTypes
  BY Zenon DEF HandInv
<1>2. PICK spot \in Spots :
        /\ Act([hand EXCEPT !.spot = spot])
        /\ input_queue' = Append(input_queue, Item("at", FALSE, spot))
        /\ IF Drags(spot)
           THEN /\ surface' = [surface EXCEPT !.spot = spot]
                /\ Sends(<<Item("touch", TRUE, spot)>>)
           ELSE UNCHANGED <<surface, to_phone>>
        /\ seen_by' = Unsettled(seen_by)
        /\ UNCHANGED <<mouse, tab, typing, pointer, observing, ring, phone>>
  BY DEF Move
<1>3. /\ hand \in HandState /\ seen_by \in SeenBy /\ input_queue \in Seq(Inputs)
      /\ surface \in SurfaceState /\ to_phone \in Seq(OfKinds(SentKinds))
      /\ spot \in Nat
  BY <1>1 DEF CaptureTypes, Spots
<1>4. hand' \in HandState /\ hand'.key = hand.key /\ hand'.left = hand.left
  <2> DEFINE change == [hand EXCEPT !.spot = spot]
  <2>1. change \in HandState /\ change.key = hand.key /\ change.left = hand.left
    BY <1>3 DEF HandState
  <2>2. Act(change)
    BY <1>2
  <2> HIDE DEF change
  <2> QED BY <2>1, <2>2, Acted
<1>5. seen_by' \in SeenBy /\ seen_by'.unheard = seen_by.unheard /\ seen_by'.slipped = seen_by.slipped
      /\ seen_by'.lost_up = seen_by.lost_up /\ ~seen_by'.settled
  BY <1>2, <1>3, UnsettledIs
<1> DEFINE e == Item("at", FALSE, spot)
           t == Item("touch", TRUE, spot)
<1>6. /\ e \in Inputs /\ e.what = "at" /\ t \in Inputs /\ t.what = "touch"
  BY <1>3 DEF Item, Inputs
<1>7. input_queue' = Append(input_queue, e) /\ (Drags(spot) => Sends(<<t>>))
  BY <1>2
<1> HIDE DEF e, t
<1>8. /\ surface' \in SurfaceState
      /\ surface'.touching = surface.touching /\ surface'.button = surface.button
      /\ surface'.captured = surface.captured /\ surface'.pressed = surface.pressed
  <2>1. CASE Drags(spot)
    <3>1. surface' = [surface EXCEPT !.spot = spot]
      BY <1>2, <2>1, Zenon
    <3> QED BY <1>3, <3>1 DEF SurfaceState
  <2>2. CASE ~Drags(spot)
    <3>1. surface' = surface
      BY <1>2, <2>2, Zenon
    <3> QED BY <1>3, <3>1
  <2> QED BY <2>1, <2>2
<1>9. /\ to_phone' \in Seq(OfKinds(SentKinds))
      /\ \A what \in {"left", "key"} : \A x, y : Leads(to_phone, what, x, y) => Leads(to_phone', what, x, y)
      /\ Still(to_phone', "left") => Still(to_phone, "left")
      /\ pointer = "mouse" => to_phone' = to_phone
  <2>1. CASE Drags(spot)
    <3>1. t \in OfKinds({"touch"}) /\ t \in OfKinds(SentKinds)
      BY <1>6 DEF OfKinds, SentKinds
    <3>2. <<t>> \in Seq(OfKinds({"touch"})) /\ <<t>> \in Seq(OfKinds(SentKinds))
      BY <3>1
    <3>3. "left" \notin {"touch"} /\ "key" \notin {"touch"}
      OBVIOUS
    <3>4. \A y : Leads(<<t>>, "left", y, y) /\ Leads(<<t>>, "key", y, y)
      BY <3>2, <3>3, OtherKinds
    <3>5. pointer # "mouse"
      BY <2>1 DEF Drags
    <3>6. /\ to_phone' \in Seq(OfKinds(SentKinds))
          /\ \A what \in {"left", "key"} : \A x, y, z :
               Leads(to_phone, what, x, y) /\ Leads(<<t>>, what, y, z) => Leads(to_phone', what, x, z)
          /\ Still(to_phone', "left") => Still(to_phone, "left") /\ Still(<<t>>, "left")
      BY <1>1, <1>7, <2>1, <3>2, SentLeads, Zenon
    <3>7. \A what \in {"left", "key"} : what = "left" \/ what = "key"
      OBVIOUS
    <3> QED BY <3>4, <3>5, <3>6, <3>7, Zenon
  <2>2. CASE ~Drags(spot)
    <3>1. to_phone' = to_phone
      BY <1>2, <2>2, Zenon
    <3> QED BY <1>3, <3>1
  <2> QED BY <2>1, <2>2
<1>10. CaptureTypes'
  <2>1. input_queue' \in Seq(Inputs)
    BY <1>3, <1>6, <1>7
  <2> QED BY <1>1, <1>2, <1>4, <1>5, <1>8, <1>9, <2>1, Zenon DEF CaptureTypes
<1>11. MouseFollows'
  <2>1. e.what # "left"
    BY <1>6
  <2>2. Leads(Append(input_queue, e), "left", mouse.left, hand.left)
          <=> Leads(input_queue, "left", mouse.left, hand.left)
    BY <1>3, <1>6, <2>1, LeadsAppended, Zenon
  <2> QED BY <1>2, <1>4, <1>7, <2>2, Zenon DEF HandInv, MouseFollows
<1>12. SurfaceFollows' /\ ButtonComesUp' /\ KeyComesUp'
  <2>1. "left" \in {"left", "key"} /\ "key" \in {"left", "key"}
    OBVIOUS
  <2> QED BY <1>2, <1>4, <1>5, <1>8, <1>9, <2>1, SurfaceRests, ButtonRests, KeyRests, Zenon DEF HandInv
<1>13. OneMode'
  BY <1>2, <1>8, <1>9, Zenon DEF HandInv, OneMode
<1> QED BY <1>5, <1>10, <1>11, <1>12, <1>13, NotSettled, Zenon DEF HandInv

\* A step that sends releases, lets go of the pointer, or neither.
LEMMA UpsKeep ==
  ASSUME CaptureTypes, OneMode, NEW button \in BOOLEAN, NEW key \in BOOLEAN,
         Sends(Ups(button, key))
  PROVE  /\ to_phone' \in Seq(OfKinds(SentKinds))
         /\ \A x, y : Leads(to_phone, "left", x, y)
                        => Leads(to_phone', "left", x, IF button THEN FALSE ELSE y)
         /\ \A x, y : Leads(to_phone, "key", x, y)
                        => Leads(to_phone', "key", x, IF key THEN FALSE ELSE y)
         /\ Still(to_phone', "left") => Still(to_phone, "left") /\ ~button
         /\ pointer = "mouse" => to_phone' \in Seq(OfKinds({"left", "key"}))
<1> DEFINE u == Ups(button, key)
<1>1. /\ u \in Seq(OfKinds({"left", "key"}))
      /\ \A x : Leads(u, "left", x, IF button THEN FALSE ELSE x)
      /\ \A x : Leads(u, "key", x, IF key THEN FALSE ELSE x)
      /\ button => ~Still(u, "left")
  BY UpsLead
<1>2. Sends(u)
  OBVIOUS
<1> HIDE DEF u
<1>3. u \in Seq(OfKinds(SentKinds))
  BY <1>1, ButtonsAndKeysAreSent
<1>4. /\ to_phone' \in Seq(OfKinds(SentKinds))
      /\ \A what \in {"left", "key"} : \A x, y, z :
           Leads(to_phone, what, x, y) /\ Leads(u, what, y, z) => Leads(to_phone', what, x, z)
      /\ Still(to_phone', "left") => Still(to_phone, "left") /\ Still(u, "left")
  BY <1>2, <1>3, SentLeads, Zenon
<1>5. "left" \in {"left", "key"} /\ "key" \in {"left", "key"}
  OBVIOUS
<1>6. pointer = "mouse" => to_phone' \in Seq(OfKinds({"left", "key"}))
  BY <1>1, <1>2, SentInMouseMode, Zenon DEF OneMode
<1>7. \A x, y : Leads(to_phone, "left", x, y)
                  => Leads(to_phone', "left", x, IF button THEN FALSE ELSE y)
  BY <1>1, <1>4, <1>5, Zenon
<1>8. \A x, y : Leads(to_phone, "key", x, y)
                  => Leads(to_phone', "key", x, IF key THEN FALSE ELSE y)
  BY <1>1, <1>4, <1>5, Zenon
<1> QED BY <1>1, <1>4, <1>6, <1>7, <1>8, Zenon

LEMMA UpsAre ==
  /\ \A button \in BOOLEAN :
       Ups(button, FALSE) = IF button THEN <<Item("left", FALSE, 0)>> ELSE <<>>
  /\ \A key \in BOOLEAN : Ups(FALSE, key) = IF key THEN <<Item("key", FALSE, 0)>> ELSE <<>>
<1> DEFINE u == Item("left", FALSE, 0)
           v == Item("key", FALSE, 0)
<1>1. u \in Inputs /\ v \in Inputs
  BY DEF Item, Inputs
<1>2. \A button, key : Ups(button, key) = (IF button THEN <<u>> ELSE <<>>) \o (IF key THEN <<v>> ELSE <<>>)
  BY DEF Ups
<1> HIDE DEF u, v
<1>3. <<u>> \in Seq(Inputs) /\ <<v>> \in Seq(Inputs) /\ <<>> \in Seq(Inputs)
  BY <1>1
<1>4. <<u>> \o <<>> = <<u>> /\ <<>> \o <<v>> = <<v>> /\ <<>> \o <<>> = <<>>
  BY <1>3, ConcatEmptySeq
<1>5. \A button \in BOOLEAN : Ups(button, FALSE) = IF button THEN <<u>> ELSE <<>>
  BY <1>2, <1>4
<1>6. \A key \in BOOLEAN : Ups(FALSE, key) = IF key THEN <<v>> ELSE <<>>
  BY <1>2, <1>4
<1> QED BY <1>5, <1>6 DEF u, v

LEMMA NoPress ==
  ASSUME NEW s \in Seq(Inputs), \A m \in 1..Len(s) : ~(s[m].what = "left" /\ s[m].down)
  PROVE  Leads(s, "left", FALSE, FALSE)
<1>1. PICK d \in BOOLEAN : Leads(s, "left", FALSE, d)
  BY LeadsSomewhere
<1>2. CASE d = TRUE
  <2>1. \/ \E k \in 1..Len(s) : s[k].what = "left" /\ s[k].down = TRUE
        \/ FALSE = TRUE
    BY <1>1, <1>2, Zenon DEF Leads, LeadsUpTo
  <2> QED BY <2>1
<1>3. CASE d = FALSE
  BY <1>1, <1>3
<1> QED BY <1>2, <1>3

LEMMA InEither ==
  ASSUME NEW s \in Seq(Inputs), NEW t \in Seq(Inputs)
  PROVE  /\ \A m \in 1..Len(s) : s[m] \in ToSet(s \o t)
         /\ \A m \in 1..Len(t) : t[m] \in ToSet(s \o t)
<1>1. /\ s \o t \in Seq(Inputs) /\ Len(s \o t) = Len(s) + Len(t)
      /\ \A i \in 1..(Len(s) + Len(t)) : (s \o t)[i] = IF i <= Len(s) THEN s[i] ELSE t[i - Len(s)]
  BY ConcatProperties
<1>2. Len(s) \in Nat /\ Len(t) \in Nat /\ DOMAIN (s \o t) = 1..(Len(s) + Len(t))
  BY <1>1
<1> DEFINE w == s \o t
<1>3. ToSet(w) = {w[i] : i \in DOMAIN w}
  BY DEF ToSet
<1>4. ASSUME NEW m \in 1..Len(s) PROVE s[m] \in ToSet(w)
  <2>1. m \in 1..(Len(s) + Len(t)) /\ m <= Len(s)
    BY <1>2
  <2>2. w[m] = s[m] /\ m \in DOMAIN w
    BY <1>1, <1>2, <2>1
  <2> HIDE DEF w
  <2> QED BY <1>3, <2>2
<1>5. ASSUME NEW m \in 1..Len(t) PROVE t[m] \in ToSet(w)
  <2>1. m + Len(s) \in 1..(Len(s) + Len(t)) /\ ~(m + Len(s) <= Len(s)) /\ (m + Len(s)) - Len(s) = m
    BY <1>2
  <2>2. w[m + Len(s)] = t[m] /\ m + Len(s) \in DOMAIN w
    BY <1>1, <1>2, <2>1
  <2> HIDE DEF w
  <2> QED BY <1>3, <2>2
<1> QED BY <1>4, <1>5

LEMMA LetGoIs ==
  ASSUME NEW s \in SurfaceState
  PROVE  /\ LetGo(s) \in SurfaceState /\ ~LetGo(s).captured
         /\ LetGo(s).touching = s.touching /\ LetGo(s).pressed = s.pressed
         /\ s.captured => ~LetGo(s).button
         /\ ~s.captured => LetGo(s) = s
  BY DEF LetGo, SurfaceState

\* The pointer is let go of: what the window shows of the button is again what the phone
\* will be told.
LEMMA LetGoKeeps ==
  ASSUME CaptureTypes, SurfaceFollows, ButtonComesUp, OneMode, NEW key \in BOOLEAN,
         surface' = LetGo(surface), Sends(Ups(surface.captured /\ surface.button, key)),
         UNCHANGED <<ring, phone, pointer>>, seen_by'.unheard = seen_by.unheard,
         seen_by.slipped => seen_by'.slipped, PressUnreported => seen_by'.slipped
  PROVE  /\ SurfaceFollows' /\ ButtonComesUp' /\ OneMode'
         /\ to_phone' \in Seq(OfKinds(SentKinds))
         /\ surface' \in SurfaceState /\ surface'.pressed = surface.pressed
         /\ \A x, y : Leads(to_phone, "key", x, y)
                        => Leads(to_phone', "key", x, IF key THEN FALSE ELSE y)
<1> DEFINE button == surface.captured /\ surface.button
<1>1. /\ surface \in SurfaceState /\ ring \in Seq(Inputs) /\ to_phone \in Seq(Inputs)
      /\ surface.captured \in BOOLEAN /\ surface.button \in BOOLEAN
  BY OfKindsAreInputs DEF CaptureTypes, SurfaceState
<1>2. /\ surface' \in SurfaceState /\ ~surface'.captured
      /\ surface'.touching = surface.touching /\ surface'.pressed = surface.pressed
      /\ surface.captured => ~surface'.button
      /\ ~surface.captured => surface' = surface
  BY <1>1, LetGoIs
<1>3. button \in BOOLEAN /\ Sends(Ups(button, key))
  BY <1>1
<1>4. button <=> surface.captured /\ surface.button
  OBVIOUS
<1> HIDE DEF button
<1>5. /\ to_phone' \in Seq(OfKinds(SentKinds))
      /\ \A x, y : Leads(to_phone, "left", x, y)
                     => Leads(to_phone', "left", x, IF button THEN FALSE ELSE y)
      /\ \A x, y : Leads(to_phone, "key", x, y)
                     => Leads(to_phone', "key", x, IF key THEN FALSE ELSE y)
      /\ Still(to_phone', "left") => Still(to_phone, "left") /\ ~button
      /\ pointer = "mouse" => to_phone' \in Seq(OfKinds({"left", "key"}))
  BY <1>3, UpsKeep
<1>6. SurfaceFollows'
  <2>1. ASSUME ~button PROVE surface'.button = surface.button
    <3>1. CASE surface.captured
      <4>1. surface'.button = FALSE /\ surface.button = FALSE
        BY <1>1, <1>2, <1>4, <2>1, <3>1 DEF SurfaceState
      <4> QED BY <4>1
    <3>2. CASE ~surface.captured
      BY <1>2, <3>2
    <3> QED BY <3>1, <3>2
  <2>2. Still(to_phone', "left") => Still(to_phone, "left") /\ surface'.button = surface.button
    BY <1>5, <2>1, Zenon
  <2> QED BY <1>2, <2>2, SurfaceRests, Zenon
<1>7. ButtonComesUp'
  <2> SUFFICES ASSUME ~seen_by.unheard, ~seen_by.slipped, ~PressUnreported
               PROVE  \E y \in BOOLEAN : Leads(ring, "left", surface'.button, y)
                                         /\ Leads(to_phone', "left", y, FALSE)
    BY Zenon DEF ButtonComesUp
  <2>1. surface'.button \in BOOLEAN
    BY <1>2 DEF SurfaceState
  <2>2. CASE surface.captured /\ surface.button
    <3>1. PICK y \in BOOLEAN : Leads(ring, "left", surface'.button, y)
      BY <1>1, <2>1, LeadsSomewhere
    <3>2. PICK z \in BOOLEAN : Leads(to_phone, "left", y, z)
      BY <1>1, LeadsSomewhere
    <3>3. Leads(to_phone', "left", y, FALSE)
      BY <1>4, <1>5, <2>2, <3>2, Zenon
    <3> QED BY <3>1, <3>3
  <2>3. CASE surface.captured /\ ~surface.button
    <3>1. \A item \in ToSet(to_phone \o ring) : ~(item.what = "left" /\ item.down)
      BY <2>3, Zenon DEF PressUnreported
    <3>2. /\ \A m \in 1..Len(to_phone) : ~(to_phone[m].what = "left" /\ to_phone[m].down)
          /\ \A m \in 1..Len(ring) : ~(ring[m].what = "left" /\ ring[m].down)
      BY <1>1, <3>1, InEither, Zenon
    <3>3. Leads(to_phone, "left", FALSE, FALSE) /\ Leads(ring, "left", FALSE, FALSE)
      BY <1>1, <3>2, NoPress
    <3>4. surface'.button = FALSE
      BY <1>2, <2>1, <2>3
    <3>5. Leads(to_phone', "left", FALSE, FALSE)
      BY <1>4, <1>5, <2>3, <3>3, Zenon
    <3> QED BY <3>3, <3>4, <3>5
  <2>4. CASE ~surface.captured
    <3>1. PICK y \in BOOLEAN : Leads(ring, "left", surface.button, y) /\ Leads(to_phone, "left", y, FALSE)
      BY <2>4, Zenon DEF ButtonComesUp
    <3>2. Leads(to_phone', "left", y, FALSE)
      BY <1>5, <3>1, Zenon
    <3> QED BY <1>2, <2>4, <3>1, <3>2
  <2> QED BY <1>1, <2>2, <2>3, <2>4
<1>8. OneMode'
  BY <1>2, <1>5, Zenon DEF OneMode
<1> QED BY <1>2, <1>5, <1>6, <1>7, <1>8

LEMMA TypeKeeps == ASSUME HandInv, Type PROVE HandInv'
<1>1. CaptureTypes /\ OneMode
  BY Zenon DEF HandInv
<1>2. /\ hand \in HandState /\ seen_by \in SeenBy /\ surface \in SurfaceState
      /\ to_phone \in Seq(OfKinds(SentKinds)) /\ typing \in BOOLEAN
      /\ UNCHANGED <<input_queue, mouse, tab, typing, pointer, observing, ring, phone>>
  BY DEF HandInv, CaptureTypes, Type, frameState
<1>3. hand' \in HandState /\ hand'.left = hand.left /\ hand'.key = (~hand.key)
  <2> DEFINE change == [hand EXCEPT !.key = ~@]
  <2>1. change \in HandState /\ change.left = hand.left /\ change.key = (~hand.key)
    BY <1>2 DEF HandState
  <2>2. Act(change)
    BY DEF Type
  <2> HIDE DEF change
  <2> QED BY <2>1, <2>2, Acted
<1>4. MouseFollows'
  BY <1>2, <1>3, Zenon DEF HandInv, MouseFollows
<1>5. CASE hand.key
  <2>1. /\ Sends(IF typing THEN <<>> ELSE <<Item("key", FALSE, 0)>>)
        /\ seen_by' = Unsettled([seen_by EXCEPT !.lost_up = typing \/ surface.pressed > 0])
        /\ surface' = surface
    BY <1>5 DEF Type, KeyUp
  <2> DEFINE lost == typing \/ surface.pressed > 0
             sb == [seen_by EXCEPT !.lost_up = lost]
             key == ~typing
  <2>2. /\ sb \in SeenBy /\ sb.unheard = seen_by.unheard /\ sb.slipped = seen_by.slipped
        /\ sb.lost_up = lost
    BY <1>2 DEF SeenBy
  <2>3. seen_by' = Unsettled(sb)
    BY <2>1
  <2>4. key \in BOOLEAN /\ (IF typing THEN <<>> ELSE <<Item("key", FALSE, 0)>>)
                            = (IF key THEN <<Item("key", FALSE, 0)>> ELSE <<>>)
    BY <1>2
  <2>5. Sends(Ups(FALSE, key))
    <3>1. key \in BOOLEAN
      BY <1>2
    <3> HIDE DEF key
    <3> QED BY <2>1, <2>4, <3>1, UpsAre
  <2>6. key <=> ~typing
    OBVIOUS
  <2> HIDE DEF sb, key
  <2>7. /\ seen_by' \in SeenBy /\ seen_by'.unheard = seen_by.unheard
        /\ seen_by'.slipped = seen_by.slipped /\ seen_by'.lost_up = lost /\ ~seen_by'.settled
    BY <2>2, <2>3, UnsettledIs
  <2>8. FALSE \in BOOLEAN /\ key \in BOOLEAN
    BY <2>4
  <2>9. /\ to_phone' \in Seq(OfKinds(SentKinds))
        /\ \A x, y : Leads(to_phone, "left", x, y) => Leads(to_phone', "left", x, y)
        /\ \A x, y : Leads(to_phone, "key", x, y)
                       => Leads(to_phone', "key", x, IF key THEN FALSE ELSE y)
        /\ Still(to_phone', "left") => Still(to_phone, "left")
        /\ pointer = "mouse" => to_phone' \in Seq(OfKinds({"left", "key"}))
    BY <1>1, <2>5, <2>8, UpsKeep
  <2>10. CaptureTypes'
    BY <1>1, <1>2, <1>3, <2>1, <2>7, <2>9, Zenon DEF CaptureTypes
  <2>11. SurfaceFollows'
    BY <1>2, <2>1, <2>7, <2>9, SurfaceRests, Zenon DEF HandInv
  <2>12. ButtonComesUp'
    BY <2>1, <1>2, <2>7, <2>9, ButtonRests, Zenon DEF HandInv
  <2>13. KeyComesUp'
    <3> SUFFICES ASSUME ~seen_by'.lost_up
                 PROVE  surface.pressed = 0 /\ Leads(to_phone', "key", phone.key, FALSE)
      BY <1>2, <2>1, Zenon DEF KeyComesUp
    <3>1. ~typing /\ ~(surface.pressed > 0)
      BY <2>7
    <3>2. surface.pressed = 0
      BY <1>2, <3>1 DEF SurfaceState
    <3>3. phone.key \in BOOLEAN /\ to_phone \in Seq(Inputs)
      BY <1>1, <1>2, OfKindsAreInputs DEF CaptureTypes, PhoneState
    <3>4. PICK y \in BOOLEAN : Leads(to_phone, "key", phone.key, y)
      BY <3>3, LeadsSomewhere
    <3>5. Leads(to_phone', "key", phone.key, FALSE)
      BY <2>6, <2>9, <3>1, <3>4, Zenon
    <3> QED BY <3>2, <3>5
  <2>14. OneMode'
    BY <1>1, <1>2, <2>1, <2>9, Zenon DEF OneMode
  <2> QED BY <1>4, <2>7, <2>10, <2>11, <2>12, <2>13, <2>14, NotSettled, Zenon DEF HandInv
<1>6. CASE ~hand.key
  <2>1. /\ surface' = [surface EXCEPT !.pressed = IF typing \/ tab # "live" THEN @ ELSE @ + 1]
        /\ seen_by' = Unsettled(seen_by) /\ to_phone' = to_phone
    BY <1>6 DEF Type
  <2>2. /\ seen_by' \in SeenBy /\ seen_by'.unheard = seen_by.unheard
        /\ seen_by'.slipped = seen_by.slipped /\ ~seen_by'.settled
    BY <1>2, <2>1, UnsettledIs
  <2>3. /\ surface' \in SurfaceState /\ surface'.touching = surface.touching
        /\ surface'.button = surface.button /\ surface'.captured = surface.captured
    <3> DEFINE p == IF typing \/ tab # "live" THEN surface.pressed ELSE surface.pressed + 1
    <3>1. p \in Nat
      BY <1>2 DEF SurfaceState
    <3>2. surface' = [surface EXCEPT !.pressed = p]
      BY <2>1
    <3> HIDE DEF p
    <3> QED BY <1>2, <3>1, <3>2 DEF SurfaceState
  <2>4. CaptureTypes'
    BY <1>1, <1>2, <1>3, <2>1, <2>2, <2>3, Zenon DEF CaptureTypes
  <2>5. SurfaceFollows' /\ ButtonComesUp'
    BY <1>2, <2>1, <2>2, <2>3, SurfaceRests, ButtonRests, Zenon DEF HandInv
  <2>6. hand'.key
    BY <1>3, <1>6
  <2>7. KeyComesUp' /\ OneMode'
    BY <1>1, <1>2, <2>1, <2>3, <2>6, Zenon DEF KeyComesUp, OneMode
  <2> QED BY <1>4, <2>2, <2>4, <2>5, <2>7, NotSettled, Zenon DEF HandInv
<1> QED BY <1>5, <1>6

LEMMA ReleaseKeyKeeps == ASSUME HandInv, ReleaseKey PROVE HandInv'
<1>1. CaptureTypes /\ OneMode /\ SurfaceFollows /\ ButtonComesUp /\ KeyComesUp
  BY Zenon DEF HandInv
<1>2. /\ hand \in HandState /\ seen_by \in SeenBy /\ surface \in SurfaceState
      /\ to_phone \in Seq(OfKinds(SentKinds))
      /\ surface.captured /\ surface' = LetGo(surface) /\ Sends(ButtonUps(surface))
      /\ UNCHANGED <<input_queue, mouse, tab, typing, pointer, observing, ring, phone>>
  BY DEF HandInv, CaptureTypes, ReleaseKey, frameState
<1>3. hand' \in HandState /\ hand'.left = hand.left /\ hand'.key = hand.key
  BY <1>2, Acted DEF ReleaseKey
<1> DEFINE slips == seen_by.slipped \/ PressUnreported
           sb == [seen_by EXCEPT !.slipped = slips]
<1>4. /\ sb \in SeenBy /\ sb.unheard = seen_by.unheard /\ sb.lost_up = seen_by.lost_up
      /\ sb.slipped = slips
  <2>1. slips \in BOOLEAN
    BY <1>2 DEF SeenBy
  <2> HIDE DEF slips
  <2> QED BY <1>2, <2>1 DEF SeenBy
<1>5. seen_by' = Unsettled(sb)
  BY DEF ReleaseKey
<1> HIDE DEF sb
<1>6. /\ seen_by' \in SeenBy /\ seen_by'.unheard = seen_by.unheard
      /\ seen_by'.lost_up = seen_by.lost_up /\ seen_by'.slipped = slips /\ ~seen_by'.settled
  <2> HIDE DEF slips
  <2> QED BY <1>4, <1>5, UnsettledIs
<1>7. (seen_by.slipped => seen_by'.slipped) /\ (PressUnreported => seen_by'.slipped)
  BY <1>6, Zenon
<1>8. Sends(Ups(surface.captured /\ surface.button, FALSE))
  <2> DEFINE button == surface.captured /\ surface.button
  <2>1. button \in BOOLEAN /\ ButtonUps(surface) = IF button THEN <<Item("left", FALSE, 0)>> ELSE <<>>
    BY DEF ButtonUps
  <2> HIDE DEF button
  <2>2. Ups(button, FALSE) = ButtonUps(surface)
    BY <2>1, UpsAre
  <2> QED BY <1>2, <2>2, Zenon DEF button
<1>9. /\ SurfaceFollows' /\ ButtonComesUp' /\ OneMode'
      /\ to_phone' \in Seq(OfKinds(SentKinds))
      /\ surface' \in SurfaceState /\ surface'.pressed = surface.pressed
      /\ \A x, y : Leads(to_phone, "key", x, y) => Leads(to_phone', "key", x, y)
  <2>1. FALSE \in BOOLEAN
    OBVIOUS
  <2> HIDE DEF slips
  <2> QED BY <1>1, <1>2, <1>6, <1>7, <1>8, <2>1, LetGoKeeps
<1>10. CaptureTypes'
  BY <1>1, <1>2, <1>3, <1>6, <1>9, Zenon DEF CaptureTypes
<1>11. MouseFollows' /\ KeyComesUp'
  BY <1>1, <1>2, <1>3, <1>6, <1>9, KeyRests, Zenon DEF HandInv, MouseFollows
<1> QED BY <1>6, <1>9, <1>10, <1>11, NotSettled, Zenon DEF HandInv

LEMMA FocusLostKeeps == ASSUME HandInv, FocusLost PROVE HandInv'
<1>1. CaptureTypes /\ OneMode /\ SurfaceFollows /\ ButtonComesUp /\ KeyComesUp /\ MouseFollows
  BY Zenon DEF HandInv
<1>2. /\ hand \in HandState /\ seen_by \in SeenBy /\ surface \in SurfaceState
      /\ to_phone \in Seq(OfKinds(SentKinds)) /\ typing \in BOOLEAN /\ input_queue \in Seq(Inputs)
      /\ surface' = LetGo(surface)
      /\ Sends(ButtonUps(surface)
               \o IF hand.key /\ ~typing THEN <<Item("key", FALSE, 0)>> ELSE <<>>)
      /\ input_queue' = IF hand.left THEN Append(input_queue, Item("left", FALSE, 0)) ELSE input_queue
      /\ UNCHANGED <<mouse, tab, typing, pointer, observing, ring, phone>>
  BY DEF HandInv, CaptureTypes, FocusLost
<1>3. hand' \in HandState /\ hand'.left = FALSE /\ hand'.key = FALSE
  <2> DEFINE change == [hand EXCEPT !.left = FALSE, !.key = FALSE]
  <2>1. change \in HandState /\ change.left = FALSE /\ change.key = FALSE
    BY <1>2 DEF HandState
  <2>2. Act(change)
    BY DEF FocusLost
  <2> HIDE DEF change
  <2> QED BY <2>1, <2>2, Acted
<1> DEFINE slips == seen_by.slipped \/ PressUnreported
           lost == IF hand.key THEN typing \/ surface.pressed > 0 ELSE seen_by.lost_up
           sb == [seen_by EXCEPT !.slipped = slips, !.lost_up = lost]
           key == hand.key /\ ~typing
<1>4. /\ sb \in SeenBy /\ sb.unheard = seen_by.unheard /\ sb.lost_up = lost
      /\ sb.slipped = slips
  <2>1. slips \in BOOLEAN /\ lost \in BOOLEAN
    BY <1>2 DEF SeenBy
  <2> HIDE DEF slips, lost
  <2> QED BY <1>2, <2>1 DEF SeenBy
<1>5. seen_by' = Unsettled(sb)
  BY DEF FocusLost
<1> HIDE DEF sb
<1>6. /\ seen_by' \in SeenBy /\ seen_by'.unheard = seen_by.unheard
      /\ seen_by'.lost_up = lost /\ seen_by'.slipped = slips /\ ~seen_by'.settled
  <2> HIDE DEF slips, lost
  <2> QED BY <1>4, <1>5, UnsettledIs
<1>7. (seen_by.slipped => seen_by'.slipped) /\ (PressUnreported => seen_by'.slipped)
  BY <1>6, Zenon
<1>8. key \in BOOLEAN /\ (key <=> hand.key /\ ~typing)
  OBVIOUS
<1>9. Sends(Ups(surface.captured /\ surface.button, key))
  <2>1. Ups(surface.captured /\ surface.button, key)
          = ButtonUps(surface) \o IF key THEN <<Item("key", FALSE, 0)>> ELSE <<>>
    BY DEF Ups, ButtonUps
  <2> QED BY <1>2, <2>1, Zenon
<1> HIDE DEF key
<1>10. /\ SurfaceFollows' /\ ButtonComesUp' /\ OneMode'
       /\ to_phone' \in Seq(OfKinds(SentKinds))
       /\ surface' \in SurfaceState /\ surface'.pressed = surface.pressed
       /\ \A x, y : Leads(to_phone, "key", x, y)
                      => Leads(to_phone', "key", x, IF key THEN FALSE ELSE y)
  <2> HIDE DEF slips, lost
  <2> QED BY <1>1, <1>2, <1>6, <1>7, <1>8, <1>9, LetGoKeeps
<1> DEFINE e == Item("left", FALSE, 0)
<1>11. e \in Inputs /\ e.what = "left" /\ e.down = FALSE
  BY DEF Item, Inputs
<1>12. input_queue' = IF hand.left THEN Append(input_queue, e) ELSE input_queue
  BY <1>2
<1> HIDE DEF e
<1>13. CaptureTypes'
  <2>1. input_queue' \in Seq(Inputs)
    <3>1. input_queue \in Seq(Inputs) /\ Append(input_queue, e) \in Seq(Inputs)
      BY <1>2, <1>11
    <3> QED BY <1>12, <3>1, Zenon
  <2> QED BY <1>1, <1>2, <1>3, <1>6, <1>10, <2>1, Zenon DEF CaptureTypes
<1>14. MouseFollows'
  <2>1. CASE hand.left
    <3>1. Leads(Append(input_queue, e), "left", mouse.left, FALSE) <=> e.down = FALSE
      BY <1>2, <1>11, LeadsAppended, Zenon
    <3>2. input_queue' = Append(input_queue, e)
      BY <1>12, <2>1
    <3> QED BY <1>2, <1>3, <1>11, <3>1, <3>2, Zenon DEF MouseFollows
  <2>2. CASE ~hand.left
    <3>1. hand.left = FALSE /\ input_queue' = input_queue
      BY <1>2, <1>12, <2>2 DEF HandState
    <3> QED BY <1>1, <1>2, <1>3, <3>1, Zenon DEF MouseFollows
  <2> QED BY <2>1, <2>2
<1>15. KeyComesUp'
  <2> SUFFICES ASSUME ~seen_by'.lost_up
               PROVE  surface'.pressed = 0 /\ Leads(to_phone', "key", phone.key, FALSE)
    BY <1>2, Zenon DEF KeyComesUp
  <2>1. ~lost
    BY <1>6, Zenon
  <2>2. CASE hand.key
    <3>1. ~typing /\ ~(surface.pressed > 0)
      BY <2>1, <2>2
    <3>2. surface'.pressed = 0
      BY <1>2, <1>10, <3>1 DEF SurfaceState
    <3>3. phone.key \in BOOLEAN /\ to_phone \in Seq(Inputs)
      BY <1>1, <1>2, OfKindsAreInputs DEF CaptureTypes, PhoneState
    <3>4. PICK y \in BOOLEAN : Leads(to_phone, "key", phone.key, y)
      BY <3>3, LeadsSomewhere
    <3>5. Leads(to_phone', "key", phone.key, FALSE)
      BY <1>8, <1>10, <2>2, <3>1, <3>4, Zenon
    <3> QED BY <3>2, <3>5
  <2>3. CASE ~hand.key
    <3>1. ~seen_by.lost_up
      BY <2>1, <2>3
    <3>2. surface.pressed = 0 /\ Leads(to_phone, "key", phone.key, FALSE)
      BY <1>1, <2>3, <3>1, Zenon DEF KeyComesUp
    <3>3. Leads(to_phone', "key", phone.key, FALSE)
      BY <1>8, <1>10, <2>3, <3>2, Zenon
    <3> QED BY <1>10, <3>2, <3>3
  <2> QED BY <2>2, <2>3
<1> QED BY <1>6, <1>10, <1>13, <1>14, <1>15, NotSettled, Zenon DEF HandInv

\* A turn of the tab, or a text field.
LEMMA TurnKeeps ==
  ASSUME HandInv, (\E t \in Tabs : TurnTo(t)) \/ EditText
  PROVE  HandInv'
<1>1. CaptureTypes /\ OneMode /\ SurfaceFollows /\ ButtonComesUp /\ KeyComesUp /\ MouseFollows
  BY Zenon DEF HandInv
<1>2. /\ seen_by' = Unsettled(seen_by) /\ Act(hand)
      /\ UNCHANGED <<input_queue, mouse, pointer, surface, to_phone, observing, ring, phone>>
      /\ typing' = FALSE \/ typing' = ~typing
  <2>1. CASE EditText
    BY <2>1 DEF EditText, frameState
  <2>2. CASE \E t \in Tabs : TurnTo(t)
    BY <2>2 DEF TurnTo, frameState
  <2> QED BY <2>1, <2>2
<1>3. hand \in HandState /\ seen_by \in SeenBy /\ typing \in BOOLEAN
  BY <1>1, Zenon DEF CaptureTypes
<1>4. hand' \in HandState /\ hand'.left = hand.left /\ hand'.key = hand.key
  BY <1>2, <1>3, Acted
<1>5. /\ seen_by' \in SeenBy /\ seen_by'.unheard = seen_by.unheard /\ seen_by'.slipped = seen_by.slipped
      /\ seen_by'.lost_up = seen_by.lost_up /\ ~seen_by'.settled
  BY <1>2, <1>3, UnsettledIs
<1>6. typing' \in BOOLEAN
  BY <1>2
<1>7. CaptureTypes'
  BY <1>1, <1>2, <1>4, <1>5, <1>6, Zenon DEF CaptureTypes
<1>8. SurfaceFollows' /\ ButtonComesUp' /\ KeyComesUp' /\ MouseFollows' /\ OneMode'
  BY <1>1, <1>2, <1>4, <1>5, SurfaceRests, ButtonRests, KeyRests, Zenon DEF MouseFollows, OneMode
<1> QED BY <1>5, <1>7, <1>8, NotSettled, Zenon DEF HandInv

-----------------------------------------------------------------------------
(* What the worker and the frames do                                       *)

LEMMA PumpInputKeeps == ASSUME HandInv, PumpInput PROVE HandInv'
<1>1. CaptureTypes /\ OneMode /\ SurfaceFollows /\ ButtonComesUp /\ KeyComesUp /\ MouseFollows
  BY Zenon DEF HandInv
<1> DEFINE item == Head(to_phone)
<1>2. /\ to_phone # <<>>
      /\ phone' = CASE item.what = "touch" -> [phone EXCEPT !.touch = item.down]
                    [] item.what = "left"  -> [phone EXCEPT !.left = item.down]
                    [] item.what = "key"   -> [phone EXCEPT !.key = item.down]
      /\ ring' = IF observing THEN Append(ring, item) ELSE ring
      /\ seen_by' = [seen_by EXCEPT !.unheard = @ \/ (~observing /\ item.what # "key")]
      /\ to_phone' = Tail(to_phone)
      /\ UNCHANGED <<hand, input_queue, mouse, tab, typing, pointer, surface, observing>>
  BY DEF PumpInput, frameState
<1>3. /\ seen_by \in SeenBy /\ phone \in PhoneState /\ ring \in Seq(Inputs)
      /\ to_phone \in Seq(OfKinds(SentKinds)) /\ observing \in BOOLEAN
  BY <1>1, Zenon DEF CaptureTypes
<1>4. to_phone \in Seq(Inputs)
  BY <1>3, OfKindsAreInputs
<1>5. /\ item \in OfKinds(SentKinds) /\ to_phone' \in Seq(OfKinds(SentKinds))
      /\ pointer = "mouse" => item \in OfKinds({"left", "key"}) /\ to_phone' \in Seq(OfKinds({"left", "key"}))
  <2>1. ASSUME NEW kinds, to_phone \in Seq(OfKinds(kinds))
        PROVE  item \in OfKinds(kinds) /\ to_phone' \in Seq(OfKinds(kinds))
    BY <1>2, <2>1
  <2> QED BY <1>1, <1>3, <2>1, Zenon DEF OneMode
<1>6. /\ item \in Inputs /\ item.what \in {"left", "touch", "key"} /\ item.down \in BOOLEAN
      /\ pointer = "mouse" => item.what # "touch"
  BY <1>5 DEF OfKinds, SentKinds, Inputs
<1>7. ASSUME NEW what, NEW from, NEW to
      PROVE  Leads(to_phone, what, from, to)
               <=> Leads(to_phone', what, IF item.what = what THEN item.down ELSE from, to)
  BY <1>2, <1>4, LeadsFromHead
<1>8. Still(to_phone', "left") /\ item.what # "left" => Still(to_phone, "left")
  <2>1. /\ Len(to_phone) \in Nat /\ Len(to_phone) # 0 /\ Len(to_phone') = Len(to_phone) - 1
        /\ \A m \in 1..(Len(to_phone) - 1) : to_phone'[m] = to_phone[m + 1]
        /\ item = to_phone[1]
    <3>1. Len(to_phone) \in Nat /\ Len(to_phone) # 0
      BY <1>2, <1>4, NoLength
    <3> QED BY <1>2, <1>4, <3>1
  <2>2. \A m \in 1..Len(to_phone) : m = 1 \/ (m - 1 \in 1..Len(to_phone') /\ to_phone[m] = to_phone'[m - 1])
    <3> TAKE m \in 1..Len(to_phone)
    <3>1. CASE m # 1
      <4>1. m - 1 \in 1..(Len(to_phone) - 1) /\ (m - 1) + 1 = m
        BY <2>1, <3>1
      <4> QED BY <2>1, <4>1
    <3> QED BY <3>1
  <2> QED BY <2>1, <2>2, Zenon DEF Still
<1> HIDE DEF item
<1>9. /\ phone' \in PhoneState
      /\ item.what = "touch"
           => phone'.touch = item.down /\ phone'.left = phone.left /\ phone'.key = phone.key
      /\ item.what = "left"
           => phone'.touch = phone.touch /\ phone'.left = item.down /\ phone'.key = phone.key
      /\ item.what = "key"
           => phone'.touch = phone.touch /\ phone'.left = phone.left /\ phone'.key = item.down
  <2>1. CASE item.what = "touch"
    <3>1. phone' = [phone EXCEPT !.touch = item.down]
      BY <1>2, <2>1
    <3> QED BY <1>3, <1>6, <2>1, <3>1 DEF PhoneState
  <2>2. CASE item.what = "left"
    <3>1. phone' = [phone EXCEPT !.left = item.down]
      BY <1>2, <2>2
    <3> QED BY <1>3, <1>6, <2>2, <3>1 DEF PhoneState
  <2>3. CASE item.what = "key"
    <3>1. phone' = [phone EXCEPT !.key = item.down]
      BY <1>2, <2>3
    <3> QED BY <1>3, <1>6, <2>3, <3>1 DEF PhoneState
  <2> QED BY <1>6, <2>1, <2>2, <2>3
<1> DEFINE deaf == seen_by.unheard \/ (~observing /\ item.what # "key")
<1>10. /\ seen_by' \in SeenBy /\ seen_by'.unheard = deaf /\ seen_by'.slipped = seen_by.slipped
       /\ seen_by'.lost_up = seen_by.lost_up /\ seen_by'.settled = seen_by.settled
  <2>1. deaf \in BOOLEAN /\ seen_by' = [seen_by EXCEPT !.unheard = deaf]
    BY <1>2, <1>3 DEF SeenBy
  <2> HIDE DEF deaf
  <2> QED BY <1>3, <2>1 DEF SeenBy
<1>11. ~seen_by'.unheard => ~seen_by.unheard /\ (observing \/ item.what = "key")
  BY <1>10, Zenon
<1>12. ring' \in Seq(Inputs)
  BY <1>2, <1>3, <1>6
<1>13. CaptureTypes'
  BY <1>1, <1>2, <1>5, <1>9, <1>10, <1>12, Zenon DEF CaptureTypes
\* What the ring says is what the phone holds.
<1>14. ASSUME ~seen_by'.unheard, NEW what \in {"left", "touch"}, NEW from, NEW to
       PROVE  /\ item.what = what => (Leads(ring', what, from, to) <=> item.down = to)
              /\ item.what # what => (Leads(ring', what, from, to) <=> Leads(ring, what, from, to))
  <2>1. CASE observing
    <3>1. ring' = Append(ring, item)
      BY <1>2, <2>1
    <3>2. /\ item.what = what => (Leads(Append(ring, item), what, from, to) <=> item.down = to)
          /\ item.what # what => (Leads(Append(ring, item), what, from, to) <=> Leads(ring, what, from, to))
      BY <1>3, <1>6, LeadsAppended, Zenon
    <3> QED BY <3>1, <3>2, Zenon
  <2>2. CASE ~observing
    <3>1. ring' = ring /\ item.what = "key" /\ what # "key"
      BY <1>2, <1>11, <1>14, <2>2
    <3> QED BY <3>1
  <2> QED BY <2>1, <2>2
<1>15. "left" \in {"left", "touch"} /\ "touch" \in {"left", "touch"} /\ "left" # "touch" /\ "left" # "key" /\ "touch" # "key"
  OBVIOUS
<1>16. SurfaceFollows'
  <2> SUFFICES ASSUME ~seen_by'.unheard
               PROVE  /\ Leads(ring', "touch", surface.touching, phone'.touch)
                      /\ Still(to_phone', "left") => Leads(ring', "left", surface.button, phone'.left)
    BY <1>2, Zenon DEF SurfaceFollows
  <2>1. /\ Leads(ring, "touch", surface.touching, phone.touch)
        /\ Still(to_phone, "left") => Leads(ring, "left", surface.button, phone.left)
    BY <1>1, <1>11, Zenon DEF SurfaceFollows
  <2>2. /\ item.what = "left" => \A from : Leads(ring', "left", from, item.down)
        /\ item.what # "left" => \A from, to : Leads(ring, "left", from, to) => Leads(ring', "left", from, to)
        /\ item.what = "touch" => \A from : Leads(ring', "touch", from, item.down)
        /\ item.what # "touch" => \A from, to : Leads(ring, "touch", from, to) => Leads(ring', "touch", from, to)
    BY <1>14, <1>15, Zenon
  <2>3. CASE item.what = "left"
    BY <1>9, <1>15, <2>1, <2>2, <2>3, Zenon
  <2>4. CASE item.what = "touch"
    BY <1>8, <1>9, <1>15, <2>1, <2>2, <2>4, Zenon
  <2>5. CASE item.what = "key"
    BY <1>8, <1>9, <1>15, <2>1, <2>2, <2>5, Zenon
  <2> QED BY <1>6, <2>3, <2>4, <2>5
<1>17. ButtonComesUp'
  <2> SUFFICES ASSUME ~seen_by'.unheard, ~surface.captured, ~seen_by.slipped
               PROVE  \E y \in BOOLEAN : Leads(ring', "left", surface.button, y)
                                         /\ Leads(to_phone', "left", y, FALSE)
    BY <1>2, <1>10, Zenon DEF ButtonComesUp
  <2>1. PICK y \in BOOLEAN : Leads(ring, "left", surface.button, y) /\ Leads(to_phone, "left", y, FALSE)
    BY <1>1, <1>11, Zenon DEF ButtonComesUp
  <2>2. CASE item.what = "left"
    <3>1. Leads(to_phone', "left", item.down, FALSE)
      BY <1>7, <2>1, <2>2
    <3>2. Leads(ring', "left", surface.button, item.down)
      BY <1>14, <1>15, <2>2, Zenon
    <3> QED BY <1>6, <3>1, <3>2
  <2>3. CASE item.what # "left"
    <3>1. Leads(to_phone', "left", y, FALSE)
      BY <1>7, <2>1, <2>3
    <3>2. Leads(ring', "left", surface.button, y)
      BY <1>14, <1>15, <2>1, <2>3, Zenon
    <3> QED BY <3>1, <3>2
  <2> QED BY <2>2, <2>3
<1>18. KeyComesUp'
  <2> SUFFICES ASSUME ~hand.key, ~seen_by.lost_up
               PROVE  surface.pressed = 0 /\ Leads(to_phone', "key", phone'.key, FALSE)
    BY <1>2, <1>10, Zenon DEF KeyComesUp
  <2>1. surface.pressed = 0 /\ Leads(to_phone, "key", phone.key, FALSE)
    BY <1>1, Zenon DEF KeyComesUp
  <2>2. CASE item.what = "key"
    <3>1. phone'.key = item.down
      BY <1>9, <2>2
    <3>2. Leads(to_phone', "key", item.down, FALSE)
      BY <1>7, <2>1, <2>2
    <3> QED BY <2>1, <3>1, <3>2, Zenon
  <2>3. CASE item.what # "key"
    <3>1. phone'.key = phone.key
      BY <1>6, <1>9, <2>3
    <3>2. Leads(to_phone', "key", phone.key, FALSE)
      BY <1>7, <2>1, <2>3
    <3> QED BY <2>1, <3>1, <3>2, Zenon
  <2> QED BY <2>2, <2>3
<1>19. OneMode'
  <2>1. ASSUME pointer = "mouse" PROVE ~phone'.touch
    <3>1. item.what # "touch" /\ ~phone.touch
      BY <1>1, <1>6, <2>1, Zenon DEF OneMode
    <3>2. phone'.touch = phone.touch
      BY <1>6, <1>9, <3>1
    <3> QED BY <3>1, <3>2, Zenon
  <2> QED BY <1>1, <1>2, <1>5, <2>1, Zenon DEF OneMode
<1>20. MouseFollows'
  BY <1>1, <1>2, Zenon DEF MouseFollows
<1>21. NothingToSend'
  <2>1. ~seen_by.settled
    BY <1>2, Zenon DEF HandInv, NothingToSend
  <2> QED BY <1>10, <2>1, NotSettled, Zenon
<1> QED BY <1>13, <1>16, <1>17, <1>18, <1>19, <1>20, <1>21, Zenon DEF HandInv

\* A frame takes the events up to the first edge.
LEMMA TakenIs ==
  ASSUME NEW queued \in Seq(Inputs)
  PROVE  Taken1(queued) \in 0..Len(queued)
<1> DEFINE edges == {i \in DOMAIN queued : queued[i].what = "left"}
           IsLeast(i) == \A j \in edges : i <= j
<1>1. Len(queued) \in Nat /\ DOMAIN queued = 1..Len(queued)
  OBVIOUS
<1>2. CASE edges = {}
  BY <1>1, <1>2 DEF Taken1
<1>3. CASE edges # {}
  <2>1. edges \subseteq Nat
    BY <1>1
  <2>2. \E i \in edges : IsLeast(i)
    <3> HIDE DEF edges
    <3> QED BY <1>3, <2>1, LeastNumber, Zenon
  <2>3. Taken1(queued) = CHOOSE i \in edges : IsLeast(i)
    BY <1>3 DEF Taken1
  <2>4. Taken1(queued) \in edges
    <3> HIDE DEF edges, IsLeast
    <3> QED BY <2>2, <2>3, Zenon
  <2> QED BY <1>1, <2>4
<1> QED BY <1>2, <1>3

LEMMA GrabbedIs ==
  ASSUME NEW s \in SurfaceState, NEW clicked
  PROVE  /\ Grabbed(s, clicked) \in SurfaceState
         /\ Grabbed(s, clicked).touching = s.touching /\ Grabbed(s, clicked).button = s.button
         /\ Grabbed(s, clicked).pressed = s.pressed
         /\ s.captured => Grabbed(s, clicked).captured
<1>1. CASE s.captured \/ ~clicked
  BY <1>1 DEF Grabbed
<1>2. CASE ~(s.captured \/ ~clicked)
  <2>1. Grabbed(s, clicked) = [s EXCEPT !.captured = TRUE, !.swallow = TRUE]
    BY <1>2 DEF Grabbed
  <2> QED BY <1>2, <2>1 DEF SurfaceState
<1> QED BY <1>1, <1>2

LEMMA SwallowedIs ==
  ASSUME NEW s \in SurfaceState, NEW m \in MouseState
  PROVE  /\ Swallowed(s, m) \in SurfaceState
         /\ Swallowed(s, m).touching = s.touching /\ Swallowed(s, m).button = s.button
         /\ Swallowed(s, m).pressed = s.pressed /\ Swallowed(s, m).captured = s.captured
<1> DEFINE sw == s.swallow /\ m.left
<1>1. sw \in BOOLEAN /\ Swallowed(s, m) = [s EXCEPT !.swallow = sw]
  BY DEF Swallowed
<1> HIDE DEF sw
<1> QED BY <1>1 DEF SurfaceState

LEMMA Wider ==
  ASSUME NEW kinds, NEW more, kinds \subseteq more, NEW q \in Seq(OfKinds(kinds))
  PROVE  q \in Seq(OfKinds(more))
<1>1. OfKinds(kinds) \subseteq OfKinds(more)
  BY DEF OfKinds
<1> QED BY <1>1

LEMMA TouchEdgeIs ==
  ASSUME NEW s \in SurfaceState, NEW m \in MouseState
  PROVE  /\ TouchEdge(s, m) \in Seq(OfKinds({"touch"}))
         /\ TouchEdge(s, m) = <<>> => s.touching = m.left
<1> DEFINE e == Item("touch", m.left, m.spot)
<1>1. e \in OfKinds({"touch"})
  BY DEF Item, OfKinds, Inputs, MouseState
<1>2. TouchEdge(s, m) = IF m.left # s.touching THEN <<e>> ELSE <<>>
  BY DEF TouchEdge
<1> HIDE DEF e
<1>3. <<e>> \in Seq(OfKinds({"touch"})) /\ <<e>> # <<>> /\ <<>> \in Seq(OfKinds({"touch"}))
  BY <1>1
<1> QED BY <1>2, <1>3, Zenon

LEMMA ButtonEdgeIs ==
  ASSUME NEW s \in SurfaceState, NEW m \in MouseState
  PROVE  /\ ButtonEdge(s, m) \in Seq(OfKinds({"left"}))
         /\ ~s.captured => ButtonEdge(s, m) = <<>>
         /\ s.captured /\ ButtonEdge(s, m) = <<>> => s.button = (m.left /\ ~s.swallow)
<1> DEFINE down == m.left /\ ~s.swallow
           e == Item("left", down, 0)
<1>1. down \in BOOLEAN /\ ButtonEdge(s, m) = IF s.captured /\ down # s.button THEN <<e>> ELSE <<>>
  BY DEF ButtonEdge
<1>2. s.button = (m.left /\ ~s.swallow) <=> s.button = down
  OBVIOUS
<1> HIDE DEF down
<1>3. e \in OfKinds({"left"})
  BY <1>1 DEF Item, OfKinds, Inputs
<1> HIDE DEF e
<1>4. <<e>> \in Seq(OfKinds({"left"})) /\ <<e>> # <<>> /\ <<>> \in Seq(OfKinds({"left"}))
  BY <1>3
<1>5. ButtonEdge(s, m) \in Seq(OfKinds({"left"})) /\ (~s.captured => ButtonEdge(s, m) = <<>>)
  BY <1>1, <1>4
<1>6. ASSUME s.captured, ButtonEdge(s, m) = <<>> PROVE s.button = (m.left /\ ~s.swallow)
  <2>1. s.button = down
    BY <1>1, <1>4, <1>6
  <2> QED BY <1>2, <2>1
<1> QED BY <1>5, <1>6

LEMMA KeyPressesAre ==
  ASSUME NEW s \in SurfaceState
  PROVE  /\ KeyPresses(s) \in Seq(OfKinds({"key"}))
         /\ s.pressed = 0 => KeyPresses(s) = <<>>
<1> DEFINE e == Item("key", TRUE, 0)
<1>1. e \in OfKinds({"key"})
  BY DEF Item, OfKinds, Inputs
<1>2. KeyPresses(s) = [i \in 1..s.pressed |-> e] /\ s.pressed \in Nat
  BY DEF KeyPresses, SurfaceState
<1> HIDE DEF e
<1>3. KeyPresses(s) \in Seq(OfKinds({"key"})) /\ Len(KeyPresses(s)) = s.pressed
  BY <1>1, <1>2
<1> QED BY <1>3, NoLength

LEMMA LeadsAlike ==
  ASSUME NEW s, NEW t, NEW n, \A i \in 1..n : s[i] = t[i], NEW what, NEW from, NEW to,
         LeadsUpTo(s, n, what, from, to)
  PROVE  LeadsUpTo(t, n, what, from, to)
  BY Zenon DEF LeadsUpTo

LEMMA LeadsOneWay ==
  ASSUME NEW s \in Seq(Inputs), NEW what, NEW from \in BOOLEAN, NEW x, NEW y,
         Leads(s, what, from, x), Leads(s, what, from, y)
  PROVE  x = y
<1>1. \A v, w : Leads(s, what, from, v) /\ Leads(s, what, from, w) => v = w
  BY LeadsSomewhere
<1> QED BY <1>1, Zenon

LEMMA NothingQueued == ASSUME to_phone \in Seq(Inputs) PROVE Queued(<<>>) = to_phone
<1>1. <<>> \in Seq(Inputs) /\ Len(<<>>) = 0
  OBVIOUS
<1>2. \E r : r[0] = to_phone /\ Queued(<<>>) = r[Len(<<>>)]
  BY <1>1, QueuedRuns, Zenon
<1> QED BY <1>1, <1>2, Zenon

LEMMA FrameKeeps ==
  ASSUME HandInv, NEW blocked \in BOOLEAN, Frame(blocked)
  PROVE  HandInv'
<1>1. CaptureTypes /\ OneMode /\ SurfaceFollows /\ ButtonComesUp /\ KeyComesUp /\ MouseFollows
  BY Zenon DEF HandInv
<1>2. /\ hand \in HandState /\ mouse \in MouseState /\ surface \in SurfaceState /\ phone \in PhoneState
      /\ seen_by \in SeenBy /\ input_queue \in Seq(Inputs) /\ ring \in Seq(Inputs)
      /\ to_phone \in Seq(OfKinds(SentKinds)) /\ pointer \in {"touch", "mouse"}
  BY <1>1, Zenon DEF CaptureTypes
<1> DEFINE n == Taken1(input_queue)
           taken == SubSeq(input_queue, 1, n)
           rest == SubSeq(input_queue, n + 1, Len(input_queue))
           m == NewMouse(taken)
           clicked == ~mouse.left /\ m.left
           watching == tab # "other"
           drained == IF watching THEN Drained ELSE surface
           grabbed == IF pointer = "mouse" /\ tab = "live" /\ ~blocked
                      THEN Grabbed(drained, clicked) ELSE drained
           s == IF grabbed.captured /\ tab = "live" /\ ~blocked THEN Swallowed(grabbed, m) ELSE grabbed
           keys == IF tab = "live" THEN KeyPresses(drained) ELSE <<>>
           edges == IF tab # "live" \/ blocked THEN <<>>
                    ELSE IF pointer = "touch" THEN TouchEdge(drained, m) ELSE ButtonEdge(s, m)
           slips == seen_by.slipped /\ ~(grabbed.captured /\ ~drained.captured)
           settles == tab = "live" /\ ~blocked /\ keys \o edges = <<>> /\ to_phone = <<>>
                      /\ input_queue' = <<>>
<1>3. /\ input_queue' = rest /\ mouse' = m /\ observing' = watching
      /\ ring' = IF watching THEN <<>> ELSE ring
      /\ surface' = [s EXCEPT !.pressed = IF tab = "live" THEN 0 ELSE @]
      /\ Sends(keys \o edges)
      /\ seen_by' = [seen_by EXCEPT !.slipped = slips, !.settled = settles]
      /\ UNCHANGED <<hand, tab, typing, pointer, phone>>
  BY DEF Frame
<1>4. n \in 0..Len(input_queue) /\ Len(input_queue) \in Nat
  BY <1>2, TakenIs
<1> HIDE DEF n
<1>5. /\ taken \in Seq(Inputs) /\ Len(taken) = n /\ \A i \in 1..n : taken[i] = input_queue[i]
      /\ rest \in Seq(Inputs) /\ Len(rest) = Len(input_queue) - n
      /\ \A i \in 1..(Len(input_queue) - n) : rest[i] = input_queue[i + n]
  BY <1>2, <1>4
<1>6. m \in MouseState /\ Leads(taken, "left", mouse.left, m.left)
  <2> HIDE DEF taken
  <2> QED BY <1>2, <1>5, NewMouseIs
<1>7. Leads(rest, "left", m.left, hand.left)
  <2> HIDE DEF m
  <2>1. LeadsUpTo(input_queue, Len(input_queue), "left", mouse.left, hand.left)
    BY <1>1, Zenon DEF MouseFollows, Leads
  <2>2. LeadsUpTo(input_queue, n, "left", mouse.left, m.left)
    <3>1. LeadsUpTo(taken, n, "left", mouse.left, m.left)
      BY <1>5, <1>6, Zenon DEF Leads
    <3>2. \A i \in 1..n : taken[i] = input_queue[i]
      BY <1>5, Zenon
    <3> HIDE DEF taken
    <3> QED BY <3>1, <3>2, LeadsAlike
  <2> HIDE DEF rest
  <2>3. LeadsUpTo(rest, Len(input_queue) - n, "left", m.left, hand.left)
    BY <1>4, <1>5, <2>1, <2>2, LeadsSplit
  <2> QED BY <1>5, <2>3, Zenon DEF Leads
<1> HIDE DEF taken, rest, m, clicked
<1>8. /\ drained \in SurfaceState /\ drained.captured = surface.captured
      /\ drained.pressed = surface.pressed
      /\ watching => /\ Leads(ring, "left", surface.button, drained.button)
                     /\ Leads(ring, "touch", surface.touching, drained.touching)
      /\ ~watching => drained = surface
  <2>1. CASE watching
    <3>1. drained = Drained
      BY <2>1
    <3> HIDE DEF drained
    <3> QED BY <1>2, <2>1, <3>1, DrainedIs
  <2>2. CASE ~watching
    <3>1. drained = surface
      BY <2>2
    <3> QED BY <1>2, <2>2, <3>1
  <2> QED BY <2>1, <2>2
<1>9. tab = "live" => watching
  OBVIOUS
<1> HIDE DEF drained, watching
<1>10. /\ grabbed \in SurfaceState /\ grabbed.touching = drained.touching
       /\ grabbed.button = drained.button /\ (drained.captured => grabbed.captured)
       /\ pointer = "touch" => grabbed.captured = drained.captured
  <2>1. CASE pointer = "mouse" /\ tab = "live" /\ ~blocked
    <3>1. grabbed = Grabbed(drained, clicked) /\ pointer # "touch"
      BY <2>1
    <3> HIDE DEF grabbed
    <3> QED BY <1>8, <3>1, GrabbedIs
  <2>2. CASE ~(pointer = "mouse" /\ tab = "live" /\ ~blocked)
    <3>1. grabbed = drained
      BY <2>2
    <3> QED BY <1>8, <3>1
  <2> QED BY <2>1, <2>2
<1> HIDE DEF grabbed
<1>11. /\ s \in SurfaceState /\ s.touching = drained.touching /\ s.button = drained.button
       /\ s.captured = grabbed.captured
  <2>1. CASE grabbed.captured /\ tab = "live" /\ ~blocked
    <3>1. s = Swallowed(grabbed, m)
      BY <2>1
    <3> HIDE DEF s
    <3> QED BY <1>6, <1>10, <3>1, SwallowedIs
  <2>2. CASE ~(grabbed.captured /\ tab = "live" /\ ~blocked)
    <3>1. s = grabbed
      BY <2>2
    <3> QED BY <1>10, <3>1
  <2> QED BY <2>1, <2>2
<1> HIDE DEF s
<1>12. /\ surface' \in SurfaceState
       /\ surface'.touching = drained.touching /\ surface'.button = drained.button
       /\ surface'.captured = grabbed.captured /\ surface'.swallow = s.swallow
       /\ surface.pressed = 0 => surface'.pressed = 0
  <2> DEFINE p == IF tab = "live" THEN 0 ELSE s.pressed
  <2>1. p \in Nat /\ surface' = [s EXCEPT !.pressed = p]
    BY <1>3, <1>11 DEF SurfaceState
  <2>2. surface.pressed = 0 => p = 0
    <3>1. s.pressed = grabbed.pressed
      <4>1. CASE grabbed.captured /\ tab = "live" /\ ~blocked
        <5>1. s = Swallowed(grabbed, m)
          BY <4>1 DEF s
        <5> QED BY <1>6, <1>10, <5>1, SwallowedIs
      <4>2. CASE ~(grabbed.captured /\ tab = "live" /\ ~blocked)
        BY <4>2 DEF s
      <4> QED BY <4>1, <4>2
    <3>2. grabbed.pressed = drained.pressed
      <4>1. CASE pointer = "mouse" /\ tab = "live" /\ ~blocked
        <5>1. grabbed = Grabbed(drained, clicked)
          BY <4>1 DEF grabbed
        <5> QED BY <1>8, <5>1, GrabbedIs
      <4>2. CASE ~(pointer = "mouse" /\ tab = "live" /\ ~blocked)
        BY <4>2 DEF grabbed
      <4> QED BY <4>1, <4>2
    <3> QED BY <1>8, <3>1, <3>2
  <2> HIDE DEF p
  <2> QED BY <1>11, <2>1, <2>2 DEF SurfaceState
\* What the frame sends.
<1>13. /\ keys \in Seq(OfKinds({"key"})) /\ (surface.pressed = 0 => keys = <<>>)
       /\ edges \in Seq(OfKinds({"left", "touch"}))
       /\ pointer = "mouse" => edges \in Seq(OfKinds({"left"}))
       /\ ~grabbed.captured => edges \in Seq(OfKinds({"touch"}))
       /\ tab = "live" /\ ~blocked /\ edges = <<>> =>
            /\ pointer = "touch" => drained.touching = m.left
            /\ grabbed.captured /\ pointer = "mouse" => s.button = (m.left /\ ~s.swallow)
  <2>1. keys \in Seq(OfKinds({"key"})) /\ (surface.pressed = 0 => keys = <<>>)
    BY <1>8, KeyPressesAre
  <2>2. \A kinds : <<>> \in Seq(OfKinds(kinds))
    OBVIOUS
  <2>3. CASE tab # "live" \/ blocked
    <3>1. edges = <<>>
      BY <2>3
    <3> HIDE DEF edges, keys
    <3> QED BY <2>1, <2>2, <2>3, <3>1
  <2>4. CASE ~(tab # "live" \/ blocked) /\ pointer = "touch"
    <3>1. edges = TouchEdge(drained, m) /\ pointer # "mouse"
      BY <2>4
    <3> HIDE DEF edges, keys
    <3>2. edges \in Seq(OfKinds({"touch"})) /\ (edges = <<>> => drained.touching = m.left)
      BY <1>6, <1>8, <3>1, TouchEdgeIs
    <3>3. edges \in Seq(OfKinds({"left", "touch"}))
      <4>1. {"touch"} \subseteq {"left", "touch"}
        OBVIOUS
      <4> QED BY <3>2, <4>1, Wider
    <3> QED BY <2>1, <3>1, <3>2, <3>3
  <2>5. CASE ~(tab # "live" \/ blocked) /\ pointer = "mouse"
    <3>1. edges = ButtonEdge(s, m) /\ pointer # "touch"
      BY <2>5
    <3> HIDE DEF edges, keys
    <3>2. edges \in Seq(OfKinds({"left"})) /\ (~s.captured => edges = <<>>)
      BY <1>6, <1>11, <3>1, ButtonEdgeIs
    <3>3. s.captured /\ edges = <<>> => s.button = (m.left /\ ~s.swallow)
      BY <1>6, <1>11, <3>1, ButtonEdgeIs, Zenon
    <3>4. edges \in Seq(OfKinds({"left", "touch"}))
      <4>1. {"left"} \subseteq {"left", "touch"}
        OBVIOUS
      <4> QED BY <3>2, <4>1, Wider
    <3>5. ~grabbed.captured => edges \in Seq(OfKinds({"touch"}))
      BY <1>11, <2>2, <3>2
    <3> QED BY <1>11, <2>1, <3>1, <3>2, <3>3, <3>4, <3>5, Zenon
  <2> QED BY <1>2, <2>3, <2>4, <2>5
<1> HIDE DEF keys, edges
<1> DEFINE items == keys \o edges
<1>14. ASSUME NEW kinds, keys \in Seq(OfKinds(kinds)), edges \in Seq(OfKinds(kinds))
       PROVE  items \in Seq(OfKinds(kinds)) /\ (items = <<>> => keys = <<>> /\ edges = <<>>)
  BY <1>14, ConcatProperties, ConcatEqualIffEmpty
<1>15. Sends(items)
  BY <1>3
<1> HIDE DEF items
<1>16. /\ items \in Seq(OfKinds(SentKinds)) /\ (items = <<>> => keys = <<>> /\ edges = <<>>)
       /\ pointer = "mouse" => items \in Seq(OfKinds({"left", "key"}))
       /\ ~grabbed.captured => \A x : Leads(items, "left", x, x)
       /\ surface.pressed = 0 => \A x : Leads(items, "key", x, x)
  <2>1. /\ {"key"} \subseteq SentKinds /\ {"left", "touch"} \subseteq SentKinds
        /\ {"key"} \subseteq {"left", "key"} /\ {"left"} \subseteq {"left", "key"}
        /\ {"key"} \subseteq {"touch", "key"} /\ {"touch"} \subseteq {"touch", "key"}
        /\ "left" \notin {"touch", "key"} /\ "key" \notin {"left", "touch"}
    BY DEF SentKinds
  <2>2. items \in Seq(OfKinds(SentKinds)) /\ (items = <<>> => keys = <<>> /\ edges = <<>>)
    BY <1>13, <1>14, <2>1, Wider, Zenon
  <2>3. pointer = "mouse" => items \in Seq(OfKinds({"left", "key"}))
    BY <1>13, <1>14, <2>1, Wider, Zenon
  <2>4. ~grabbed.captured => \A x : Leads(items, "left", x, x)
    <3>1. ~grabbed.captured => items \in Seq(OfKinds({"touch", "key"}))
      BY <1>13, <1>14, <2>1, Wider, Zenon
    <3> QED BY <2>1, <3>1, OtherKinds, Zenon
  <2>5. surface.pressed = 0 => \A x : Leads(items, "key", x, x)
    <3>1. <<>> \in Seq(OfKinds({"left", "touch"}))
      OBVIOUS
    <3>2. surface.pressed = 0 => items \in Seq(OfKinds({"left", "touch"}))
      BY <1>13, <1>14, <3>1, Zenon
    <3> QED BY <2>1, <3>2, OtherKinds, Zenon
  <2> QED BY <2>2, <2>3, <2>4, <2>5
<1>17. /\ to_phone' \in Seq(OfKinds(SentKinds))
       /\ \A what \in {"left", "key"} : \A x, y, z :
            Leads(to_phone, what, x, y) /\ Leads(items, what, y, z) => Leads(to_phone', what, x, z)
       /\ Still(to_phone', "left") => Still(to_phone, "left")
  BY <1>1, <1>15, <1>16, SentLeads, Zenon
<1>18. "left" \in {"left", "key"} /\ "key" \in {"left", "key"}
  OBVIOUS
<1>19. /\ seen_by' \in SeenBy /\ seen_by'.unheard = seen_by.unheard /\ seen_by'.lost_up = seen_by.lost_up
       /\ seen_by'.slipped = slips /\ seen_by'.settled = settles
  <2>1. slips \in BOOLEAN /\ settles \in BOOLEAN
    OBVIOUS
  <2> HIDE DEF slips, settles
  <2> QED BY <1>2, <1>3, <2>1 DEF SeenBy
<1>20. ring' \in Seq(Inputs)
  BY <1>2, <1>3
<1>21. CaptureTypes'
  <2>1. observing' \in BOOLEAN
    BY <1>3 DEF watching
  <2> QED BY <1>1, <1>3, <1>5, <1>6, <1>12, <1>17, <1>19, <1>20, <2>1, Zenon DEF CaptureTypes
<1>22. MouseFollows'
  BY <1>3, <1>7, Zenon DEF MouseFollows
\* A frame that watches shows what the reports led to; another one leaves them.
<1>23. ASSUME NEW y \in BOOLEAN, Leads(ring, "left", surface.button, y)
       PROVE  Leads(ring', "left", surface'.button, y)
  <2>1. CASE watching
    <3>1. surface.button \in BOOLEAN /\ drained.button \in BOOLEAN
      BY <1>2, <1>8 DEF SurfaceState
    <3>2. drained.button = y
      <4>1. ring \in Seq(Inputs) /\ Leads(ring, "left", surface.button, drained.button)
        BY <1>2, <1>8, <2>1
      <4> QED BY <1>23, <3>1, <4>1, LeadsOneWay
    <3>3. Leads(<<>>, "left", y, y)
      BY NothingLeads, Zenon
    <3>4. ring' = <<>> /\ surface'.button = y
      BY <1>3, <1>12, <2>1, <3>2
    <3> QED BY <3>3, <3>4
  <2>2. CASE ~watching
    BY <1>3, <1>8, <1>12, <1>23, <2>2, Zenon
  <2> QED BY <2>1, <2>2
<1>24. ASSUME NEW y \in BOOLEAN, Leads(ring, "touch", surface.touching, y)
       PROVE  Leads(ring', "touch", surface'.touching, y)
  <2>1. CASE watching
    <3>1. surface.touching \in BOOLEAN /\ drained.touching \in BOOLEAN
      BY <1>2, <1>8 DEF SurfaceState
    <3>2. drained.touching = y
      <4>1. ring \in Seq(Inputs) /\ Leads(ring, "touch", surface.touching, drained.touching)
        BY <1>2, <1>8, <2>1
      <4> QED BY <1>24, <3>1, <4>1, LeadsOneWay
    <3>3. Leads(<<>>, "touch", y, y)
      BY NothingLeads, Zenon
    <3>4. ring' = <<>> /\ surface'.touching = y
      BY <1>3, <1>12, <2>1, <3>2
    <3> QED BY <3>3, <3>4
  <2>2. CASE ~watching
    BY <1>3, <1>8, <1>12, <1>24, <2>2, Zenon
  <2> QED BY <2>1, <2>2
<1>25. SurfaceFollows'
  <2>1. phone.touch \in BOOLEAN /\ phone.left \in BOOLEAN
    BY <1>2 DEF PhoneState
  <2> QED BY <1>1, <1>3, <1>17, <1>19, <1>23, <1>24, <2>1, Zenon DEF SurfaceFollows
<1>26. ButtonComesUp'
  <2> SUFFICES ASSUME ~seen_by.unheard, ~grabbed.captured, ~slips
               PROVE  \E y \in BOOLEAN : Leads(ring', "left", surface'.button, y)
                                         /\ Leads(to_phone', "left", y, FALSE)
    BY <1>12, <1>19, Zenon DEF ButtonComesUp
  <2>1. ~seen_by.slipped /\ ~surface.captured
    BY <1>8, <1>10
  <2>2. PICK y \in BOOLEAN : Leads(ring, "left", surface.button, y) /\ Leads(to_phone, "left", y, FALSE)
    BY <1>1, <2>1, Zenon DEF ButtonComesUp
  <2>3. Leads(to_phone', "left", y, FALSE)
    BY <1>16, <1>17, <1>18, <2>2, Zenon
  <2> QED BY <1>23, <2>2, <2>3, Zenon
<1>27. KeyComesUp'
  <2> SUFFICES ASSUME ~hand.key, ~seen_by.lost_up
               PROVE  surface'.pressed = 0 /\ Leads(to_phone', "key", phone.key, FALSE)
    BY <1>3, <1>19, Zenon DEF KeyComesUp
  <2>1. surface.pressed = 0 /\ Leads(to_phone, "key", phone.key, FALSE)
    BY <1>1, Zenon DEF KeyComesUp
  <2>2. Leads(to_phone', "key", phone.key, FALSE)
    BY <1>16, <1>17, <1>18, <2>1, Zenon
  <2> QED BY <1>12, <2>1, <2>2
<1>28. OneMode'
  <2>1. pointer = "mouse" => to_phone' \in Seq(OfKinds({"left", "key"}))
    BY <1>1, <1>15, <1>16, SentInMouseMode, Zenon DEF OneMode
  <2>2. pointer = "touch" => ~surface'.captured
    <3>1. pointer = "touch" => ~surface.captured
      BY <1>1, Zenon DEF OneMode
    <3> QED BY <1>8, <1>10, <1>12, <3>1
  <2> QED BY <1>1, <1>3, <2>1, <2>2, Zenon DEF OneMode
<1>29. NothingToSend'
  <2> SUFFICES ASSUME settles
               PROVE  /\ to_phone' = <<>> /\ ring' = <<>> /\ input_queue' = <<>>
                      /\ pointer = "touch" => surface'.touching = mouse'.left
                      /\ surface'.captured => surface'.button = (mouse'.left /\ ~surface'.swallow)
    BY <1>3, <1>19, Zenon DEF NothingToSend
  <2>1. /\ tab = "live" /\ ~blocked /\ items = <<>> /\ to_phone = <<>> /\ input_queue' = <<>>
    BY DEF items
  <2>2. edges = <<>>
    BY <1>16, <2>1
  <2>3. to_phone' = <<>>
    <3>1. to_phone' = Queued(<<>>)
      BY <1>15, <2>1, Zenon DEF Sends
    <3>2. Queued(<<>>) = to_phone
      BY <1>2, OfKindsAreInputs, NothingQueued
    <3> QED BY <2>1, <3>1, <3>2
  <2>4. ring' = <<>>
    BY <1>3, <1>9, <2>1
  <2>5. pointer = "touch" => surface'.touching = mouse'.left
    BY <1>3, <1>12, <1>13, <2>1, <2>2, Zenon
  <2>6. surface'.captured => pointer = "mouse"
    <3>1. pointer = "touch" => ~surface.captured
      BY <1>1, Zenon DEF OneMode
    <3> QED BY <1>2, <1>8, <1>10, <1>12, <3>1
  <2>7. surface'.captured => surface'.button = (mouse'.left /\ ~surface'.swallow)
    <3>1. grabbed.captured /\ pointer = "mouse" => s.button = (m.left /\ ~s.swallow)
      BY <1>13, <2>1, <2>2, Zenon
    <3> QED BY <1>3, <1>11, <1>12, <2>6, <3>1, Zenon
  <2> QED BY <2>1, <2>3, <2>4, <2>5, <2>7, Zenon
<1> QED BY <1>21, <1>22, <1>25, <1>26, <1>27, <1>28, <1>29, Zenon DEF HandInv

-----------------------------------------------------------------------------
(* The theorem                                                             *)

LEMMA HandInit == CaptureInit => HandInv
<1> SUFFICES ASSUME CaptureInit PROVE HandInv
  OBVIOUS
<1>1. CaptureTypes
  <2>1. hand \in HandState
    BY DEF CaptureInit, HandState
  <2>2. mouse \in MouseState
    BY DEF CaptureInit, MouseState
  <2>3. surface \in SurfaceState
    BY DEF CaptureInit, SurfaceState
  <2>4. phone \in PhoneState
    BY DEF CaptureInit, PhoneState
  <2>5. seen_by \in SeenBy
    BY DEF CaptureInit, SeenBy
  <2>6. /\ input_queue \in Seq(Inputs) /\ ring \in Seq(Inputs)
        /\ to_phone \in Seq(OfKinds(SentKinds))
        /\ typing \in BOOLEAN /\ observing \in BOOLEAN /\ pointer \in {"touch", "mouse"}
    <3>1. \A S : <<>> \in Seq(S)
      OBVIOUS
    <3>2. input_queue = <<>> /\ ring = <<>> /\ to_phone = <<>>
      BY DEF CaptureInit
    <3>3. typing = FALSE /\ observing = TRUE /\ pointer \in {"touch", "mouse"}
      BY DEF CaptureInit
    <3> QED BY <3>1, <3>2, <3>3
  <2> QED BY <2>1, <2>2, <2>3, <2>4, <2>5, <2>6, Zenon DEF CaptureTypes
<1>2. /\ input_queue = <<>> /\ ring = <<>> /\ to_phone = <<>>
      /\ mouse.left = FALSE /\ hand.left = FALSE
      /\ surface.touching = FALSE /\ surface.button = FALSE /\ surface.captured = FALSE
      /\ surface.pressed = 0
      /\ phone.touch = FALSE /\ phone.left = FALSE /\ phone.key = FALSE
      /\ ~seen_by.settled
  BY DEF CaptureInit
<1>3. \A what, x : Leads(<<>>, what, x, x)
  BY NothingLeads, Zenon
<1>4. MouseFollows /\ SurfaceFollows
  BY <1>2, <1>3, Zenon DEF MouseFollows, SurfaceFollows
<1>5. ButtonComesUp /\ KeyComesUp
  <2>1. FALSE \in BOOLEAN
    OBVIOUS
  <2> QED BY <1>2, <1>3, <2>1, Zenon DEF ButtonComesUp, KeyComesUp
<1>6. OneMode
  <2>1. <<>> \in Seq(OfKinds({"left", "key"}))
    OBVIOUS
  <2> QED BY <1>2, <2>1 DEF OneMode
<1>7. NothingToSend
  BY <1>2, Zenon DEF NothingToSend
<1> QED BY <1>1, <1>4, <1>5, <1>6, <1>7, Zenon DEF HandInv

LEMMA HandStutter == ASSUME HandInv, UNCHANGED captureVars PROVE HandInv'
<1>1. UNCHANGED <<hand, input_queue, mouse, tab, typing, pointer, surface, to_phone, observing,
                  ring, phone, seen_by>>
  BY DEF captureVars, frameState
<1>2. /\ CaptureTypes' /\ MouseFollows' /\ SurfaceFollows' /\ ButtonComesUp' /\ KeyComesUp'
  BY <1>1, Zenon DEF HandInv, CaptureTypes, MouseFollows, SurfaceFollows, ButtonComesUp, KeyComesUp
<1>3. OneMode' /\ NothingToSend'
  BY <1>1, Zenon DEF HandInv, OneMode, NothingToSend
<1> QED BY <1>2, <1>3, Zenon DEF HandInv

LEMMA HandFollows == HandInv => PhoneFollowsTheHand
<1> SUFFICES ASSUME HandInv, seen_by.settled, ~seen_by.unheard
             PROVE  /\ phone.touch = (hand.left /\ pointer = "touch")
                    /\ surface.captured => phone.left = (hand.left /\ ~surface.swallow)
                    /\ ~surface.captured => ~phone.left \/ seen_by.slipped
                    /\ phone.key => hand.key \/ seen_by.lost_up
  BY Zenon DEF PhoneFollowsTheHand
<1>1. /\ hand \in HandState /\ mouse \in MouseState /\ surface \in SurfaceState /\ phone \in PhoneState
      /\ pointer \in {"touch", "mouse"}
  BY Zenon DEF HandInv, CaptureTypes
<1>2. /\ to_phone = <<>> /\ ring = <<>> /\ input_queue = <<>>
      /\ pointer = "touch" => surface.touching = mouse.left
      /\ surface.captured => surface.button = (mouse.left /\ ~surface.swallow)
  BY Zenon DEF HandInv, NothingToSend
<1>3. mouse.left = hand.left
  BY <1>2, NothingLeads, Zenon DEF HandInv, MouseFollows
<1>4. Still(<<>>, "left")
  BY DEF Still
<1>5. surface.touching = phone.touch /\ surface.button = phone.left
  BY <1>2, <1>4, NothingLeads, Zenon DEF HandInv, SurfaceFollows
<1>6. phone.touch = (hand.left /\ pointer = "touch")
  <2>1. CASE pointer = "touch"
    <3>1. phone.touch = hand.left
      BY <1>2, <1>3, <1>5, <2>1
    <3> QED BY <1>1, <2>1, <3>1 DEF HandState
  <2>2. CASE pointer = "mouse"
    <3>1. ~phone.touch
      BY <2>2, Zenon DEF HandInv, OneMode
    <3>2. phone.touch = FALSE
      BY <1>1, <3>1 DEF PhoneState
    <3> QED BY <2>2, <3>2
  <2> QED BY <1>1, <2>1, <2>2
<1>7. surface.captured => phone.left = (hand.left /\ ~surface.swallow)
  BY <1>2, <1>3, <1>5, Zenon
<1>8. ~surface.captured => ~phone.left \/ seen_by.slipped
  <2> SUFFICES ASSUME ~surface.captured, ~seen_by.slipped PROVE ~phone.left
    OBVIOUS
  <2>1. PICK y \in BOOLEAN : Leads(ring, "left", surface.button, y) /\ Leads(to_phone, "left", y, FALSE)
    BY Zenon DEF HandInv, ButtonComesUp
  <2>2. surface.button = y /\ y = FALSE
    BY <1>2, <2>1, NothingLeads, Zenon
  <2> QED BY <1>5, <2>2
<1>9. phone.key => hand.key \/ seen_by.lost_up
  <2> SUFFICES ASSUME ~hand.key, ~seen_by.lost_up PROVE ~phone.key
    OBVIOUS
  <2>1. Leads(to_phone, "key", phone.key, FALSE)
    BY Zenon DEF HandInv, KeyComesUp
  <2>2. phone.key = FALSE
    BY <1>2, <2>1, NothingLeads, Zenon
  <2> QED BY <2>2
<1> QED BY <1>6, <1>7, <1>8, <1>9

\* Whatever the user, the frames and the worker do, in any order: once a frame of the Live
\* tab has nothing more to send, the phone holds what the user holds (App::live_pointer,
\* App::on_key, App::drain_observed).
THEOREM ThePhoneFollows == CaptureSpec => []PhoneFollowsTheHand
<1>1. HandInv /\ [CaptureNext]_captureVars => HandInv'
  <2> SUFFICES ASSUME HandInv, [CaptureNext]_captureVars PROVE HandInv'
    OBVIOUS
  <2>1. CASE Click
    BY <2>1, ClickKeeps
  <2>2. CASE Move
    BY <2>2, MoveKeeps
  <2>3. CASE Type
    BY <2>3, TypeKeeps
  <2>4. CASE ReleaseKey
    BY <2>4, ReleaseKeyKeeps
  <2>5. CASE FocusLost
    BY <2>5, FocusLostKeeps
  <2>6. CASE (\E t \in Tabs : TurnTo(t)) \/ EditText
    BY <2>6, TurnKeeps
  <2>7. CASE \E blocked \in BOOLEAN : Frame(blocked)
    BY <2>7, FrameKeeps
  <2>8. CASE PumpInput
    BY <2>8, PumpInputKeeps
  <2>9. CASE UNCHANGED captureVars
    BY <2>9, HandStutter
  <2> QED BY <2>1, <2>2, <2>3, <2>4, <2>5, <2>6, <2>7, <2>8, <2>9, Zenon DEF CaptureNext, UserActs
<1> QED BY <1>1, HandInit, HandFollows, PTL DEF CaptureSpec

-----------------------------------------------------------------------------
(* GeteventParser: what is said of the panel and of the keyboard            *)

SlotLines == {"new", "end", "place"}
ContactLines == {"slot"} \union SlotLines
PanelLines == {"syn"} \union ContactLines
KeyLines == {"key", "keysyn"}

LineTypes == [kind : PanelLines \union KeyLines, value : PanelSlots \union Keys \union {0}, more : Nat,
              time : Nat \ {0}]
Rows == [control : Controls, value : Nat]
States == SUBSET Rows
SlotTypes == [at : Nat, active : BOOLEAN, changed : BOOLEAN, lifting : BOOLEAN, placed : BOOLEAN]

ParserTypes ==
  [slot : 0..max_slots, slots : [Tracked -> SlotTypes], frame : Seq(Rows), pending : Seq(Rows),
   since : Nat]

OneEach(state) == \A p, q \in state : p.control = q.control => p = q

Going == unread # <<>> \/ frames < MaxFrames

GeteventTypes ==
  /\ panel \in [slots : [PanelSlots -> [down : BOOLEAN, at : Places]], slot : PanelSlots]
  /\ unread \in Seq(LineTypes) /\ clock \in Nat \ {0}
  /\ parser \in ParserTypes
  /\ out \in States /\ OneEach(out) /\ truth \in States /\ OneEach(truth)
  /\ heard \in [lines : SUBSET (PanelSlots \X BOOLEAN), frame : SUBSET (PanelSlots \X BOOLEAN)]
  /\ waited \in Int /\ begun \in Nat /\ frames \in Nat

TimeInv ==
  /\ begun + waited = parser.since
  /\ begun = 0 => waited = 0
  /\ parser.pending # <<>> => begun # 0
  /\ Going /\ parser.pending = <<>> => begun = 0

Speaks(line, last) == IF line.kind = "syn" THEN last ELSE line.value

\* The lines of the panel's frame come after those of the keyboard's frames; they
\* speak of one slot after the other, and the last one closes it.
KeysFirst(s) ==
  \A m, n \in 1..Len(s) : m <= n /\ s[m].kind \in PanelLines => s[n].kind \in PanelLines

SynIsLast(s) == \A n \in 1..Len(s) : s[n].kind = "syn" <=> n = Len(s) /\ s[n].kind \in PanelLines

OneSlotAfterAnother(s, last) ==
  /\ \A n \in 1..(Len(s) - 1) : s[n].kind \in PanelLines /\ s[n + 1].kind # "slot" =>
       Speaks(s[n + 1], last) = s[n].value
  /\ \A m, n \in 1..Len(s) : m <= n /\ s[m].kind \in ContactLines /\ s[n].kind \in ContactLines =>
       s[m].value <= s[n].value

\* A line says what is on the panel.
True(line, slots) ==
  /\ line.kind \in ContactLines => line.value \in PanelSlots
  /\ line.kind = "new" => slots[line.value].down
  /\ line.kind = "end" => ~slots[line.value].down
  /\ line.kind = "place" => line.more = slots[line.value].at
  /\ line.kind = "key" => line.value \in Keys

SaidOnce(s) ==
  \A m, n \in 1..Len(s) :
    s[m].kind \in {"new", "end"} /\ s[n].kind \in {"new", "end"} /\ s[m].value = s[n].value => m = n

FrameLines(s, slots, last) ==
  /\ KeysFirst(s) /\ SynIsLast(s) /\ OneSlotAfterAnother(s, last) /\ SaidOnce(s)
  /\ \A n \in 1..Len(s) : True(s[n], slots)

\* The parser has selected the slot the panel speaks of; at first it takes any for slot 0.
Agrees(slot, v, told) == slot = Min({v, max_slots}) \/ (slot = 0 /\ v # 0 /\ told = {})

Begins(s, n) == n = 1 \/ s[n - 1].kind \in KeyLines

OnlyKeys(s) == \A n \in 1..Len(s) : s[n].kind \in KeyLines

Selects(s, slot, last, told) ==
  /\ \A n \in 1..Len(s) : s[n].kind \in PanelLines \ {"slot"} /\ Begins(s, n) =>
       Agrees(slot, Speaks(s[n], last), told)
  /\ OnlyKeys(s) => Agrees(slot, last, told)

\* No line of these kinds is about a slot.
Unsaid(kinds, s, slot) == \A n \in 1..Len(s) : s[n].kind \in kinds => s[n].value # slot

HeldNow == Played(out, parser.pending \o parser.frame)

HeldValue(c) == ValueOf(HeldNow, c)

SlotKept(slot, value) ==
  /\ (slot.placed => slot.active) /\ (slot.changed => slot.active) /\ (slot.lifting => slot.changed)
  /\ ~slot.changed => /\ slot.placed = slot.active
                      /\ value = IF slot.placed THEN slot.at ELSE Neutral
  /\ ~slot.placed => value = Neutral

SlotFollows(n, slot, on, s, told) ==
  /\ <<n, FALSE>> \in told /\ Unsaid({"new", "end"}, s, n) => (slot.active /\ ~slot.lifting <=> on.down)
  /\ <<n, TRUE>> \in told /\ Unsaid({"place"}, s, n) => slot.at = on.at
  /\ Unsaid({"new"}, s, n) \/ ~slot.lifting
  /\ OnlyKeys(s) => ~slot.changed

PanelInv ==
  Going => /\ FrameLines(unread, panel.slots, panel.slot)
           /\ Selects(unread, parser.slot, panel.slot, heard.lines)
           /\ \A n \in Tracked :
                /\ SlotKept(parser.slots[n], HeldValue(n))
                /\ SlotFollows(n, parser.slots[n], panel.slots[n], unread, heard.lines)

GeteventInv == GeteventTypes /\ TimeInv /\ PanelInv /\ RowsFollowThePanel
-----------------------------------------------------------------------------
(* What made leave held                                                    *)

LEMMA AppliedValue ==
  ASSUME NEW s \in States, OneEach(s), NEW e \in Rows
  PROVE  /\ Apply(s, e) \in States /\ OneEach(Apply(s, e))
         /\ \A c : ValueOf(Apply(s, e), c) = IF c = e.control THEN e.value ELSE ValueOf(s, c)
<1> DEFINE t == Apply(s, e)
<1>1. e.control \in Controls /\ e.value \in Nat
  BY DEF Rows
<1>2. \A p : p \in t <=> (p \in s /\ p.control # e.control) \/ (p = e /\ e.value # Neutral)
  BY <1>1 DEF Apply, Others
<1>3. t \in States
  <2>1. \A p : p \in t => p \in Rows
    BY <1>2 DEF States
  <2> QED BY <2>1 DEF States
<1> HIDE DEF t
<1>4. OneEach(t)
  BY <1>2 DEF OneEach
<1>5. ASSUME NEW c, c = e.control PROVE ValueOf(t, c) = e.value
  <2>1. CASE e.value = Neutral
    BY <1>2, <1>5, <2>1 DEF ValueOf, Holds
  <2>2. CASE e.value # Neutral
    <3>1. e \in t /\ \A p \in t : p.control = c => p = e
      BY <1>2, <1>5, <2>2
    <3>2. (CHOOSE p \in t : p.control = c) = e
      BY <1>5, <3>1
    <3> QED BY <1>5, <3>1, <3>2, Zenon DEF ValueOf, Holds
  <2> QED BY <2>1, <2>2
<1>6. ASSUME NEW c, c # e.control PROVE ValueOf(t, c) = ValueOf(s, c)
  <2>1. CASE Holds(s, c)
    <3>1. PICK p \in s : p.control = c
      BY <2>1 DEF Holds
    <3>2. p \in t /\ \A q \in t : q.control = c => q = p
      BY <1>2, <1>4, <1>6, <3>1 DEF OneEach
    <3>3. \A q \in s : q.control = c => q = p
      BY <3>1 DEF OneEach
    <3>4. (CHOOSE q \in t : q.control = c) = p /\ (CHOOSE q \in s : q.control = c) = p
      BY <3>1, <3>2, <3>3
    <3> QED BY <2>1, <3>1, <3>2, <3>4, Zenon DEF ValueOf, Holds
  <2>2. CASE ~Holds(s, c)
    <3>1. ~Holds(t, c)
      BY <1>2, <1>6, <2>2 DEF Holds
    <3> QED BY <2>2, <3>1, Zenon DEF ValueOf
  <2> QED BY <2>1, <2>2
<1> QED BY <1>3, <1>4, <1>5, <1>6, Zenon DEF t

Plays(r, made) == \A n \in 1..Len(made) : r[n] = Apply(r[n - 1], made[n])

PlaysFrom(r, s, made) ==
  /\ r[0] = s /\ Plays(r, made) /\ Played(s, made) = r[Len(made)]
  /\ \A n \in 0..Len(made) : r[n] \in States /\ OneEach(r[n])

LEMMA PlayedRuns ==
  ASSUME NEW s \in States, OneEach(s), NEW made \in Seq(Rows)
  PROVE  \E r : PlaysFrom(r, s, made)
<1> DEFINE S == {t \in States : OneEach(t)}
           L == Len(made)
           Reads(f) == f = [n \in 0..L |-> IF n = 0 THEN s ELSE Apply(f[n - 1], made[n])]
           r == CHOOSE g : Reads(g)
           step == [n \in 1..L |-> [u \in S |-> Apply(u, made[n])]]
<1>1. L \in Nat /\ \A n \in 1..L : made[n] \in Rows
  OBVIOUS
<1>2. Played(s, made) = r[L]
  BY DEF Played, L
<1>3. s \in S /\ \A n \in 1..L, u \in S : Apply(u, made[n]) \in S
  BY <1>1, AppliedValue, Zenon
<1> HIDE DEF L, S
<1>4. step \in [1..L -> [S -> S]] /\ \A n \in 1..L, u \in S : step[n][u] = Apply(u, made[n])
  <2>1. step \in [1..L -> [S -> S]]
    BY <1>3
  <2>2. \A n \in 1..L, u \in S : step[n][u] = Apply(u, made[n])
    OBVIOUS
  <2> QED BY <2>1, <2>2, Zenon
<1> HIDE DEF step
<1>5. PICK w \in [0..L -> S] : Follows(w, L, s, step)
  BY <1>1, <1>3, <1>4, StepsExist, Zenon
<1>6. w = [n \in 0..L |-> w[n]]
  OBVIOUS
<1>7. ASSUME NEW n \in 0..L PROVE w[n] = IF n = 0 THEN s ELSE Apply(w[n - 1], made[n])
  <2>1. CASE n # 0
    <3>1. n \in 1..L /\ n - 1 \in 0..L
      BY <1>1, <2>1
    <3>2. w[n - 1] \in S /\ w[n] = step[n][w[n - 1]]
      BY <1>5, <3>1 DEF Follows
    <3> QED BY <1>4, <2>1, <3>1, <3>2, Zenon
  <2>2. CASE n = 0
    BY <1>5, <2>2, Zenon DEF Follows
  <2> QED BY <2>1, <2>2, Zenon
<1>8. [n \in 0..L |-> w[n]] = [n \in 0..L |-> IF n = 0 THEN s ELSE Apply(w[n - 1], made[n])]
  BY <1>7, Zenon
<1>9. Reads(w)
  BY <1>6, <1>8, Zenon
<1>10. Reads(r)
  <2> HIDE DEF Reads
  <2> QED BY <1>9, Zenon
<1> HIDE DEF r
<1>11. \A n \in 0..L : r[n] = IF n = 0 THEN s ELSE Apply(r[n - 1], made[n])
  BY <1>10, Zenon
<1>12. r[0] = s /\ 0 \in 0..L
  <2>1. 0 \in 0..L
    BY <1>1
  <2> QED BY <1>11, <2>1, Zenon
<1>13. ASSUME NEW n \in 1..L PROVE r[n] = Apply(r[n - 1], made[n])
  <2>1. n \in 0..L /\ n # 0
    BY <1>1
  <2> QED BY <1>11, <2>1, Zenon
<1>14. \A n \in 0..L : r[n] \in S
  <2> DEFINE T == {n \in 0..L : r[n] \in S}
  <2>1. 0 \in T
    BY <1>3, <1>12
  <2>2. ASSUME NEW n \in 1..L, n - 1 \in T PROVE n \in T
    <3>1. n \in 0..L /\ r[n - 1] \in S
      BY <1>1, <2>2
    <3> QED BY <1>3, <1>13, <3>1, Zenon
  <2> HIDE DEF T
  <2>3. 0..L \subseteq T
    BY <1>1, <2>1, <2>2, StepByStep, Zenon
  <2> QED BY <2>3, Zenon DEF T
<1>15. Plays(r, made)
  BY <1>13, Zenon DEF Plays, L
<1>16. \A n \in 0..L : r[n] \in States /\ OneEach(r[n])
  BY <1>14 DEF S
<1> QED BY <1>2, <1>12, <1>15, <1>16, Zenon DEF L, PlaysFrom

\* Whatever starts with a state and takes the steps ends where the made lead.
LEMMA PlayedIs ==
  ASSUME NEW s \in States, OneEach(s), NEW made \in Seq(Rows), NEW w, w[0] = s, Plays(w, made)
  PROVE  Played(s, made) = w[Len(made)]
<1>1. PICK r : PlaysFrom(r, s, made)
  BY PlayedRuns, Zenon
<1>2. Len(made) \in Nat /\ Len(made) \in 0..Len(made)
  <2>1. Len(made) \in Nat
    OBVIOUS
  <2> QED BY <2>1
<1>3. StepAlike(r, w, Len(made))
  BY <1>1, Zenon DEF StepAlike, Plays, PlaysFrom
<1> QED BY <1>1, <1>2, <1>3, StepsAgree, Zenon DEF PlaysFrom

LEMMA PlayedType ==
  ASSUME NEW s \in States, OneEach(s), NEW made \in Seq(Rows)
  PROVE  Played(s, made) \in States /\ OneEach(Played(s, made))
<1>1. PICK r : PlaysFrom(r, s, made)
  BY PlayedRuns, Zenon
<1>2. Len(made) \in 0..Len(made)
  <2>1. Len(made) \in Nat
    OBVIOUS
  <2> QED BY <2>1
<1> QED BY <1>1, <1>2, Zenon DEF PlaysFrom

LEMMA PlayedNone ==
  ASSUME NEW s \in States, OneEach(s)
  PROVE  Played(s, <<>>) = s
<1>1. <<>> \in Seq(Rows) /\ Len(<<>>) = 0
  OBVIOUS
<1>2. PICK r : PlaysFrom(r, s, <<>>)
  BY <1>1, PlayedRuns, Zenon
<1> QED BY <1>1, <1>2, Zenon DEF PlaysFrom

LEMMA PlayedOne ==
  ASSUME NEW s \in States, OneEach(s), NEW e \in Rows
  PROVE  Played(s, <<e>>) = Apply(s, e)
<1>1. <<e>> \in Seq(Rows) /\ Len(<<e>>) = 1 /\ 1 \in 1..1 /\ <<e>>[1] = e /\ 1 - 1 = 0
  OBVIOUS
<1>2. PICK r : PlaysFrom(r, s, <<e>>)
  BY <1>1, PlayedRuns, Zenon
<1>3. r[1] = Apply(r[1 - 1], <<e>>[1])
  BY <1>1, <1>2, Zenon DEF Plays, PlaysFrom
<1> QED BY <1>1, <1>2, <1>3, Zenon DEF PlaysFrom

LEMMA PlayedJoined ==
  ASSUME NEW s \in States, OneEach(s), NEW a \in Seq(Rows), NEW b \in Seq(Rows)
  PROVE  a \o b \in Seq(Rows) /\ Played(s, a \o b) = Played(Played(s, a), b)
<1> PICK k : k = Len(a)
  OBVIOUS
<1> PICK l : l = Len(b)
  OBVIOUS
<1> PICK c : c = a \o b
  OBVIOUS
<1>1. /\ k \in Nat /\ l \in Nat /\ c \in Seq(Rows) /\ Len(c) = k + l
      /\ \A n \in 1..(k + l) : c[n] = IF n <= k THEN a[n] ELSE b[n - k]
  BY ConcatProperties
<1>2. PICK r : PlaysFrom(r, s, a)
  BY PlayedRuns, Zenon
<1>10. r[0] = s /\ Plays(r, a) /\ Played(s, a) = r[k]
  BY <1>2, Zenon DEF PlaysFrom
<1>3. Played(s, a) \in States /\ OneEach(Played(s, a))
  BY PlayedType, Zenon
<1>4. PICK q : PlaysFrom(q, Played(s, a), b)
  BY <1>3, PlayedRuns, Zenon
<1>11. q[0] = Played(s, a) /\ Plays(q, b) /\ Played(Played(s, a), b) = q[l]
  BY <1>4, Zenon DEF PlaysFrom
<1> DEFINE w == [n \in 0..(k + l) |-> IF n <= k THEN r[n] ELSE q[n - k]]
<1>5. w[0] = s
  BY <1>1, <1>10
<1>6. w[k + l] = q[l]
  <2>1. CASE l = 0
    BY <1>1, <1>10, <1>11, <2>1
  <2>2. CASE l # 0
    BY <1>1, <2>2
  <2> QED BY <2>1, <2>2
<1>7. ASSUME NEW n \in 1..(k + l) PROVE w[n] = Apply(w[n - 1], c[n])
  <2>1. CASE n <= k
    <3>1. n \in 1..k /\ w[n] = r[n] /\ w[n - 1] = r[n - 1] /\ c[n] = a[n]
      BY <1>1, <2>1
    <3>2. r[n] = Apply(r[n - 1], a[n])
      BY <1>10, <3>1, Zenon DEF Plays
    <3> HIDE DEF w
    <3> QED BY <3>1, <3>2, Zenon
  <2>2. CASE n > k
    <3>1. n - k \in 1..l /\ w[n] = q[n - k] /\ c[n] = b[n - k]
      BY <1>1, <2>2
    <3>2. w[n - 1] = q[(n - k) - 1]
      <4>1. CASE n = k + 1
        BY <1>1, <1>10, <1>11, <4>1
      <4>2. CASE n # k + 1
        BY <1>1, <2>2, <4>2
      <4> QED BY <4>1, <4>2
    <3>3. q[n - k] = Apply(q[(n - k) - 1], b[n - k])
      BY <1>11, <3>1, Zenon DEF Plays
    <3> HIDE DEF w
    <3> QED BY <3>1, <3>2, <3>3, Zenon
  <2> QED BY <1>1, <2>1, <2>2
<1> HIDE DEF w
<1>8. Plays(w, c)
  BY <1>1, <1>7, Zenon DEF Plays
<1>9. Played(s, c) = w[Len(c)]
  BY <1>1, <1>5, <1>8, PlayedIs, Zenon
<1> QED BY <1>1, <1>11, <1>6, <1>9, Zenon

\* What is held on a slot once its row is played.
RowValue(slot, value) ==
  IF ~slot.changed THEN value
  ELSE IF slot.lifting THEN IF slot.placed THEN Neutral ELSE value
  ELSE IF slot.active THEN slot.at ELSE value

NewRows(s, slot) == IF slot.changed THEN RowOf(s, slot) ELSE <<>>

LEMMA RowPlayed ==
  ASSUME GeteventAssumption, NEW state \in States, OneEach(state), NEW s \in Tracked, NEW slot \in SlotTypes
  PROVE  /\ NewRows(s, slot) \in Seq(Rows)
         /\ \A c : ValueOf(Played(state, NewRows(s, slot)), c) =
                     IF c = s THEN RowValue(slot, ValueOf(state, c)) ELSE ValueOf(state, c)
<1> DEFINE made == NewRows(s, slot)
           v == RowValue(slot, ValueOf(state, s))
<1>1. s \in Controls /\ slot.at \in Nat /\ Neutral \in Nat
  BY DEF GeteventAssumption, Tracked, SlotTypes, Neutral
<1>2. \/ made = <<>> /\ v = ValueOf(state, s)
      \/ \E e \in Rows : made = <<e>> /\ e.control = s /\ e.value = v
  <2>1. CASE slot.changed /\ slot.lifting /\ slot.placed
    <3>1. Set(s, Neutral) \in Rows /\ Set(s, Neutral).control = s /\ Set(s, Neutral).value = Neutral
      BY <1>1 DEF Set, Rows
    <3>2. made = <<Set(s, Neutral)>> /\ v = Neutral
      BY <2>1, Zenon DEF NewRows, RowOf, RowValue
    <3> HIDE DEF made, v
    <3> QED BY <3>1, <3>2, Zenon
  <2>2. CASE slot.changed /\ ~slot.lifting /\ slot.active
    <3>1. Set(s, slot.at) \in Rows /\ Set(s, slot.at).control = s /\ Set(s, slot.at).value = slot.at
      BY <1>1 DEF Set, Rows
    <3>2. made = <<Set(s, slot.at)>> /\ v = slot.at
      BY <2>2, Zenon DEF NewRows, RowOf, RowValue
    <3> HIDE DEF made, v
    <3> QED BY <3>1, <3>2, Zenon
  <2>3. CASE ~slot.changed \/ (slot.lifting /\ ~slot.placed) \/ (~slot.lifting /\ ~slot.active)
    BY <2>3, Zenon DEF NewRows, RowOf, RowValue
  <2> QED BY <2>1, <2>2, <2>3, Zenon
<1> HIDE DEF made, v
<1>3. CASE made = <<>> /\ v = ValueOf(state, s)
  <2>1. made \in Seq(Rows) /\ Played(state, made) = state
    <3>1. <<>> \in Seq(Rows)
      OBVIOUS
    <3> QED BY <1>3, <3>1, PlayedNone, Zenon
  <2> QED BY <1>3, <2>1, Zenon DEF made, v
<1>4. ASSUME NEW e \in Rows, made = <<e>>, e.control = s, e.value = v
      PROVE  /\ made \in Seq(Rows)
             /\ \A c : ValueOf(Played(state, made), c) = IF c = s THEN v ELSE ValueOf(state, c)
  <2>1. made \in Seq(Rows)
    BY <1>4
  <2>2. Played(state, made) = Apply(state, e)
    BY <1>4, PlayedOne, Zenon
  <2>3. \A c : ValueOf(Apply(state, e), c) = IF c = e.control THEN e.value ELSE ValueOf(state, c)
    BY AppliedValue, Zenon
  <2>4. ASSUME NEW c PROVE ValueOf(Played(state, made), c) = IF c = s THEN v ELSE ValueOf(state, c)
    <3>1. ValueOf(Apply(state, e), c) = IF c = s THEN v ELSE ValueOf(state, c)
      BY <1>4, <2>3, Zenon
    <3> QED BY <2>2, <3>1, Zenon
  <2> QED BY <2>1, <2>4, Zenon
<1> QED BY <1>2, <1>3, <1>4, Zenon DEF made, v

LEMMA SlotRowsPlayed ==
  ASSUME GeteventAssumption, NEW state \in States, OneEach(state), NEW slots \in [Tracked -> SlotTypes]
  PROVE  /\ SlotRows(slots) \in Seq(Rows)
         /\ \A c : ValueOf(Played(state, SlotRows(slots)), c) =
                     IF c \in Tracked THEN RowValue(slots[c], ValueOf(state, c)) ELSE ValueOf(state, c)
<1> DEFINE L == max_slots
           X == Seq(Rows)
           Of(n) == NewRows(n - 1, slots[n - 1])
           Reads(f) == f = [n \in 0..L |-> IF n = 0 THEN <<>> ELSE f[n - 1] \o Of(n)]
           r == CHOOSE g : Reads(g)
           step == [n \in 1..L |-> [u \in X |-> u \o Of(n)]]
<1>1. L \in Nat /\ Tracked = 0..(L - 1)
  BY DEF GeteventAssumption, Tracked
<1>2. SlotRows(slots) = r[L]
  BY DEF SlotRows, NewRows
<1>3. ASSUME NEW n \in 1..L PROVE Of(n) \in X /\ n - 1 \in Tracked /\ slots[n - 1] \in SlotTypes
  <2>1. n - 1 \in Tracked
    BY <1>1
  <2>2. slots[n - 1] \in SlotTypes
    BY <2>1
  <2> QED BY <2>1, <2>2, RowPlayed, Zenon
<1> HIDE DEF L, Of
<1>4. step \in [1..L -> [X -> X]] /\ \A n \in 1..L, u \in X : step[n][u] = u \o Of(n)
  <2>1. \A n \in 1..L, u \in X : u \o Of(n) \in X
    BY <1>3, ConcatProperties, Zenon
  <2> HIDE DEF X
  <2>2. step \in [1..L -> [X -> X]]
    BY <2>1
  <2>3. \A n \in 1..L, u \in X : step[n][u] = u \o Of(n)
    OBVIOUS
  <2> QED BY <2>2, <2>3, Zenon
<1>5. <<>> \in X
  OBVIOUS
<1> HIDE DEF step, X
<1>6. PICK w \in [0..L -> X] : Follows(w, L, <<>>, step)
  BY <1>1, <1>4, <1>5, StepsExist, Zenon
<1>7. w = [n \in 0..L |-> w[n]]
  OBVIOUS
<1>8. ASSUME NEW n \in 0..L PROVE w[n] = IF n = 0 THEN <<>> ELSE w[n - 1] \o Of(n)
  <2>1. CASE n # 0
    <3>1. n \in 1..L /\ n - 1 \in 0..L
      BY <1>1, <2>1
    <3>2. w[n - 1] \in X /\ w[n] = step[n][w[n - 1]]
      BY <1>6, <3>1 DEF Follows
    <3> QED BY <1>4, <2>1, <3>1, <3>2, Zenon
  <2>2. CASE n = 0
    BY <1>6, <2>2, Zenon DEF Follows
  <2> QED BY <2>1, <2>2, Zenon
<1>9. [n \in 0..L |-> w[n]] = [n \in 0..L |-> IF n = 0 THEN <<>> ELSE w[n - 1] \o Of(n)]
  BY <1>8, Zenon
<1>10. Reads(r)
  <2>1. Reads(w)
    BY <1>7, <1>9, Zenon
  <2> HIDE DEF Reads
  <2> QED BY <2>1, Zenon
<1> HIDE DEF r
<1>11. \A n \in 0..L : r[n] = IF n = 0 THEN <<>> ELSE r[n - 1] \o Of(n)
  BY <1>10, Zenon
<1> DEFINE Right(n) ==
             /\ r[n] \in X
             /\ \A c : ValueOf(Played(state, r[n]), c) =
                         IF c \in 0..(n - 1) THEN RowValue(slots[c], ValueOf(state, c)) ELSE ValueOf(state, c)
           T == {n \in 0..L : Right(n)}
<1>12. 0 \in T
  <2>1. 0 \in 0..L /\ r[0] = <<>>
    <3>1. 0 \in 0..L
      BY <1>1
    <3> QED BY <1>11, <3>1, Zenon
  <2>2. \A c : c \notin 0..(0 - 1)
    OBVIOUS
  <2>3. Played(state, r[0]) = state
    BY <2>1, PlayedNone, Zenon
  <2> QED BY <1>5, <2>1, <2>2, <2>3, Zenon
<1>13. ASSUME NEW n \in 1..L, n - 1 \in T PROVE n \in T
  <2>1. n \in 0..L /\ n # 0
    BY <1>1
  <2>2. r[n] = r[n - 1] \o Of(n) /\ r[n - 1] \in X /\ Of(n) \in X
    BY <1>3, <1>11, <1>13, <2>1, Zenon
  <2> PICK mid : mid = Played(state, r[n - 1])
    OBVIOUS
  <2>3. mid \in States /\ OneEach(mid) /\ r[n] \in X /\ Played(state, r[n]) = Played(mid, Of(n))
    <3> PICK a : a = r[n - 1]
      OBVIOUS
    <3> PICK b : b = Of(n)
      OBVIOUS
    <3>1. a \in Seq(Rows) /\ b \in Seq(Rows) /\ r[n] = a \o b /\ mid = Played(state, a)
      BY <2>2, Zenon DEF X
    <3>2. mid \in States /\ OneEach(mid)
      BY <3>1, PlayedType, Zenon
    <3>3. a \o b \in Seq(Rows) /\ Played(state, a \o b) = Played(Played(state, a), b)
      BY <3>1, PlayedJoined, Zenon
    <3> QED BY <3>1, <3>2, <3>3, Zenon DEF X
  <2>4. \A c : ValueOf(Played(mid, Of(n)), c) =
                 IF c = n - 1 THEN RowValue(slots[n - 1], ValueOf(mid, c)) ELSE ValueOf(mid, c)
    BY <1>3, <2>3, RowPlayed, Zenon DEF Of
  <2>5. \A c : ValueOf(mid, c) =
                 IF c \in 0..((n - 1) - 1) THEN RowValue(slots[c], ValueOf(state, c)) ELSE ValueOf(state, c)
    BY <1>13, Zenon
  <2>6. \A c : /\ c \in 0..(n - 1) <=> c \in 0..((n - 1) - 1) \/ c = n - 1
               /\ c = n - 1 => c \notin 0..((n - 1) - 1)
    OBVIOUS
  <2>7. ASSUME NEW c
        PROVE  ValueOf(Played(state, r[n]), c) =
                 IF c \in 0..(n - 1) THEN RowValue(slots[c], ValueOf(state, c)) ELSE ValueOf(state, c)
    <3>1. CASE c = n - 1
      BY <2>3, <2>4, <2>5, <2>6, <3>1, Zenon
    <3>2. CASE c # n - 1
      BY <2>3, <2>4, <2>5, <2>6, <3>2, Zenon
    <3> QED BY <3>1, <3>2, Zenon
  <2> QED BY <2>1, <2>3, <2>7, Zenon
<1>14. L \in T
  <2> HIDE DEF T
  <2>1. 0..L \subseteq T
    BY <1>1, <1>12, <1>13, StepByStep, Zenon
  <2>2. L \in 0..L
    BY <1>1
  <2> QED BY <2>1, <2>2, Zenon
<1> QED BY <1>1, <1>2, <1>14, Zenon DEF X

-----------------------------------------------------------------------------
(* What the parser makes of a line                                         *)

\* What is fed goes to a slot and to the slots, and made come after what is held.
Effect(fed, slot, slots, made) ==
  /\ fed.parser \in ParserTypes /\ fed.parser.slot = slot /\ fed.parser.slots = slots
  /\ fed.rows \in Seq(Rows) /\ made \in Seq(Rows) /\ fed.wait \in Int
  /\ Played(Played(out, fed.rows), fed.parser.pending \o fed.parser.frame) = Played(HeldNow, made)
  /\ \/ fed.wait = 0 /\ fed.parser.since = parser.since /\ fed.parser.pending = parser.pending
     \/ /\ fed.parser.pending # <<>> /\ fed.parser.since # 0
        /\ fed.wait = IF parser.pending = <<>> THEN 0 ELSE fed.parser.since - parser.since

LEMMA PlayedInParts ==
  ASSUME NEW s \in States, OneEach(s), NEW a \in Seq(Rows), NEW b \in Seq(Rows), NEW c \in Seq(Rows)
  PROVE  /\ Played(s, a \o (b \o c)) = Played(Played(s, a \o b), c)
         /\ Played(Played(s, a), b \o c) = Played(Played(s, a \o b), c)
<1> PICK d : d = a \o b
  OBVIOUS
<1> PICK e : e = b \o c
  OBVIOUS
<1>1. d \in Seq(Rows) /\ e \in Seq(Rows)
  BY ConcatProperties, Zenon
<1>2. (a \o b) \o c = a \o (b \o c)
  BY ConcatAssociative
<1>3. d \o c = a \o e
  BY <1>2
<1>4. Played(s, d \o c) = Played(Played(s, d), c)
  BY <1>1, PlayedJoined, Zenon
<1>5. Played(s, a \o e) = Played(Played(s, a), e)
  BY <1>1, PlayedJoined, Zenon
<1> QED BY <1>3, <1>4, <1>5, Zenon

LEMMA HeldType ==
  ASSUME GeteventTypes
  PROVE  /\ parser.pending \in Seq(Rows) /\ parser.frame \in Seq(Rows)
         /\ parser.pending \o parser.frame \in Seq(Rows)
         /\ HeldNow \in States /\ OneEach(HeldNow)
         /\ parser.slots \in [Tracked -> SlotTypes] /\ parser.slot \in 0..max_slots /\ parser.since \in Nat
         /\ out \in States /\ OneEach(out)
<1>1. /\ parser.pending \in Seq(Rows) /\ parser.frame \in Seq(Rows)
      /\ parser.slots \in [Tracked -> SlotTypes] /\ parser.slot \in 0..max_slots /\ parser.since \in Nat
      /\ out \in States /\ OneEach(out)
  BY DEF GeteventTypes, ParserTypes
<1>2. parser.pending \o parser.frame \in Seq(Rows)
  BY <1>1, ConcatProperties, Zenon
<1> QED BY <1>1, <1>2, PlayedType, Zenon DEF HeldNow

\* A line that closes no frame: the frame may have grown.
LEMMA QuietEffect ==
  ASSUME GeteventTypes, NEW p \in ParserTypes, NEW made \in Seq(Rows), p.pending = parser.pending,
         p.since = parser.since, p.frame = parser.frame \o made
  PROVE  Effect(Quietly(p), p.slot, p.slots, made)
<1> PICK fed : fed = Quietly(p)
  OBVIOUS
<1>1. fed.parser = p /\ fed.rows = <<>> /\ fed.wait = 0
  BY DEF Quietly
<1>2. <<>> \in Seq(Rows) /\ 0 \in Int
  OBVIOUS
<1>3. Played(out, <<>>) = out
  BY HeldType, PlayedNone, Zenon
<1>5. Played(out, p.pending \o p.frame) = Played(HeldNow, made)
  <2> PICK a : a = parser.pending
    OBVIOUS
  <2> PICK b : b = parser.frame
    OBVIOUS
  <2>1. a \in Seq(Rows) /\ b \in Seq(Rows) /\ out \in States /\ OneEach(out)
    BY HeldType, Zenon
  <2>2. Played(out, a \o (b \o made)) = Played(Played(out, a \o b), made)
    BY <2>1, PlayedInParts, Zenon
  <2> QED BY <2>2, Zenon DEF HeldNow
<1>6. Played(Played(out, fed.rows), fed.parser.pending \o fed.parser.frame) = Played(HeldNow, made)
  BY <1>1, <1>3, <1>5, Zenon
<1> QED BY <1>1, <1>2, <1>6, Zenon DEF Effect

LEMMA CloseEffect ==
  ASSUME GeteventTypes, NEW slots \in [Tracked -> SlotTypes], NEW made \in Seq(Rows), NEW time \in Nat \ {0}
  PROVE  Effect(CloseFrame(parser, slots, made, time), parser.slot, slots, made)
<1> PICK fed : fed = CloseFrame(parser, slots, made, time)
  OBVIOUS
<1> PICK frame : frame = parser.frame \o made
  OBVIOUS
<1>1. /\ parser \in ParserTypes /\ parser.pending \in Seq(Rows) /\ parser.frame \in Seq(Rows)
      /\ frame \in Seq(Rows) /\ <<>> \in Seq(Rows) /\ out \in States /\ OneEach(out)
      /\ HeldNow \in States /\ OneEach(HeldNow)
  <2>1. <<>> \in Seq(Rows)
    OBVIOUS
  <2>2. parser.pending \in Seq(Rows) /\ parser.frame \in Seq(Rows)
    BY HeldType, Zenon
  <2>3. frame \in Seq(Rows)
    BY <2>2, ConcatProperties, Zenon
  <2>4. parser \in ParserTypes
    BY DEF GeteventTypes
  <2> QED BY <2>1, <2>2, <2>3, <2>4, HeldType, Zenon
<1>2. CASE frame = <<>>
  <2> PICK p : p = [parser EXCEPT !.slots = slots]
    OBVIOUS
  <2>1. fed = [parser |-> p, rows |-> <<>>, wait |-> 0]
    BY <1>2, Zenon DEF CloseFrame
  <2>2. fed = Quietly(p)
    BY <2>1, Zenon DEF Quietly
  <2>3. /\ p \in ParserTypes /\ p.slot = parser.slot /\ p.slots = slots /\ p.pending = parser.pending
        /\ p.since = parser.since /\ p.frame = parser.frame
    BY <1>1 DEF ParserTypes
  <2>4. Effect(Quietly(p), p.slot, p.slots, made)
    <3>1. parser.frame = parser.frame \o made
      <4> PICK b : b = parser.frame
        OBVIOUS
      <4>1. b \in Seq(Rows) /\ b \o made = <<>>
        BY <1>1, <1>2, Zenon
      <4>2. b = <<>> /\ made = <<>>
        BY <4>1, ConcatEqualIffEmpty
      <4> QED BY <4>1, <4>2, Zenon
    <3>2. p.frame = parser.frame \o made
      BY <2>3, <3>1, Zenon
    <3> QED BY <2>3, <3>2, QuietEffect, Zenon
  <2> QED BY <2>2, <2>3, <2>4, Zenon
<1>3. CASE frame # <<>>
  <2> PICK p : p = [parser EXCEPT !.slots = slots, !.frame = <<>>, !.pending = frame, !.since = time]
    OBVIOUS
  <2> PICK wait : wait = IF parser.pending = <<>> THEN 0 ELSE time - parser.since
    OBVIOUS
  <2>1. fed = [parser |-> p, rows |-> parser.pending, wait |-> wait]
    BY <1>3, Zenon DEF CloseFrame
  <2>2. fed.parser = p /\ fed.rows = parser.pending /\ fed.wait = wait
    BY <2>1
  <2>3. /\ p \in ParserTypes /\ p.slot = parser.slot /\ p.slots = slots /\ p.pending = frame
        /\ p.since = time /\ p.frame = <<>>
    BY <1>1 DEF ParserTypes
  <2>4. wait \in Int /\ time # 0
    <3>1. parser.since \in Nat
      BY HeldType, Zenon
    <3> QED BY <3>1
  <2>5. p.pending \o p.frame = frame
    BY <1>1, <2>3, ConcatEmptySeq, Zenon
  <2>6. Played(Played(out, parser.pending), frame) = Played(HeldNow, made)
    <3> PICK a : a = parser.pending
      OBVIOUS
    <3> PICK b : b = parser.frame
      OBVIOUS
    <3>1. a \in Seq(Rows) /\ b \in Seq(Rows) /\ frame = b \o made
      BY <1>1, Zenon
    <3>2. Played(Played(out, a), b \o made) = Played(Played(out, a \o b), made)
      BY <1>1, <3>1, PlayedInParts
    <3> QED BY <3>1, <3>2, Zenon DEF HeldNow
  <2>7. fed.rows \in Seq(Rows) /\ fed.wait \in Int
    BY <1>1, <2>2, <2>4, Zenon
  <2>8. Played(Played(out, fed.rows), fed.parser.pending \o fed.parser.frame) = Played(HeldNow, made)
    BY <2>2, <2>5, <2>6, Zenon
  <2>9. /\ fed.parser.pending # <<>> /\ fed.parser.since # 0
        /\ fed.wait = IF parser.pending = <<>> THEN 0 ELSE fed.parser.since - parser.since
    BY <1>3, <2>2, <2>3, <2>4, Zenon
  <2> QED BY <2>2, <2>3, <2>7, <2>8, <2>9, Zenon DEF Effect
<1> QED BY <1>2, <1>3, Zenon

LEMMA LesserOfTwo ==
  ASSUME NEW a \in Nat, NEW b \in Nat
  PROVE  Min({a, b}) \in 0..b /\ Min({a, b}) = IF a <= b THEN a ELSE b
<1>1. {a, b} \subseteq Nat /\ {a, b} # {}
  OBVIOUS
<1> PICK m : m = Min({a, b})
  OBVIOUS
<1>2. m \in {a, b} /\ \A n \in {a, b} : m <= n
  BY <1>1, LeastNumber, Zenon
<1>3. \A n \in {a, b} : n \in Nat /\ ((\A k \in {a, b} : n <= k) => n \in 0..b /\ n = IF a <= b THEN a ELSE b)
  OBVIOUS
<1>4. m \in 0..b /\ m = IF a <= b THEN a ELSE b
  BY <1>2, <1>3, Zenon
<1> QED BY <1>4, Zenon

Touched(slot, line) ==
  IF line.kind = "new" THEN StartContact(slot)
  ELSE IF line.kind = "end" THEN EndContact(slot)
  ELSE Place(slot, line.more)

TouchedSlots(line) ==
  IF parser.slot \in Tracked
  THEN [parser.slots EXCEPT ![parser.slot] = Touched(parser.slots[parser.slot], line)]
  ELSE parser.slots

KeyRows(line) == IF Filtered THEN <<>> ELSE <<Set(line.value, line.more)>>

LEMMA TouchedType ==
  ASSUME NEW slot \in SlotTypes, NEW line \in LineTypes
  PROVE  Touched(slot, line) \in SlotTypes
<1>1. StartContact(slot) \in SlotTypes
  BY DEF StartContact, SlotTypes
<1>2. EndContact(slot) \in SlotTypes
  BY DEF EndContact, SlotTypes
<1>3. Place(slot, line.more) \in SlotTypes
  <2>1. line.more \in Nat
    BY DEF LineTypes
  <2> QED BY <2>1 DEF Place, SlotTypes
<1> QED BY <1>1, <1>2, <1>3, Zenon DEF Touched

LEMMA ClosedType == ASSUME NEW slot \in SlotTypes PROVE Closed(slot) \in SlotTypes
  BY DEF Closed, SlotTypes

\* A step of the parser that says nothing of the frame.
LEMMA SilentEffect ==
  ASSUME GeteventTypes, NEW slot \in 0..max_slots, NEW slots \in [Tracked -> SlotTypes], NEW p,
         p = [parser EXCEPT !.slot = slot, !.slots = slots]
  PROVE  Effect(Quietly(p), slot, slots, <<>>)
<1>1. /\ p \in ParserTypes /\ p.slot = slot /\ p.slots = slots /\ p.pending = parser.pending
      /\ p.since = parser.since /\ p.frame = parser.frame
  BY DEF GeteventTypes, ParserTypes
<1>2. <<>> \in Seq(Rows)
  OBVIOUS
<1>3. p.frame = parser.frame \o <<>>
  <2>1. parser.frame \in Seq(Rows)
    BY HeldType, Zenon
  <2> QED BY <1>1, <2>1
<1>4. Effect(Quietly(p), p.slot, p.slots, <<>>)
  BY <1>1, <1>2, <1>3, QuietEffect, Zenon
<1> QED BY <1>1, <1>4, Zenon

LEMMA FeedEffect ==
  ASSUME GeteventAssumption, GeteventTypes, NEW line \in LineTypes,
         line.kind \in ContactLines => line.value \in PanelSlots,
         line.kind = "key" => line.value \in Keys
  PROVE  /\ line.kind = "slot" =>
              Effect(Feed(parser, line), Min({line.value, max_slots}), parser.slots, <<>>)
         /\ line.kind \in SlotLines =>
              Effect(Feed(parser, line), parser.slot, TouchedSlots(line), <<>>)
         /\ line.kind = "syn" =>
              Effect(Feed(parser, line), parser.slot, [s \in Tracked |-> Closed(parser.slots[s])],
                     SlotRows(parser.slots))
         /\ line.kind = "key" => Effect(Feed(parser, line), parser.slot, parser.slots, KeyRows(line))
         /\ line.kind = "keysyn" => Effect(Feed(parser, line), parser.slot, parser.slots, <<>>)
<1>1. /\ parser \in ParserTypes /\ parser.slot \in 0..max_slots /\ parser.slots \in [Tracked -> SlotTypes]
      /\ parser.frame \in Seq(Rows) /\ <<>> \in Seq(Rows)
  <2>1. <<>> \in Seq(Rows)
    OBVIOUS
  <2> QED BY <2>1, HeldType, Zenon DEF GeteventTypes
<1>2. \A slot \in 0..max_slots : [parser EXCEPT !.slot = slot, !.slots = parser.slots] = [parser EXCEPT !.slot = slot]
  BY <1>1 DEF ParserTypes
<1>3. \A slots : [parser EXCEPT !.slot = parser.slot, !.slots = slots] = [parser EXCEPT !.slots = slots]
  BY <1>1 DEF ParserTypes
<1>4. [parser EXCEPT !.slot = parser.slot, !.slots = parser.slots] = parser
  BY <1>1 DEF ParserTypes
<1>5. Effect(Quietly(parser), parser.slot, parser.slots, <<>>)
  BY <1>1, <1>4, SilentEffect, Zenon
<1>6. ASSUME line.kind = "slot"
      PROVE  Effect(Feed(parser, line), Min({line.value, max_slots}), parser.slots, <<>>)
  <2> PICK m : m = Min({line.value, max_slots})
    OBVIOUS
  <2>1. line.value \in Nat /\ max_slots \in Nat
    BY <1>6 DEF GeteventAssumption, ContactLines
  <2>2. m \in 0..max_slots
    <3>1. Min({line.value, max_slots}) \in 0..max_slots
      BY <2>1, LesserOfTwo, Zenon
    <3> QED BY <3>1, Zenon
  <2> PICK p : p = [parser EXCEPT !.slot = m]
    OBVIOUS
  <2>3. Feed(parser, line) = Quietly(p)
    BY <1>6 DEF Feed
  <2>4. p = [parser EXCEPT !.slot = m, !.slots = parser.slots]
    BY <1>2, <2>2
  <2>5. Effect(Quietly(p), m, parser.slots, <<>>)
    BY <1>1, <2>2, <2>4, SilentEffect, Zenon
  <2> QED BY <2>3, <2>5, Zenon
<1>7. ASSUME line.kind \in SlotLines
      PROVE  Effect(Feed(parser, line), parser.slot, TouchedSlots(line), <<>>)
  <2> PICK changed : changed = Touched(Selected(parser), line)
    OBVIOUS
  <2>1. Feed(parser, line) = InSlot(parser, changed)
    <3>1. line.kind \in {"new", "end", "place"}
      BY <1>7 DEF SlotLines
    <3>2. CASE line.kind = "new"
      BY <3>2 DEF Feed, Touched
    <3>3. CASE line.kind = "end"
      BY <3>3 DEF Feed, Touched
    <3>4. CASE line.kind = "place"
      BY <3>4 DEF Feed, Touched
    <3> QED BY <3>1, <3>2, <3>3, <3>4, Zenon
  <2>2. CASE parser.slot \notin Tracked
    <3>1. Feed(parser, line) = Quietly(parser) /\ TouchedSlots(line) = parser.slots
      BY <2>1, <2>2, Zenon DEF InSlot, TouchedSlots
    <3> QED BY <1>5, <3>1, Zenon
  <2>3. CASE parser.slot \in Tracked
    <3> PICK slots : slots = [parser.slots EXCEPT ![parser.slot] = changed]
      OBVIOUS
    <3>1. TouchedSlots(line) = slots
      BY <2>3, Zenon DEF TouchedSlots, Selected
    <3> PICK p : p = [parser EXCEPT !.slots[parser.slot] = changed]
      OBVIOUS
    <3>2. Feed(parser, line) = Quietly(p)
      BY <2>1, <2>3, Zenon DEF InSlot
    <3>3. p = [parser EXCEPT !.slots = slots]
      OBVIOUS
    <3>4. p = [parser EXCEPT !.slot = parser.slot, !.slots = slots]
      BY <1>3, <3>3, Zenon
    <3>5. slots \in [Tracked -> SlotTypes]
      <4>1. parser.slots[parser.slot] \in SlotTypes
        BY <1>1, <2>3
      <4>2. changed \in SlotTypes
        BY <4>1, TouchedType, Zenon DEF Selected
      <4> QED BY <1>1, <4>2
    <3>6. Effect(Quietly(p), parser.slot, slots, <<>>)
      BY <1>1, <3>4, <3>5, SilentEffect, Zenon
    <3> QED BY <3>1, <3>2, <3>6, Zenon
  <2> QED BY <2>2, <2>3, Zenon
<1>8. ASSUME line.kind = "syn"
      PROVE  Effect(Feed(parser, line), parser.slot, [s \in Tracked |-> Closed(parser.slots[s])],
                    SlotRows(parser.slots))
  <2> PICK slots : slots = [s \in Tracked |-> Closed(parser.slots[s])]
    OBVIOUS
  <2>1. Feed(parser, line) = CloseFrame(parser, slots, SlotRows(parser.slots), line.time)
    BY <1>8 DEF Feed, ClosePanelFrame
  <2>2. slots \in [Tracked -> SlotTypes]
    <3>1. \A s \in Tracked : Closed(parser.slots[s]) \in SlotTypes
      BY <1>1, ClosedType
    <3> QED BY <3>1
  <2>3. SlotRows(parser.slots) \in Seq(Rows) /\ line.time \in Nat \ {0}
    <3>1. line.time \in Nat \ {0}
      BY DEF LineTypes
    <3> QED BY <1>1, <3>1, HeldType, SlotRowsPlayed, Zenon
  <2> QED BY <2>1, <2>2, <2>3, CloseEffect, Zenon
<1>9. ASSUME line.kind = "key"
      PROVE  Effect(Feed(parser, line), parser.slot, parser.slots, KeyRows(line))
  <2>1. CASE Filtered
    <3>1. Feed(parser, line) = Quietly(parser) /\ KeyRows(line) = <<>>
      BY <1>9, <2>1 DEF Feed, KeyRows
    <3> QED BY <1>5, <3>1, Zenon
  <2>2. CASE ~Filtered
    <3> PICK row : row = Set(line.value, line.more)
      OBVIOUS
    <3> PICK p : p = [parser EXCEPT !.frame = Append(parser.frame, row)]
      OBVIOUS
    <3>1. Feed(parser, line) = Quietly(p) /\ KeyRows(line) = <<row>>
      BY <1>9, <2>2 DEF Feed, KeyRows
    <3>2. row \in Rows /\ <<row>> \in Seq(Rows)
      <4>1. line.value \in Controls /\ line.more \in Nat
        BY <1>9 DEF LineTypes, GeteventAssumption
      <4>2. row \in Rows
        BY <4>1 DEF Rows, Set
      <4> QED BY <4>2
    <3>3. Append(parser.frame, row) = parser.frame \o <<row>> /\ Append(parser.frame, row) \in Seq(Rows)
      BY <1>1, <3>2
    <3>4. /\ p \in ParserTypes /\ p.slot = parser.slot /\ p.slots = parser.slots
          /\ p.pending = parser.pending /\ p.since = parser.since
          /\ p.frame = Append(parser.frame, row)
      BY <1>1, <3>3 DEF ParserTypes
    <3>5. p.frame = parser.frame \o <<row>>
      BY <3>3, <3>4, Zenon
    <3>6. Effect(Quietly(p), p.slot, p.slots, <<row>>)
      BY <3>2, <3>4, <3>5, QuietEffect, Zenon
    <3> QED BY <3>1, <3>4, <3>6, Zenon
  <2> QED BY <2>1, <2>2, Zenon
<1>10. ASSUME line.kind = "keysyn"
       PROVE  Effect(Feed(parser, line), parser.slot, parser.slots, <<>>)
  <2>1. CASE Filtered
    <3>1. Feed(parser, line) = Quietly(parser)
      BY <1>10, <2>1 DEF Feed
    <3> QED BY <1>5, <3>1, Zenon
  <2>2. CASE ~Filtered
    <3>1. Feed(parser, line) = CloseFrame(parser, parser.slots, <<>>, line.time)
      BY <1>10, <2>2 DEF Feed
    <3>2. line.time \in Nat \ {0}
      BY DEF LineTypes
    <3> QED BY <1>1, <3>1, <3>2, CloseEffect, Zenon
  <2> QED BY <2>1, <2>2, Zenon
<1> QED BY <1>6, <1>7, <1>8, <1>9, <1>10, Zenon

LEMMA EffectHolds ==
  ASSUME GeteventAssumption, GeteventTypes, TimeInv, Going, NEW fed, NEW slot, NEW slots, NEW made,
         Effect(fed, slot, slots, made), parser' = fed.parser, out' = Played(out, fed.rows),
         waited' = waited + fed.wait, begun' = IF begun = 0 THEN fed.parser.since ELSE begun
  PROVE  /\ parser' \in ParserTypes /\ parser'.slot = slot /\ parser'.slots = slots
         /\ made \in Seq(Rows) /\ out' \in States /\ OneEach(out') /\ HeldNow' = Played(HeldNow, made)
         /\ waited' \in Int /\ begun' \in Nat /\ TimeInv'
<1>1. /\ fed.parser \in ParserTypes /\ fed.parser.slot = slot /\ fed.parser.slots = slots
      /\ fed.rows \in Seq(Rows) /\ made \in Seq(Rows) /\ fed.wait \in Int
      /\ Played(Played(out, fed.rows), fed.parser.pending \o fed.parser.frame) = Played(HeldNow, made)
  BY Zenon DEF Effect
<1>2. \/ fed.wait = 0 /\ fed.parser.since = parser.since /\ fed.parser.pending = parser.pending
      \/ /\ fed.parser.pending # <<>> /\ fed.parser.since # 0
         /\ fed.wait = IF parser.pending = <<>> THEN 0 ELSE fed.parser.since - parser.since
  BY Zenon DEF Effect
<1>3. out' \in States /\ OneEach(out')
  BY <1>1, HeldType, PlayedType, Zenon
<1>4. HeldNow' = Played(HeldNow, made)
  <2>1. HeldNow' = Played(out', parser'.pending \o parser'.frame)
    BY DEF HeldNow
  <2> QED BY <1>1, <2>1, Zenon
<1>5. /\ waited \in Int /\ begun \in Nat /\ parser.since \in Nat /\ fed.parser.since \in Nat
      /\ begun + waited = parser.since /\ (begun = 0 => waited = 0)
      /\ (parser.pending # <<>> => begun # 0) /\ (parser.pending = <<>> => begun = 0)
  BY <1>1, HeldType DEF GeteventTypes, TimeInv, ParserTypes
<1>6. waited' \in Int /\ begun' \in Nat
  BY <1>1, <1>5
<1>7. TimeInv'
  <2>1. CASE fed.wait = 0 /\ fed.parser.since = parser.since /\ fed.parser.pending = parser.pending
    BY <1>5, <2>1 DEF TimeInv
  <2>2. CASE /\ fed.parser.pending # <<>> /\ fed.parser.since # 0
             /\ fed.wait = IF parser.pending = <<>> THEN 0 ELSE fed.parser.since - parser.since
    <3>1. CASE parser.pending = <<>>
      BY <1>5, <2>2, <3>1 DEF TimeInv
    <3>2. CASE parser.pending # <<>>
      BY <1>5, <2>2, <3>2 DEF TimeInv
    <3> QED BY <3>1, <3>2
  <2> QED BY <1>2, <2>1, <2>2, Zenon
<1> QED BY <1>1, <1>3, <1>4, <1>6, <1>7, Zenon

LEMMA ValueHeld ==
  ASSUME NEW s, OneEach(s)
  PROVE  /\ \A p \in s : ValueOf(s, p.control) = p.value
         /\ \A c : (\A p \in s : p.control # c) => ValueOf(s, c) = Neutral
<1>1. ASSUME NEW p \in s PROVE ValueOf(s, p.control) = p.value
  <2>1. Holds(s, p.control)
    BY DEF Holds
  <2>2. (CHOOSE q \in s : q.control = p.control) = p
    BY DEF OneEach
  <2> QED BY <2>1, <2>2, Zenon DEF ValueOf
<1>2. \A c : (\A p \in s : p.control # c) => ValueOf(s, c) = Neutral
  BY Zenon DEF ValueOf, Holds
<1> QED BY <1>1, <1>2

OnPanel(s) == IF panel.slots[s].down THEN panel.slots[s].at ELSE Neutral

LEMMA TruthHeard ==
  ASSUME GeteventAssumption, GeteventTypes, NEW line \in LineTypes, Heard(line),
         line.kind = "key" => line.value \in Keys
  PROVE  /\ truth' \in States /\ OneEach(truth')
         /\ \A c \in Keys : ValueOf(truth', c) =
              IF c \in {line.value} /\ line.kind = "key" /\ ~Filtered THEN line.more ELSE ValueOf(truth, c)
         /\ \A s \in Tracked : ValueOf(truth', s) = IF line.kind = "syn" THEN OnPanel(s) ELSE ValueOf(truth, s)
<1>1. /\ truth \in States /\ OneEach(truth) /\ \A c \in Keys : c \notin Tracked
      /\ \A s \in Tracked : s \in Controls
  BY DEF GeteventTypes, GeteventAssumption, Tracked
<1>2. CASE line.kind = "key" /\ ~Filtered
  <2> PICK row : row = Set(line.value, line.more)
    OBVIOUS
  <2>1. truth' = Apply(truth, row)
    BY <1>2 DEF Heard
  <2>2. row \in Rows /\ row.control = line.value /\ row.value = line.more /\ line.value \in Keys
    <3>1. line.value \in Controls /\ line.more \in Nat
      BY <1>2 DEF LineTypes, GeteventAssumption
    <3> QED BY <1>2, <3>1 DEF Rows, Set
  <2>3. /\ truth' \in States /\ OneEach(truth')
        /\ \A c : ValueOf(truth', c) = IF c = row.control THEN row.value ELSE ValueOf(truth, c)
    <3>1. /\ Apply(truth, row) \in States /\ OneEach(Apply(truth, row))
          /\ \A c : ValueOf(Apply(truth, row), c) = IF c = row.control THEN row.value ELSE ValueOf(truth, c)
      BY <1>1, <2>2, AppliedValue, Zenon
    <3> QED BY <2>1, <3>1
  <2>4. line.kind # "syn" /\ \A s \in Tracked : s # row.control
    BY <1>1, <1>2, <2>2
  <2> QED BY <1>2, <2>2, <2>3, <2>4
<1>3. CASE line.kind = "syn"
  <2> DEFINE pressed == {s \in Tracked : panel.slots[s].down}
             shown == {Set(s, panel.slots[s].at) : s \in pressed}
             typed == {p \in truth : p.control \in Keys}
  <2>1. truth' = typed \union shown
    BY <1>3, Zenon DEF Heard
  <2>2. \A p \in shown : p \in Rows /\ p.control \in pressed /\ p.value = panel.slots[p.control].at
    <3> SUFFICES ASSUME NEW s \in pressed
                 PROVE  LET p == Set(s, panel.slots[s].at)
                        IN  p \in Rows /\ p.control \in pressed /\ p.value = panel.slots[p.control].at
      BY Zenon
    <3>1. panel.slots[s].at \in Nat /\ s \in Controls
      <4>1. s \in PanelSlots /\ panel.slots \in [PanelSlots -> [down : BOOLEAN, at : Places]]
        BY DEF GeteventTypes, GeteventAssumption, Tracked
      <4>2. panel.slots[s].at \in Places
        BY <4>1
      <4> QED BY <1>1, <4>2 DEF GeteventAssumption
    <3> QED BY <3>1 DEF Set, Rows
  <2>3. \A s \in pressed : Set(s, panel.slots[s].at) \in shown /\ Set(s, panel.slots[s].at).control = s
                             /\ Set(s, panel.slots[s].at).value = panel.slots[s].at
    BY DEF Set
  <2>4. \A p \in typed : p \in Rows /\ p.control \in Keys
    BY <1>1 DEF States
  <2>5. pressed \subseteq Tracked /\ \A s \in Tracked : s \in pressed <=> panel.slots[s].down
    OBVIOUS
  <2>6. \A p : p \in typed <=> p \in truth /\ p.control \in Keys
    OBVIOUS
  <2>7. \A p, q \in shown : p.control = q.control => p = q
    BY <2>2 DEF Rows
  <2> HIDE DEF pressed, shown, typed
  <2>8. truth' \in States
    BY <2>1, <2>2, <2>4 DEF States
  <2>9. OneEach(truth')
    BY <1>1, <2>1, <2>2, <2>5, <2>6, <2>7 DEF OneEach
  <2>10. ASSUME NEW c \in Keys PROVE ValueOf(truth', c) = ValueOf(truth, c)
    <3>1. CASE \E p \in truth : p.control = c
      <4>1. PICK p \in truth : p.control = c
        BY <3>1
      <4>2. p \in truth'
        BY <2>1, <2>6, <4>1
      <4> QED BY <1>1, <2>9, <4>1, <4>2, ValueHeld
    <3>2. CASE ~\E p \in truth : p.control = c
      <4>1. \A p \in truth' : p.control # c
        BY <1>1, <2>1, <2>2, <2>5, <2>6, <3>2
      <4> QED BY <1>1, <2>9, <3>2, <4>1, ValueHeld
    <3> QED BY <3>1, <3>2
  <2>11. ASSUME NEW s \in Tracked PROVE ValueOf(truth', s) = OnPanel(s)
    <3>1. CASE s \in pressed
      <4> PICK p : p = Set(s, panel.slots[s].at)
        OBVIOUS
      <4>1. p \in truth' /\ p.control = s /\ p.value = panel.slots[s].at
        BY <2>1, <2>3, <3>1
      <4>2. ValueOf(truth', p.control) = p.value
        BY <2>9, <4>1, ValueHeld, Zenon
      <4>3. panel.slots[s].down
        BY <2>5, <3>1
      <4> QED BY <4>1, <4>2, <4>3, Zenon DEF OnPanel
    <3>2. CASE s \notin pressed
      <4>1. \A p \in truth' : p.control # s
        BY <1>1, <2>1, <2>2, <2>4, <3>2
      <4>2. ValueOf(truth', s) = Neutral
        BY <2>9, <4>1, ValueHeld, Zenon
      <4> QED BY <2>5, <3>2, <4>2, Zenon DEF OnPanel
    <3> QED BY <3>1, <3>2
  <2>12. line.kind # "key"
    BY <1>3
  <2> QED BY <1>3, <2>8, <2>9, <2>10, <2>11, <2>12, Zenon
<1>4. CASE line.kind # "syn" /\ ~(line.kind = "key" /\ ~Filtered)
  <2>1. truth' = truth
    BY <1>4, Zenon DEF Heard
  <2> QED BY <1>1, <1>4, <2>1, Zenon
<1> QED BY <1>2, <1>3, <1>4, Zenon

LEMMA HeardType ==
  ASSUME GeteventTypes, NEW line \in LineTypes, Heard(line),
         line.kind \in ContactLines => line.value \in PanelSlots
  PROVE  heard' \in [lines : SUBSET (PanelSlots \X BOOLEAN), frame : SUBSET (PanelSlots \X BOOLEAN)]
<1>1. heard \in [lines : SUBSET (PanelSlots \X BOOLEAN), frame : SUBSET (PanelSlots \X BOOLEAN)]
  BY DEF GeteventTypes
<1>2. CASE line.kind = "syn"
  <2>1. heard' = [heard EXCEPT !.frame = heard.lines]
    BY <1>2, Zenon DEF Heard
  <2> QED BY <1>1, <2>1
<1>3. CASE line.kind # "syn" /\ line.kind \in {"new", "end", "place"} /\ parser.slot = line.value
  <2> PICK told : told = <<line.value, line.kind = "place">>
    OBVIOUS
  <2>1. heard' = [heard EXCEPT !.lines = heard.lines \union {told}]
    BY <1>3, Zenon DEF Heard
  <2>2. told \in PanelSlots \X BOOLEAN
    <3>1. line.value \in PanelSlots
      BY <1>3 DEF ContactLines, SlotLines
    <3>2. (line.kind = "place") \in BOOLEAN
      OBVIOUS
    <3> QED BY <3>1, <3>2, Zenon
  <2> HIDE DEF GeteventTypes
  <2> QED BY <1>1, <2>1, <2>2
<1>4. CASE line.kind # "syn" /\ ~(line.kind \in {"new", "end", "place"} /\ parser.slot = line.value)
  <2>1. heard' = heard
    BY <1>4, Zenon DEF Heard
  <2> QED BY <1>1, <2>1, Zenon
<1> QED BY <1>2, <1>3, <1>4, Zenon

-----------------------------------------------------------------------------
(* The lines of a frame                                                    *)

LEMMA LinesWithoutFirst ==
  ASSUME NEW s \in Seq(LineTypes), s # <<>>, NEW slots, NEW last, FrameLines(s, slots, last)
  PROVE  /\ Tail(s) \in Seq(LineTypes) /\ Len(Tail(s)) = Len(s) - 1 /\ Len(s) \in Nat \ {0}
         /\ Head(s) = s[1] /\ s[1] \in LineTypes
         /\ \A n \in 1..(Len(s) - 1) : Tail(s)[n] = s[n + 1]
         /\ FrameLines(Tail(s), slots, last)
<1> PICK t : t = Tail(s)
  OBVIOUS
<1> PICK k : k = Len(s)
  OBVIOUS
<1>1. /\ t \in Seq(LineTypes) /\ Len(t) = k - 1 /\ k \in Nat \ {0} /\ Head(s) = s[1] /\ s[1] \in LineTypes
      /\ \A n \in 1..(k - 1) : t[n] = s[n + 1]
  <2>1. k \in Nat \ {0}
    BY EmptySeq
  <2>2. t \in Seq(LineTypes) /\ Len(t) = k - 1 /\ \A n \in 1..(k - 1) : t[n] = s[n + 1]
    BY HeadTailProperties
  <2>3. Head(s) = s[1] /\ s[1] \in LineTypes
    BY <2>1
  <2> QED BY <2>1, <2>2, <2>3
<1>2. \A n \in 1..(k - 1) : n + 1 \in 1..k /\ (n + 1 = k <=> n = k - 1)
  BY <1>1
<1>3. \A n \in 1..((k - 1) - 1) : n \in 1..(k - 1) /\ n + 1 \in 1..(k - 1)
  BY <1>1
<1>4. \A m, n \in 1..(k - 1) : (m <= n => m + 1 <= n + 1) /\ (m + 1 = n + 1 => m = n)
  OBVIOUS
<1>5. KeysFirst(t)
  <2>1. ASSUME NEW m \in 1..(k - 1), NEW n \in 1..(k - 1), m <= n, t[m].kind \in PanelLines
        PROVE  t[n].kind \in PanelLines
    <3>1. m + 1 \in 1..k /\ n + 1 \in 1..k /\ t[m] = s[m + 1] /\ t[n] = s[n + 1] /\ m + 1 <= n + 1
      BY <1>1, <1>2, <1>4, <2>1, Zenon
    <3> QED BY <2>1, <3>1, Zenon DEF KeysFirst, FrameLines
  <2> QED BY <1>1, <2>1, Zenon DEF KeysFirst
<1>6. SynIsLast(t)
  <2>1. ASSUME NEW n \in 1..(k - 1)
        PROVE  t[n].kind = "syn" <=> n = k - 1 /\ t[n].kind \in PanelLines
    BY <1>1, <1>2, Zenon DEF SynIsLast, FrameLines
  <2> QED BY <1>1, <2>1, Zenon DEF SynIsLast
<1>7. OneSlotAfterAnother(t, last)
  <2>1. ASSUME NEW n \in 1..((k - 1) - 1), t[n].kind \in PanelLines, t[n + 1].kind # "slot"
        PROVE  Speaks(t[n + 1], last) = t[n].value
    <3>1. n + 1 \in 1..(k - 1) /\ t[n] = s[n + 1] /\ t[n + 1] = s[(n + 1) + 1]
      BY <1>1, <1>3
    <3> QED BY <2>1, <3>1, Zenon DEF OneSlotAfterAnother, FrameLines
  <2>2. ASSUME NEW m \in 1..(k - 1), NEW n \in 1..(k - 1), m <= n, t[m].kind \in ContactLines,
               t[n].kind \in ContactLines
        PROVE  t[m].value <= t[n].value
    BY <1>1, <1>2, <1>4, <2>2, Zenon DEF OneSlotAfterAnother, FrameLines
  <2> QED BY <1>1, <2>1, <2>2, Zenon DEF OneSlotAfterAnother
<1>8. SaidOnce(t)
  <2>1. ASSUME NEW m \in 1..(k - 1), NEW n \in 1..(k - 1), t[m].kind \in {"new", "end"},
               t[n].kind \in {"new", "end"}, t[m].value = t[n].value
        PROVE  m = n
    <3>1. m + 1 \in 1..k /\ n + 1 \in 1..k /\ t[m] = s[m + 1] /\ t[n] = s[n + 1]
      BY <1>1, <1>2, Zenon
    <3>2. m + 1 = n + 1
      BY <2>1, <3>1, Zenon DEF SaidOnce, FrameLines
    <3> QED BY <1>4, <3>2, Zenon
  <2> QED BY <1>1, <2>1, Zenon DEF SaidOnce
<1>9. \A n \in 1..(k - 1) : True(t[n], slots)
  BY <1>1, <1>2, Zenon DEF FrameLines
<1> QED BY <1>1, <1>5, <1>6, <1>7, <1>8, <1>9, Zenon DEF FrameLines

\* What is known when a line is read.
Line1 == unread[1]

LEMMA LineIsRead ==
  ASSUME GeteventTypes, PanelInv, FeedLine
  PROVE  /\ Going /\ unread \in Seq(LineTypes) /\ unread # <<>> /\ Len(unread) \in Nat \ {0}
         /\ Head(unread) = Line1 /\ Line1 \in LineTypes /\ True(Line1, panel.slots)
         /\ unread' \in Seq(LineTypes) /\ Len(unread') = Len(unread) - 1
         /\ \A n \in 1..(Len(unread) - 1) : unread'[n] = unread[n + 1]
         /\ FrameLines(unread, panel.slots, panel.slot) /\ FrameLines(unread', panel.slots, panel.slot)
         /\ Selects(unread, parser.slot, panel.slot, heard.lines) /\ Heard(Line1) /\ UNCHANGED <<panel, clock, frames>>
<1>1. /\ unread # <<>> /\ unread \in Seq(LineTypes) /\ unread' = Tail(unread) /\ Heard(Head(unread))
      /\ UNCHANGED <<panel, clock, frames>>
  BY Zenon DEF FeedLine, GeteventTypes
<1>2. Going /\ FrameLines(unread, panel.slots, panel.slot)
      /\ Selects(unread, parser.slot, panel.slot, heard.lines)
  BY <1>1, Zenon DEF Going, PanelInv
<1> PICK s : s = unread
  OBVIOUS
<1> PICK slots : slots = panel.slots
  OBVIOUS
<1> PICK last : last = panel.slot
  OBVIOUS
<1>3. s \in Seq(LineTypes) /\ s # <<>> /\ FrameLines(s, slots, last)
  BY <1>1, <1>2, Zenon
<1>4. /\ Tail(s) \in Seq(LineTypes) /\ Len(Tail(s)) = Len(s) - 1 /\ Len(s) \in Nat \ {0}
      /\ Head(s) = s[1] /\ s[1] \in LineTypes
      /\ \A n \in 1..(Len(s) - 1) : Tail(s)[n] = s[n + 1]
      /\ FrameLines(Tail(s), slots, last)
  BY <1>3, LinesWithoutFirst, Zenon
<1>5. True(s[1], slots)
  <2>1. 1 \in 1..Len(s)
    BY <1>4
  <2> QED BY <1>3, <2>1, Zenon DEF FrameLines
<1> QED BY <1>1, <1>2, <1>4, <1>5, Zenon DEF Line1

\* The kinds of the lines, told apart.
LEMMA KindsApart ==
  ASSUME NEW line \in LineTypes
  PROVE  /\ line.kind \in PanelLines <=> line.kind \notin KeyLines
         /\ line.kind \in PanelLines <=> line.kind = "syn" \/ line.kind \in ContactLines
         /\ line.kind \in ContactLines <=> line.kind = "slot" \/ line.kind \in SlotLines
         /\ line.kind \in SlotLines <=> line.kind \in {"new", "end", "place"}
         /\ line.kind \in KeyLines <=> line.kind \in {"key", "keysyn"}
         /\ line.kind = "syn" => line.kind \notin ContactLines
         /\ line.kind = "slot" => line.kind \notin SlotLines
  BY DEF LineTypes, PanelLines, KeyLines, ContactLines, SlotLines

\* What a line adds to what was told.
LEMMA LineTold ==
  ASSUME GeteventTypes, NEW line \in LineTypes, Heard(line)
  PROVE  /\ line.kind \notin SlotLines \/ parser.slot # line.value => heard'.lines = heard.lines
         /\ line.kind \in SlotLines /\ parser.slot = line.value =>
              heard'.lines = heard.lines \union {<<line.value, line.kind = "place">>}
         /\ heard'.frame = IF line.kind = "syn" THEN heard.lines ELSE heard.frame
<1>1. heard \in [lines : SUBSET (PanelSlots \X BOOLEAN), frame : SUBSET (PanelSlots \X BOOLEAN)]
  BY DEF GeteventTypes
<1>2. CASE line.kind = "syn"
  <2>1. heard' = [heard EXCEPT !.frame = heard.lines]
    BY <1>2, Zenon DEF Heard
  <2> QED BY <1>1, <1>2, <2>1 DEF SlotLines
<1>3. CASE line.kind # "syn" /\ line.kind \in {"new", "end", "place"} /\ parser.slot = line.value
  <2> PICK told : told = <<line.value, line.kind = "place">>
    OBVIOUS
  <2>1. heard' = [heard EXCEPT !.lines = heard.lines \union {told}]
    BY <1>3, Zenon DEF Heard
  <2>2. heard'.lines = heard.lines \union {told} /\ heard'.frame = heard.frame
    BY <1>1, <2>1
  <2> QED BY <1>3, <2>2, Zenon DEF SlotLines
<1>4. CASE line.kind # "syn" /\ ~(line.kind \in {"new", "end", "place"} /\ parser.slot = line.value)
  <2>1. heard' = heard
    BY <1>4, Zenon DEF Heard
  <2> QED BY <1>4, <2>1, Zenon DEF SlotLines
<1> QED BY <1>2, <1>3, <1>4, Zenon

\* The first line is read: which slot the parser has selected, and was told of.
LEMMA SelectionFollows ==
  ASSUME NEW s \in Seq(LineTypes), NEW k \in Nat \ {0}, Len(s) = k, NEW t \in Seq(LineTypes), Len(t) = k - 1,
         \A n \in 1..(k - 1) : t[n] = s[n + 1],
         NEW slots, NEW last, NEW slot, NEW told, NEW slot2, NEW told2,
         FrameLines(s, slots, last), Selects(s, slot, last, told),
         slot2 = IF s[1].kind = "slot" THEN Min({s[1].value, max_slots}) ELSE slot,
         s[1].kind \notin SlotLines \/ slot # s[1].value => told2 = told,
         s[1].kind \in SlotLines => s[1].value \in Nat
  PROVE  Selects(t, slot2, last, told2)
<1>1. 1 \in 1..k /\ s[1] \in LineTypes /\ \A n \in 1..k : s[n] \in LineTypes
  OBVIOUS
<1>2. \A n \in 1..(k - 1) : /\ n + 1 \in 1..k /\ n \in 1..k /\ (n + 1) - 1 = n /\ n + 1 # 1 /\ 1 <= n + 1
                           /\ (n # 1 => n - 1 \in 1..(k - 1) /\ (n - 1) + 1 = n)
  OBVIOUS
<1>3. /\ KeysFirst(s) /\ SynIsLast(s) /\ OneSlotAfterAnother(s, last)
      /\ \A n \in 1..k : s[n].kind \in PanelLines \ {"slot"} /\ Begins(s, n) =>
           Agrees(slot, Speaks(s[n], last), told)
      /\ OnlyKeys(s) => Agrees(slot, last, told)
  BY Zenon DEF FrameLines, Selects
<1>4. CASE s[1].kind \in KeyLines
  <2>1. slot2 = slot /\ told2 = told
    BY <1>4 DEF KeyLines, SlotLines
  <2>2. ASSUME NEW n \in 1..(k - 1), t[n].kind \in PanelLines \ {"slot"}, Begins(t, n)
        PROVE  Agrees(slot, Speaks(t[n], last), told)
    <3>1. Begins(s, n + 1)
      <4>1. CASE n = 1
        BY <1>4, <4>1 DEF Begins
      <4>2. CASE n # 1
        <5>1. t[n - 1] = s[n] /\ t[n - 1].kind \in KeyLines
          BY <1>2, <2>2, <4>2, Zenon DEF Begins
        <5> QED BY <1>2, <5>1, Zenon DEF Begins
      <4> QED BY <4>1, <4>2, Zenon
    <3> QED BY <1>2, <1>3, <2>2, <3>1, Zenon
  <2>3. ASSUME OnlyKeys(t) PROVE OnlyKeys(s)
    <3>1. ASSUME NEW n \in 1..k, n # 1 PROVE s[n].kind \in KeyLines
      <4>1. n - 1 \in 1..(k - 1) /\ (n - 1) + 1 = n
        BY <3>1
      <4>2. t[n - 1] = s[n] /\ t[n - 1].kind \in KeyLines
        BY <2>3, <4>1, Zenon DEF OnlyKeys
      <4> QED BY <4>2, Zenon
    <3> QED BY <1>4, <3>1, Zenon DEF OnlyKeys
  <2> QED BY <1>3, <2>1, <2>2, <2>3, Zenon DEF Selects
<1>5. CASE s[1].kind \in ContactLines
  <2>1. k # 1
    <3>1. s[1].kind # "syn" /\ s[1].kind \in PanelLines
      BY <1>1, <1>5, KindsApart, Zenon
    <3>2. s[1].kind = "syn" <=> 1 = k /\ s[1].kind \in PanelLines
      BY <1>1, <1>3, Zenon DEF SynIsLast
    <3> QED BY <3>1, <3>2, Zenon
  <2>2. 1 \in 1..(k - 1) /\ 1 + 1 \in 1..k
    BY <2>1
  <2>3. \A n \in 1..(k - 1) : t[n].kind \in PanelLines /\ t[n].kind \notin KeyLines
    <3>1. s[1].kind \in PanelLines
      BY <1>1, <1>5, KindsApart, Zenon
    <3>2. \A n \in 1..(k - 1) : s[n + 1].kind \in PanelLines
      BY <1>1, <1>2, <1>3, <3>1, Zenon DEF KeysFirst
    <3> QED BY <1>1, <1>2, <3>2, KindsApart, Zenon
  <2>4. ~OnlyKeys(t)
    BY <2>2, <2>3, Zenon DEF OnlyKeys
  <2>5. Agrees(slot2, s[1].value, told2)
    <3>1. CASE s[1].kind = "slot"
      BY <3>1, Zenon DEF Agrees
    <3>2. CASE s[1].kind \in SlotLines
      <4>1. s[1].kind # "slot" /\ s[1].kind \in PanelLines /\ s[1].kind # "syn"
        BY <1>1, <1>5, <3>2, KindsApart, Zenon
      <4>2. Agrees(slot, s[1].value, told) /\ slot2 = slot
        BY <1>1, <1>3, <4>1, Zenon DEF Begins, Speaks
      <4>3. slot = 0 /\ s[1].value # 0 => told2 = told
        BY Zenon
      <4> QED BY <4>2, <4>3, Zenon DEF Agrees
    <3> QED BY <1>1, <1>5, <3>1, <3>2, KindsApart, Zenon
  <2>6. ASSUME NEW n \in 1..(k - 1), t[n].kind \in PanelLines \ {"slot"}, Begins(t, n)
        PROVE  Agrees(slot2, Speaks(t[n], last), told2)
    <3>1. n = 1
      BY <1>2, <2>3, <2>6, Zenon DEF Begins
    <3>2. s[1 + 1] = t[n] /\ t[n].kind # "slot" /\ s[1].kind \in PanelLines
      BY <1>1, <1>2, <1>5, <2>6, <3>1, KindsApart, Zenon
    <3>3. Speaks(s[1 + 1], last) = s[1].value
      BY <1>3, <2>2, <3>2, Zenon DEF OneSlotAfterAnother
    <3> QED BY <2>5, <3>2, <3>3, Zenon
  <2> QED BY <2>4, <2>6, Zenon DEF Selects
<1>6. CASE s[1].kind = "syn"
  <2>1. k = 1
    BY <1>1, <1>3, <1>6, Zenon DEF SynIsLast
  <2>2. s[1].kind \in PanelLines \ {"slot"} /\ s[1].kind \notin SlotLines
    BY <1>6 DEF PanelLines, SlotLines
  <2>3. Agrees(slot2, last, told2)
    BY <1>1, <1>3, <1>6, <2>2, Zenon DEF Begins, Speaks
  <2>4. \A n : n \notin 1..(k - 1)
    BY <2>1
  <2> QED BY <2>3, <2>4, Zenon DEF Selects
<1> QED BY <1>1, <1>4, <1>5, <1>6, KindsApart, Zenon

-----------------------------------------------------------------------------
(* A slot, line by line                                                    *)

LEMMA TouchedKept ==
  ASSUME NEW slot \in SlotTypes, NEW value, SlotKept(slot, value), NEW line \in LineTypes
  PROVE  SlotKept(Touched(slot, line), value)
<1>1. /\ (slot.placed => slot.active) /\ (slot.changed => slot.active) /\ (slot.lifting => slot.changed)
      /\ (~slot.changed => slot.placed = slot.active)
      /\ (~slot.changed => value = IF slot.placed THEN slot.at ELSE Neutral)
      /\ (~slot.placed => value = Neutral)
  BY Zenon DEF SlotKept
<1>2. SlotKept(StartContact(slot), value)
  BY <1>1 DEF SlotKept, StartContact, SlotTypes
<1>3. SlotKept(EndContact(slot), value)
  BY <1>1 DEF SlotKept, EndContact, SlotTypes
<1>4. SlotKept(Place(slot, line.more), value)
  <2>1. CASE slot.active
    BY <1>1, <2>1 DEF SlotKept, Place, SlotTypes
  <2>2. CASE ~slot.active
    BY <1>1, <2>2 DEF SlotKept, Place, SlotTypes
  <2> QED BY <2>1, <2>2
<1> QED BY <1>2, <1>3, <1>4, Zenon DEF Touched

LEMMA ClosedKept ==
  ASSUME NEW slot \in SlotTypes, NEW value, SlotKept(slot, value)
  PROVE  /\ SlotKept(Closed(slot), RowValue(slot, value))
         /\ ~Closed(slot).changed /\ ~Closed(slot).lifting /\ Closed(slot).at = slot.at
         /\ Closed(slot).active <=> slot.active /\ ~slot.lifting
         /\ RowValue(slot, value) = IF slot.active /\ ~slot.lifting THEN slot.at ELSE Neutral
<1>1. /\ (slot.placed => slot.active) /\ (slot.changed => slot.active) /\ (slot.lifting => slot.changed)
      /\ (~slot.changed => slot.placed = slot.active)
      /\ (~slot.changed => value = IF slot.placed THEN slot.at ELSE Neutral)
      /\ (~slot.placed => value = Neutral)
  BY Zenon DEF SlotKept
<1>2. CASE ~slot.changed
  <2>1. Closed(slot) = slot /\ RowValue(slot, value) = value
    BY <1>2, Zenon DEF Closed, RowValue
  <2>2. ~slot.lifting /\ (slot.active <=> slot.placed)
    BY <1>1, <1>2
  <2> QED BY <1>1, <1>2, <2>1, <2>2, Zenon
<1>3. CASE slot.changed /\ slot.lifting
  <2> PICK after : after = Closed(slot)
    OBVIOUS
  <2>1. /\ ~after.changed /\ ~after.lifting /\ ~after.active /\ ~after.placed /\ after.at = slot.at
        /\ after \in SlotTypes
    BY <1>3 DEF Closed, SlotTypes
  <2>2. RowValue(slot, value) = Neutral
    BY <1>1, <1>3, Zenon DEF RowValue
  <2>3. SlotKept(after, Neutral)
    BY <2>1 DEF SlotKept, SlotTypes
  <2> QED BY <1>3, <2>1, <2>2, <2>3, Zenon
<1>4. CASE slot.changed /\ ~slot.lifting
  <2> PICK after : after = Closed(slot)
    OBVIOUS
  <2>1. /\ ~after.changed /\ ~after.lifting /\ after.active /\ after.placed /\ after.at = slot.at
        /\ after \in SlotTypes
    BY <1>1, <1>4 DEF Closed, SlotTypes
  <2>2. RowValue(slot, value) = slot.at /\ slot.active
    BY <1>1, <1>4, Zenon DEF RowValue
  <2>3. SlotKept(after, slot.at)
    BY <2>1 DEF SlotKept, SlotTypes
  <2> QED BY <1>4, <2>1, <2>2, <2>3, Zenon
<1> QED BY <1>2, <1>3, <1>4

\* t are the lines s without the first.
Rest(s, t, k) ==
  /\ k \in Nat \ {0} /\ s \in Seq(LineTypes) /\ Len(s) = k /\ t \in Seq(LineTypes) /\ Len(t) = k - 1
  /\ \A n \in 1..(k - 1) : t[n] = s[n + 1]

LEMMA RestOfFrame ==
  ASSUME NEW s, NEW t, NEW k, Rest(s, t, k), NEW slots, NEW last, FrameLines(s, slots, last)
  PROVE  /\ s[1].kind \in ContactLines => ~OnlyKeys(t)
         /\ s[1].kind \in KeyLines /\ OnlyKeys(t) => OnlyKeys(s)
         /\ s[1].kind = "syn" => k = 1
         /\ \A kinds, n : Unsaid(kinds, s, n) => Unsaid(kinds, t, n)
         /\ \A kinds, n : Unsaid(kinds, t, n) /\ (s[1].kind \in kinds => s[1].value # n) => Unsaid(kinds, s, n)
<1>1. /\ k \in Nat \ {0} /\ 1 \in 1..k /\ s[1] \in LineTypes /\ Len(t) = k - 1 /\ Len(s) = k
      /\ \A n \in 1..k : s[n] \in LineTypes
      /\ \A n \in 1..(k - 1) : t[n] = s[n + 1] /\ n + 1 \in 1..k /\ t[n] \in LineTypes
  BY DEF Rest
<1>2. KeysFirst(s) /\ SynIsLast(s)
  BY Zenon DEF FrameLines
<1>3. ASSUME NEW n \in 1..k, n # 1 PROVE n - 1 \in 1..(k - 1) /\ t[n - 1] = s[n]
  <2>1. n - 1 \in 1..(k - 1) /\ (n - 1) + 1 = n
    BY <1>1, <1>3
  <2> QED BY <1>1, <2>1, Zenon
<1>4. ASSUME s[1].kind \in ContactLines PROVE ~OnlyKeys(t)
  <2>1. s[1].kind # "syn" /\ s[1].kind \in PanelLines
    BY <1>1, <1>4, KindsApart, Zenon
  <2>2. k # 1
    BY <1>1, <1>2, <2>1, Zenon DEF SynIsLast
  <2>3. 1 \in 1..(k - 1) /\ 1 <= 1 + 1
    BY <1>1, <2>2
  <2>4. t[1].kind \in PanelLines
    BY <1>1, <1>2, <2>1, <2>3, Zenon DEF KeysFirst
  <2>5. t[1].kind \notin KeyLines
    BY <1>1, <2>3, <2>4, KindsApart, Zenon
  <2> QED BY <1>1, <2>3, <2>5, Zenon DEF OnlyKeys
<1>5. ASSUME s[1].kind \in KeyLines, OnlyKeys(t) PROVE OnlyKeys(s)
  <2>1. ASSUME NEW n \in 1..k PROVE s[n].kind \in KeyLines
    BY <1>1, <1>3, <1>5, Zenon DEF OnlyKeys
  <2> QED BY <1>1, <2>1, Zenon DEF OnlyKeys
<1>6. s[1].kind = "syn" => k = 1
  BY <1>1, <1>2, Zenon DEF SynIsLast
<1>7. \A kinds, n : Unsaid(kinds, s, n) => Unsaid(kinds, t, n)
  BY <1>1, Zenon DEF Unsaid
<1>8. ASSUME NEW kinds, NEW n, Unsaid(kinds, t, n), s[1].kind \in kinds => s[1].value # n
      PROVE  Unsaid(kinds, s, n)
  <2>1. ASSUME NEW m \in 1..k, s[m].kind \in kinds PROVE s[m].value # n
    BY <1>1, <1>3, <1>8, <2>1, Zenon DEF Unsaid
  <2> QED BY <1>1, <2>1, Zenon DEF Unsaid
<1> QED BY <1>4, <1>5, <1>6, <1>7, <1>8, Zenon

\* A line that does nothing to a slot.
LEMMA UntouchedFollows ==
  ASSUME NEW s, NEW t, NEW k, Rest(s, t, k), NEW slots, NEW last, FrameLines(s, slots, last),
         NEW n, NEW slot, NEW on, NEW told, NEW told2, SlotFollows(n, slot, on, s, told),
         \A b \in BOOLEAN : <<n, b>> \in told2 => <<n, b>> \in told,
         s[1].kind # "syn", s[1].kind \in SlotLines /\ s[1].value = n => told = {}
  PROVE  SlotFollows(n, slot, on, t, told2)
<1>1. s[1] \in LineTypes
  BY DEF Rest
<1>2. ASSUME <<n, FALSE>> \in told2, Unsaid({"new", "end"}, t, n)
      PROVE  slot.active /\ ~slot.lifting <=> on.down
  <2>1. <<n, FALSE>> \in told
    BY <1>2
  <2>2. s[1].kind \in {"new", "end"} => s[1].value # n
    BY <2>1 DEF SlotLines
  <2>3. Unsaid({"new", "end"}, s, n)
    BY <1>2, <2>2, RestOfFrame, Zenon
  <2> QED BY <2>1, <2>3, Zenon DEF SlotFollows
<1>3. ASSUME <<n, TRUE>> \in told2, Unsaid({"place"}, t, n)
      PROVE  slot.at = on.at
  <2>1. <<n, TRUE>> \in told
    BY <1>3
  <2>2. s[1].kind \in {"place"} => s[1].value # n
    BY <2>1 DEF SlotLines
  <2>3. Unsaid({"place"}, s, n)
    BY <1>3, <2>2, RestOfFrame, Zenon
  <2> QED BY <2>1, <2>3, Zenon DEF SlotFollows
<1>4. Unsaid({"new"}, t, n) \/ ~slot.lifting
  BY RestOfFrame, Zenon DEF SlotFollows
<1>5. OnlyKeys(t) => ~slot.changed
  BY <1>1, RestOfFrame, KindsApart, Zenon DEF SlotFollows
<1> QED BY <1>2, <1>3, <1>4, <1>5, Zenon DEF SlotFollows

\* A line that is about a slot, and is taken so.
LEMMA TouchedFollows ==
  ASSUME NEW s, NEW t, NEW k, Rest(s, t, k), NEW slots, NEW last, FrameLines(s, slots, last),
         NEW n, NEW slot \in SlotTypes, NEW on, NEW told, NEW told2, SlotFollows(n, slot, on, s, told),
         on = slots[n], s[1].kind \in SlotLines, s[1].value = n,
         told2 = told \union {<<n, s[1].kind = "place">>}
  PROVE  SlotFollows(n, Touched(slot, s[1]), on, t, told2)
<1> PICK line : line = s[1]
  OBVIOUS
<1> PICK after : after = Touched(slot, line)
  OBVIOUS
<1>1. line \in LineTypes /\ line.kind \in SlotLines /\ line.kind \in ContactLines /\ line.value = n
  <2>1. line \in LineTypes
    BY DEF Rest
  <2> QED BY <2>1 DEF ContactLines
<1>2. True(line, slots) /\ SaidOnce(s) /\ Len(s) = k /\ Len(t) = k - 1 /\ 1 \in 1..k
      /\ \A m \in 1..(k - 1) : t[m] = s[m + 1] /\ m + 1 \in 1..k /\ m + 1 # 1
  <2>1. Len(s) = k /\ Len(t) = k - 1 /\ 1 \in 1..k /\ \A m \in 1..(k - 1) : t[m] = s[m + 1] /\ m + 1 \in 1..k /\ m + 1 # 1
    BY DEF Rest
  <2> QED BY <2>1, Zenon DEF FrameLines
<1>3. ~OnlyKeys(t)
  BY <1>1, RestOfFrame, Zenon
<1>4. /\ \A b \in BOOLEAN : <<n, b>> \in told2 => <<n, b>> \in told \/ b = (line.kind = "place")
      /\ <<n, FALSE>> \in told /\ Unsaid({"new", "end"}, s, n) => (slot.active /\ ~slot.lifting <=> on.down)
      /\ <<n, TRUE>> \in told /\ Unsaid({"place"}, s, n) => slot.at = on.at
      /\ Unsaid({"new"}, s, n) \/ ~slot.lifting
  <2>1. \A b \in BOOLEAN : <<n, b>> \in told2 => <<n, b>> \in told \/ b = (line.kind = "place")
    OBVIOUS
  <2> QED BY <2>1, Zenon DEF SlotFollows
<1>5. CASE line.kind = "new"
  <2>1. after = StartContact(slot)
    BY <1>5, Zenon DEF Touched
  <2>2. ~slot.lifting /\ on.down
    <3>1. ~Unsaid({"new"}, s, n)
      BY <1>1, <1>2, <1>5 DEF Unsaid
    <3> QED BY <1>1, <1>2, <1>4, <1>5, <3>1, Zenon DEF True
  <2>3. after.active /\ ~after.lifting /\ after.at = slot.at
    BY <2>1, <2>2 DEF StartContact, SlotTypes
  <2>4. <<n, TRUE>> \in told2 /\ Unsaid({"place"}, t, n) => <<n, TRUE>> \in told /\ Unsaid({"place"}, s, n)
    <3>1. line.kind \notin {"place"} /\ TRUE # (line.kind = "place")
      BY <1>5
    <3>2. <<n, TRUE>> \in told2 => <<n, TRUE>> \in told
      BY <1>4, <3>1
    <3>3. Unsaid({"place"}, t, n) => Unsaid({"place"}, s, n)
      BY <3>1, RestOfFrame, Zenon
    <3> QED BY <3>2, <3>3
  <2> QED BY <1>3, <1>4, <2>2, <2>3, <2>4, Zenon DEF SlotFollows
<1>6. CASE line.kind = "end"
  <2>1. after = EndContact(slot)
    BY <1>6 DEF Touched
  <2>2. ~on.down
    BY <1>1, <1>2, <1>6, Zenon DEF True
  <2>3. ~(after.active /\ ~after.lifting) /\ after.at = slot.at
    BY <2>1 DEF EndContact, SlotTypes
  <2>4. <<n, TRUE>> \in told2 /\ Unsaid({"place"}, t, n) => <<n, TRUE>> \in told /\ Unsaid({"place"}, s, n)
    <3>1. line.kind \notin {"place"} /\ TRUE # (line.kind = "place")
      BY <1>6
    <3>2. <<n, TRUE>> \in told2 => <<n, TRUE>> \in told
      BY <1>4, <3>1
    <3>3. Unsaid({"place"}, t, n) => Unsaid({"place"}, s, n)
      BY <3>1, RestOfFrame, Zenon
    <3> QED BY <3>2, <3>3
  <2>5. Unsaid({"new"}, t, n)
    <3>1. ASSUME NEW m \in 1..(k - 1), t[m].kind \in {"new"}, t[m].value = n PROVE FALSE
      <4>1. m + 1 \in 1..k /\ m + 1 # 1 /\ s[m + 1].kind \in {"new", "end"} /\ s[m + 1].value = s[1].value
        BY <1>1, <1>2, <3>1
      <4>2. s[1].kind \in {"new", "end"}
        BY <1>6
      <4> QED BY <1>2, <4>1, <4>2, Zenon DEF SaidOnce
    <3> QED BY <1>2, <3>1, Zenon DEF Unsaid
  <2> QED BY <1>3, <1>4, <2>2, <2>3, <2>4, <2>5, Zenon DEF SlotFollows
<1>7. CASE line.kind = "place"
  <2>1. after = Place(slot, line.more) /\ line.more = on.at
    <3>1. line.more = on.at
      BY <1>1, <1>2, <1>7, Zenon DEF True
    <3> QED BY <1>7, <3>1 DEF Touched
  <2>2. after.at = on.at /\ after.active = slot.active /\ after.lifting = slot.lifting
    BY <2>1 DEF Place, SlotTypes
  <2>3. <<n, FALSE>> \in told2 /\ Unsaid({"new", "end"}, t, n)
          => <<n, FALSE>> \in told /\ Unsaid({"new", "end"}, s, n)
    <3>1. line.kind \notin {"new", "end"} /\ FALSE # (line.kind = "place")
      BY <1>7
    <3>2. <<n, FALSE>> \in told2 => <<n, FALSE>> \in told
      BY <1>4, <3>1
    <3>3. Unsaid({"new", "end"}, t, n) => Unsaid({"new", "end"}, s, n)
      BY <3>1, RestOfFrame, Zenon
    <3> QED BY <3>2, <3>3
  <2>4. Unsaid({"new"}, t, n) \/ ~after.lifting
    BY <1>4, <2>2, RestOfFrame, Zenon
  <2> QED BY <1>3, <1>4, <2>2, <2>3, <2>4, Zenon DEF SlotFollows
<1> QED BY <1>1, <1>5, <1>6, <1>7, KindsApart, Zenon

\* A line of another slot, taken for one of slot 0.
LEMMA AstrayFollows ==
  ASSUME NEW s, NEW t, NEW k, Rest(s, t, k), NEW slots, NEW last, FrameLines(s, slots, last),
         NEW slot, NEW on, NEW told, told = {}, s[1].kind \in SlotLines,
         s[1].value \in Nat \ {0}, \A m \in 1..k : s[m].kind \in ContactLines => s[m].value \in Nat
  PROVE  SlotFollows(0, slot, on, t, told)
<1>1. s[1].kind \in ContactLines /\ 1 \in 1..k /\ Len(s) = k /\ Len(t) = k - 1
      /\ \A m \in 1..(k - 1) : t[m] = s[m + 1] /\ m + 1 \in 1..k /\ 1 <= m + 1
  BY DEF Rest, ContactLines
<1>2. Unsaid({"new"}, t, 0)
  <2>1. ASSUME NEW m \in 1..(k - 1), t[m].kind \in {"new"}, t[m].value = 0 PROVE FALSE
    <3>1. m + 1 \in 1..k /\ 1 <= m + 1 /\ s[m + 1].kind \in ContactLines /\ s[m + 1].value = 0
      BY <1>1, <2>1 DEF ContactLines, SlotLines
    <3>2. s[1].value <= s[m + 1].value
      BY <1>1, <3>1, Zenon DEF FrameLines, OneSlotAfterAnother
    <3> QED BY <3>1, <3>2
  <2> QED BY <1>1, <2>1, Zenon DEF Unsaid
<1>3. ~OnlyKeys(t)
  BY <1>1, RestOfFrame, Zenon
<1>4. \A b : <<0, b>> \notin told
  OBVIOUS
<1> QED BY <1>2, <1>3, <1>4, Zenon DEF SlotFollows

\* The frame is closed.
Shown(on) == IF on.down THEN on.at ELSE Neutral

ClosesWell(n, slot, on, t, told, value) ==
  /\ SlotFollows(n, Closed(slot), on, t, told)
  /\ <<n, FALSE>> \in told /\ <<n, TRUE>> \in told => RowValue(slot, value) = Shown(on)

LEMMA ClosedFollows ==
  ASSUME NEW s, NEW t, NEW k, Rest(s, t, k), NEW slots, NEW last, FrameLines(s, slots, last),
         NEW n, NEW slot \in SlotTypes, NEW on, NEW told, NEW value, SlotFollows(n, slot, on, s, told),
         SlotKept(slot, value), s[1].kind = "syn"
  PROVE  ClosesWell(n, slot, on, t, told, value)
<1>1. k = 1 /\ Len(t) = 0 /\ Len(s) = 1
  <2>1. k = 1
    BY RestOfFrame, Zenon
  <2> QED BY <2>1 DEF Rest
<1>2. \A kinds : Unsaid(kinds, t, n)
  BY <1>1 DEF Unsaid
<1>3. Unsaid({"new", "end"}, s, n) /\ Unsaid({"place"}, s, n)
  <2>1. s[1].kind \notin {"new", "end"} /\ s[1].kind \notin {"place"}
    OBVIOUS
  <2> QED BY <1>2, <2>1, RestOfFrame, Zenon
<1>4. /\ <<n, FALSE>> \in told => (slot.active /\ ~slot.lifting <=> on.down)
      /\ <<n, TRUE>> \in told => slot.at = on.at
  BY <1>3, Zenon DEF SlotFollows
<1>5. /\ ~Closed(slot).changed /\ ~Closed(slot).lifting /\ Closed(slot).at = slot.at
      /\ Closed(slot).active <=> slot.active /\ ~slot.lifting
      /\ RowValue(slot, value) = IF slot.active /\ ~slot.lifting THEN slot.at ELSE Neutral
  BY ClosedKept, Zenon
<1>6. SlotFollows(n, Closed(slot), on, t, told)
  BY <1>2, <1>4, <1>5, Zenon DEF SlotFollows
<1> QED BY <1>4, <1>5, <1>6, Zenon DEF Shown, ClosesWell


-----------------------------------------------------------------------------
(* A line is read                                                          *)

LEMMA KeyRowsPlayed ==
  ASSUME GeteventAssumption, GeteventTypes, NEW line \in LineTypes, line.value \in Keys
  PROVE  \A c : ValueOf(Played(HeldNow, KeyRows(line)), c) =
                  IF c = line.value /\ ~Filtered THEN line.more ELSE ValueOf(HeldNow, c)
<1> PICK state : state = HeldNow
  OBVIOUS
<1>1. state \in States /\ OneEach(state)
  BY HeldType, Zenon
<1>2. CASE Filtered
  <2>1. KeyRows(line) = <<>> /\ Played(state, <<>>) = state
    BY <1>1, <1>2, PlayedNone, Zenon DEF KeyRows
  <2> QED BY <1>2, <2>1, Zenon
<1>3. CASE ~Filtered
  <2> PICK row : row = Set(line.value, line.more)
    OBVIOUS
  <2>1. line.value \in Controls /\ line.more \in Nat
    BY DEF GeteventAssumption, LineTypes
  <2>2. row \in Rows /\ row.control = line.value /\ row.value = line.more
    BY <2>1 DEF Rows, Set
  <2>3. KeyRows(line) = <<row>>
    BY <1>3, Zenon DEF KeyRows
  <2>4. Played(state, <<row>>) = Apply(state, row)
    BY <1>1, <2>2, PlayedOne, Zenon
  <2>5. \A c : ValueOf(Apply(state, row), c) = IF c = row.control THEN row.value ELSE ValueOf(state, c)
    BY <1>1, <2>2, AppliedValue, Zenon
  <2> QED BY <1>3, <2>2, <2>3, <2>4, <2>5, Zenon
<1> QED BY <1>2, <1>3, Zenon

\* What the parser and its made are after a line.
LineChanges(line) ==
  /\ parser'.slot = IF line.kind = "slot" THEN Min({line.value, max_slots}) ELSE parser.slot
  /\ parser'.slots = IF line.kind \in SlotLines THEN TouchedSlots(line)
                     ELSE IF line.kind = "syn" THEN [s \in Tracked |-> Closed(parser.slots[s])]
                     ELSE parser.slots
  /\ \A s \in Tracked : ValueOf(HeldNow', s) =
       IF line.kind = "syn" THEN RowValue(parser.slots[s], ValueOf(HeldNow, s)) ELSE ValueOf(HeldNow, s)
  /\ \A c \in Keys : ValueOf(HeldNow', c) =
       IF c \in {line.value} /\ line.kind = "key" /\ ~Filtered THEN line.more ELSE ValueOf(HeldNow, c)

LEMMA LineEffect ==
  ASSUME GeteventAssumption, GeteventTypes, TimeInv, PanelInv, FeedLine
  PROVE  /\ parser' \in ParserTypes /\ out' \in States /\ OneEach(out')
         /\ waited' \in Int /\ begun' \in Nat /\ TimeInv'
         /\ LineChanges(Line1)
<1> PICK line : line = Line1
  OBVIOUS
<1> PICK fed : fed = Feed(parser, line)
  OBVIOUS
<1>1. /\ Going /\ line \in LineTypes /\ Head(unread) = line /\ True(line, panel.slots) /\ Heard(line)
  BY LineIsRead, Zenon
<1>2. /\ line.kind \in ContactLines => line.value \in PanelSlots
      /\ line.kind = "key" => line.value \in Keys
  BY <1>1, Zenon DEF True
<1>3. /\ parser' = fed.parser /\ out' = Played(out, fed.rows) /\ waited' = waited + fed.wait
      /\ begun' = IF begun = 0 THEN fed.parser.since ELSE begun
  BY <1>1, Zenon DEF FeedLine
<1> DEFINE Became(slot, slots, made) ==
      /\ parser' \in ParserTypes /\ parser'.slot = slot /\ parser'.slots = slots
      /\ out' \in States /\ OneEach(out') /\ HeldNow' = Played(HeldNow, made)
      /\ waited' \in Int /\ begun' \in Nat /\ TimeInv'
<1>4. ASSUME NEW slot, NEW slots, NEW made, Effect(fed, slot, slots, made)
      PROVE  Became(slot, slots, made)
  BY <1>1, <1>3, <1>4, EffectHolds, Zenon
<1>5. /\ line.kind = "slot" => Effect(fed, Min({line.value, max_slots}), parser.slots, <<>>)
      /\ line.kind \in SlotLines => Effect(fed, parser.slot, TouchedSlots(line), <<>>)
      /\ line.kind = "syn" => Effect(fed, parser.slot, [s \in Tracked |-> Closed(parser.slots[s])],
                                     SlotRows(parser.slots))
      /\ line.kind = "key" => Effect(fed, parser.slot, parser.slots, KeyRows(line))
      /\ line.kind = "keysyn" => Effect(fed, parser.slot, parser.slots, <<>>)
  BY <1>1, <1>2, FeedEffect, Zenon
<1>6. HeldNow \in States /\ OneEach(HeldNow) /\ parser.slots \in [Tracked -> SlotTypes]
  BY HeldType, Zenon
<1>7. Played(HeldNow, <<>>) = HeldNow
  BY <1>6, PlayedNone, Zenon
<1>8. \A c \in Keys : c \notin Tracked
  BY DEF GeteventAssumption, Tracked
<1>9. /\ line.kind \in PanelLines <=> line.kind \notin KeyLines
      /\ line.kind \in PanelLines <=> line.kind = "syn" \/ line.kind \in ContactLines
      /\ line.kind \in ContactLines <=> line.kind = "slot" \/ line.kind \in SlotLines
      /\ line.kind \in SlotLines <=> line.kind \in {"new", "end", "place"}
      /\ line.kind \in KeyLines <=> line.kind \in {"key", "keysyn"}
  BY <1>1, KindsApart, Zenon
<1>10. /\ line.kind = "slot" => line.kind \notin SlotLines /\ line.kind # "syn" /\ line.kind # "key"
       /\ line.kind \in SlotLines => line.kind # "syn" /\ line.kind # "key" /\ line.kind # "slot"
       /\ line.kind = "syn" => line.kind # "key" /\ line.kind # "slot" /\ line.kind \notin SlotLines
       /\ line.kind = "key" => line.kind # "syn" /\ line.kind # "slot" /\ line.kind \notin SlotLines
       /\ line.kind = "keysyn" => /\ line.kind # "syn" /\ line.kind # "slot" /\ line.kind \notin SlotLines
                                  /\ line.kind # "key"
       /\ line.kind = "slot" \/ line.kind \in SlotLines \/ line.kind = "syn" \/ line.kind = "key" \/ line.kind = "keysyn"
  BY <1>9
<1> DEFINE Goal == /\ parser' \in ParserTypes /\ out' \in States /\ OneEach(out')
                   /\ waited' \in Int /\ begun' \in Nat /\ TimeInv'
                   /\ LineChanges(line)
<1>11. CASE line.kind = "slot"
  <2>1. Became(Min({line.value, max_slots}), parser.slots, <<>>)
    BY <1>4, <1>5, <1>11, Zenon
  <2>2. HeldNow' = HeldNow
    BY <2>1, <1>7, Zenon
  <2> QED BY <2>1, <2>2, <1>10, <1>11, Zenon DEF LineChanges
<1>12. CASE line.kind \in SlotLines
  <2>1. Became(parser.slot, TouchedSlots(line), <<>>)
    BY <1>4, <1>5, <1>12, Zenon
  <2>2. HeldNow' = HeldNow
    BY <2>1, <1>7, Zenon
  <2> QED BY <2>1, <2>2, <1>10, <1>12, Zenon DEF LineChanges
<1>13. CASE line.kind = "keysyn"
  <2>1. Became(parser.slot, parser.slots, <<>>)
    BY <1>4, <1>5, <1>13, Zenon
  <2>2. HeldNow' = HeldNow
    BY <2>1, <1>7, Zenon
  <2> QED BY <2>1, <2>2, <1>10, <1>13, Zenon DEF LineChanges
<1>14. CASE line.kind = "key"
  <2>1. Became(parser.slot, parser.slots, KeyRows(line))
    BY <1>4, <1>5, <1>14, Zenon
  <2>2. \A c : ValueOf(HeldNow', c) = IF c = line.value /\ ~Filtered THEN line.more ELSE ValueOf(HeldNow, c)
    BY <1>1, <1>2, <1>14, <2>1, KeyRowsPlayed, Zenon
  <2>3. \A s \in Tracked : s # line.value
    BY <1>2, <1>8, <1>14, Zenon
  <2>4. /\ \A s \in Tracked : ValueOf(HeldNow', s) = ValueOf(HeldNow, s)
        /\ \A c \in Keys : ValueOf(HeldNow', c) =
             IF c \in {line.value} /\ line.kind = "key" /\ ~Filtered THEN line.more ELSE ValueOf(HeldNow, c)
    BY <1>14, <2>2, <2>3, Zenon
  <2> QED BY <2>1, <2>4, <1>10, <1>14, Zenon DEF LineChanges
<1>15. CASE line.kind = "syn"
  <2>1. Became(parser.slot, [s \in Tracked |-> Closed(parser.slots[s])], SlotRows(parser.slots))
    BY <1>4, <1>5, <1>15, Zenon
  <2>2. \A c : ValueOf(HeldNow', c) =
          IF c \in Tracked THEN RowValue(parser.slots[c], ValueOf(HeldNow, c)) ELSE ValueOf(HeldNow, c)
    BY <1>6, <2>1, SlotRowsPlayed, Zenon
  <2>3. /\ \A s \in Tracked : ValueOf(HeldNow', s) = RowValue(parser.slots[s], ValueOf(HeldNow, s))
        /\ \A c \in Keys : ValueOf(HeldNow', c) = ValueOf(HeldNow, c)
    BY <1>8, <2>2, Zenon
  <2> QED BY <2>1, <2>3, <1>10, <1>15, Zenon DEF LineChanges
<1> QED BY <1>10, <1>11, <1>12, <1>13, <1>14, <1>15, Zenon

\* How a slot is kept over a line that does not close the frame, and over one that does.
SlotsAgree(slots, state, s, told) ==
  \A n \in Tracked : /\ SlotKept(slots[n], ValueOf(state, n))
                     /\ SlotFollows(n, slots[n], panel.slots[n], s, told)

LEMMA SlotSpokenOf ==
  ASSUME GeteventAssumption, NEW slot, NEW v \in Nat, NEW told, Agrees(slot, v, told), NEW n \in Tracked
  PROVE  /\ n = slot /\ n # v => n = 0 /\ told = {}
         /\ n # slot /\ n = v => told = {}
         /\ slot # v => slot = max_slots \/ told = {}
<1>1. max_slots \in Nat /\ n \in 0..(max_slots - 1)
  BY DEF GeteventAssumption, Tracked
<1>2. CASE slot = Min({v, max_slots})
  <2>1. slot = IF v <= max_slots THEN v ELSE max_slots
    BY <1>1, <1>2, LesserOfTwo, Zenon
  <2> QED BY <1>1, <2>1
<1>3. CASE slot = 0 /\ v # 0 /\ told = {}
  BY <1>3
<1> QED BY <1>2, <1>3, Zenon DEF Agrees

LEMMA SlotLineKeeps ==
  ASSUME GeteventAssumption, GeteventTypes, NEW s, NEW t, NEW k, Rest(s, t, k),
         FrameLines(s, panel.slots, panel.slot), NEW told, NEW told2, NEW state,
         s[1].kind \in SlotLines, s[1].value \in Nat, Agrees(parser.slot, s[1].value, told),
         told2 = IF parser.slot = s[1].value THEN told \union {<<s[1].value, s[1].kind = "place">>} ELSE told,
         \A m \in 1..k : s[m].kind \in ContactLines => s[m].value \in Nat,
         SlotsAgree(parser.slots, state, s, told)
  PROVE  SlotsAgree(TouchedSlots(s[1]), state, t, told2)
<1> PICK slot : slot = parser.slot
  OBVIOUS
<1> PICK slots : slots = parser.slots
  OBVIOUS
<1> PICK line : line = s[1]
  OBVIOUS
<1> PICK after : after = TouchedSlots(line)
  OBVIOUS
<1> PICK v : v = s[1].value
  OBVIOUS
<1> PICK on : on = panel.slots
  OBVIOUS
<1>1. slots \in [Tracked -> SlotTypes] /\ line \in LineTypes /\ k \in Nat \ {0}
  <2>1. slots \in [Tracked -> SlotTypes]
    BY HeldType, Zenon
  <2>2. line \in LineTypes /\ k \in Nat \ {0}
    BY DEF Rest
  <2> QED BY <2>1, <2>2
<1>2. ASSUME NEW n \in Tracked
      PROVE  after[n] = IF n = slot THEN Touched(slots[n], line) ELSE slots[n]
  BY <1>1 DEF TouchedSlots
<1>3. line.kind # "syn"
  BY DEF SlotLines
<1>4. ASSUME NEW n \in Tracked
      PROVE  /\ SlotKept(after[n], ValueOf(state, n))
             /\ SlotFollows(n, after[n], panel.slots[n], t, told2)
  <2>1. slots[n] \in SlotTypes
    BY <1>1
  <2>2. /\ SlotKept(slots[n], ValueOf(state, n))
        /\ SlotFollows(n, slots[n], panel.slots[n], s, told)
    BY Zenon DEF SlotsAgree
  <2>3. /\ n = slot /\ n # line.value => n = 0 /\ told = {}
        /\ n # slot /\ n = line.value => told = {}
    <3>1. v \in Nat /\ Agrees(slot, v, told)
      BY Zenon
    <3>2. /\ n = slot /\ n # v => n = 0 /\ told = {}
          /\ n # slot /\ n = v => told = {}
      BY <3>1, SlotSpokenOf
    <3> QED BY <3>2, Zenon
  <2>4. CASE n = slot
    <3>1. after[n] = Touched(slots[n], line)
      BY <1>2, <2>4, Zenon
    <3>2. SlotKept(Touched(slots[n], line), ValueOf(state, n))
      BY <1>1, <2>1, <2>2, TouchedKept, Zenon
    <3>3. CASE n = line.value
      <4>1. told2 = told \union {<<n, s[1].kind = "place">>}
        BY <2>4, <3>3, Zenon
      <4>2. SlotFollows(n, Touched(slots[n], s[1]), panel.slots[n], t, told2)
        BY <2>1, <2>2, <3>3, <4>1, TouchedFollows, Zenon
      <4> QED BY <3>1, <3>2, <4>2, Zenon
    <3>4. CASE n # line.value
      <4>1. n = 0 /\ told = {} /\ told2 = told
        BY <2>3, <2>4, <3>4, Zenon
      <4>2. s[1].value \in Nat \ {0}
        BY <3>4, <4>1
      <4>3. SlotFollows(0, Touched(slots[n], line), panel.slots[n], t, told)
        BY <4>1, <4>2, AstrayFollows, Zenon
      <4> QED BY <3>1, <3>2, <4>1, <4>3, Zenon
    <3> QED BY <3>3, <3>4, Zenon
  <2>5. CASE n # slot
    <3>1. after[n] = slots[n]
      BY <1>2, <2>5, Zenon
    <3>2. ASSUME NEW b \in BOOLEAN, <<n, b>> \in told2
          PROVE  <<n, b>> \in told
      <4>1. CASE parser.slot = s[1].value
        <5>1. told2 = told \union {<<s[1].value, s[1].kind = "place">>}
          BY <4>1, Zenon
        <5>2. <<n, b>> # <<s[1].value, s[1].kind = "place">>
          BY <2>5, <4>1
        <5> QED BY <3>2, <5>1, <5>2
      <4>2. CASE parser.slot # s[1].value
        BY <3>2, <4>2, Zenon
      <4> QED BY <4>1, <4>2
    <3>3. s[1].kind # "syn" /\ (s[1].kind \in SlotLines /\ s[1].value = n => told = {})
      BY <1>3, <2>3, <2>5, Zenon
    <3>4. FrameLines(s, on, panel.slot) /\ SlotFollows(n, slots[n], on[n], s, told)
      BY <2>2, Zenon
    <3>5. SlotFollows(n, slots[n], on[n], t, told2)
      BY <3>2, <3>3, <3>4, UntouchedFollows
    <3> QED BY <2>2, <3>1, <3>5, Zenon
  <2> QED BY <2>4, <2>5, Zenon
<1> QED BY <1>4, Zenon DEF SlotsAgree

\* A line that is about no slot, and one that closes the frame.
LEMMA OtherLineKeeps ==
  ASSUME NEW s, NEW t, NEW k, Rest(s, t, k), FrameLines(s, panel.slots, panel.slot), NEW told, NEW state,
         NEW slots, s[1].kind \notin SlotLines, s[1].kind # "syn", SlotsAgree(slots, state, s, told)
  PROVE  SlotsAgree(slots, state, t, told)
<1> SUFFICES ASSUME NEW n \in Tracked
             PROVE  /\ SlotKept(slots[n], ValueOf(state, n))
                    /\ SlotFollows(n, slots[n], panel.slots[n], t, told)
  BY Zenon DEF SlotsAgree
<1>1. SlotKept(slots[n], ValueOf(state, n)) /\ SlotFollows(n, slots[n], panel.slots[n], s, told)
  BY Zenon DEF SlotsAgree
<1>2. s[1].kind # "syn" /\ (s[1].kind \in SlotLines /\ s[1].value = n => told = {})
      /\ \A b \in BOOLEAN : <<n, b>> \in told => <<n, b>> \in told
  BY Zenon
<1>3. SlotFollows(n, slots[n], panel.slots[n], t, told)
  BY <1>1, <1>2, UntouchedFollows, Zenon
<1> QED BY <1>1, <1>3, Zenon

SlotsClosed(slots, state, t, told) ==
  /\ SlotsAgree(slots, state, t, told)
  /\ \A n \in Tracked : {n} \X BOOLEAN \subseteq told => ValueOf(state, n) = OnPanel(n)

SlotsClose(slots, state, slots2, state2) ==
  \A n \in Tracked : /\ slots[n] \in SlotTypes /\ slots2[n] = Closed(slots[n])
                     /\ ValueOf(state2, n) = RowValue(slots[n], ValueOf(state, n))

LEMMA SynKeeps ==
  ASSUME NEW s, NEW t, NEW k, Rest(s, t, k),
         FrameLines(s, panel.slots, panel.slot), NEW told, NEW state, NEW state2,
         NEW slots, NEW slots2, s[1].kind = "syn", SlotsAgree(slots, state, s, told),
         SlotsClose(slots, state, slots2, state2)
  PROVE  SlotsClosed(slots2, state2, t, told)
<1>1. ASSUME NEW n \in Tracked
      PROVE  /\ SlotKept(slots2[n], ValueOf(state2, n)) /\ SlotFollows(n, slots2[n], panel.slots[n], t, told)
             /\ {n} \X BOOLEAN \subseteq told => ValueOf(state2, n) = OnPanel(n)
  <2> PICK value : value = ValueOf(state, n)
    OBVIOUS
  <2> PICK slot : slot = slots[n]
    OBVIOUS
  <2>1. SlotKept(slot, value) /\ SlotFollows(n, slot, panel.slots[n], s, told)
    BY Zenon DEF SlotsAgree
  <2>2. slot \in SlotTypes /\ slots2[n] = Closed(slot) /\ ValueOf(state2, n) = RowValue(slot, value)
    BY Zenon DEF SlotsClose
  <2>4. SlotKept(Closed(slot), RowValue(slot, value))
    BY <2>1, <2>2, ClosedKept, Zenon
  <2>5. /\ SlotFollows(n, Closed(slot), panel.slots[n], t, told)
        /\ <<n, FALSE>> \in told /\ <<n, TRUE>> \in told =>
             RowValue(slot, value) = IF panel.slots[n].down THEN panel.slots[n].at ELSE Neutral
    <3> PICK on : on = panel.slots[n]
      OBVIOUS
    <3> PICK all : all = panel.slots
      OBVIOUS
    <3> PICK last : last = panel.slot
      OBVIOUS
    <3>1. /\ slot \in SlotTypes /\ SlotFollows(n, slot, on, s, told) /\ Rest(s, t, k)
          /\ FrameLines(s, all, last) /\ SlotKept(slot, value) /\ s[1].kind = "syn"
      BY <2>1, <2>2, Zenon
    <3>2. ClosesWell(n, slot, on, t, told, value)
      BY <3>1, ClosedFollows, Zenon
    <3> QED BY <3>2, Zenon DEF Shown, ClosesWell
  <2>6. {n} \X BOOLEAN \subseteq told => <<n, FALSE>> \in told /\ <<n, TRUE>> \in told
    OBVIOUS
  <2> QED BY <2>2, <2>4, <2>5, <2>6, Zenon DEF OnPanel
<1> QED BY <1>1, Zenon DEF SlotsAgree, SlotsClosed

\* The slots after a line.
LEMMA SlotsAfterLine ==
  ASSUME GeteventAssumption, GeteventTypes, TimeInv, PanelInv, FeedLine, LineChanges(Line1)
  PROVE  /\ SlotsAgree(parser'.slots, HeldNow', unread', heard'.lines)
         /\ Line1.kind = "syn" =>
              \A n \in Tracked : {n} \X BOOLEAN \subseteq heard.lines => ValueOf(HeldNow', n) = OnPanel(n)
         /\ Selects(unread', parser'.slot, panel.slot, heard'.lines)
<1> PICK s : s = unread
  OBVIOUS
<1> PICK t : t = unread'
  OBVIOUS
<1> PICK k : k = Len(unread)
  OBVIOUS
<1> PICK told : told = heard.lines
  OBVIOUS
<1> PICK told2 : told2 = heard'.lines
  OBVIOUS
<1> PICK state : state = HeldNow
  OBVIOUS
<1> PICK state2 : state2 = HeldNow'
  OBVIOUS
<1> PICK slots : slots = parser.slots
  OBVIOUS
<1> PICK slots2 : slots2 = parser'.slots
  OBVIOUS
<1> PICK slot2 : slot2 = parser'.slot
  OBVIOUS
<1> PICK last : last = panel.slot
  OBVIOUS
<1> PICK slot : slot = parser.slot
  OBVIOUS
<1>1. /\ Going /\ s \in Seq(LineTypes) /\ k \in Nat \ {0} /\ Line1 = s[1] /\ s[1] \in LineTypes
      /\ True(s[1], panel.slots) /\ t \in Seq(LineTypes) /\ Len(t) = k - 1 /\ Len(s) = k
      /\ \A n \in 1..(k - 1) : t[n] = s[n + 1]
      /\ FrameLines(s, panel.slots, last) /\ FrameLines(t, panel.slots, last)
      /\ Selects(s, slot, last, told) /\ Heard(s[1])
  BY LineIsRead, Zenon DEF Line1
<1>2. Rest(s, t, k)
  BY <1>1, Zenon DEF Rest
<1>3. SlotsAgree(slots, state, s, told)
  BY <1>1, Zenon DEF PanelInv, SlotsAgree, HeldValue
<1>4. /\ slot2 = IF s[1].kind = "slot" THEN Min({s[1].value, max_slots}) ELSE slot
      /\ slots2 = IF s[1].kind \in SlotLines THEN TouchedSlots(s[1])
                  ELSE IF s[1].kind = "syn" THEN [n \in Tracked |-> Closed(slots[n])] ELSE slots
      /\ \A n \in Tracked : ValueOf(state2, n) =
           IF s[1].kind = "syn" THEN RowValue(slots[n], ValueOf(state, n)) ELSE ValueOf(state, n)
  BY <1>1, Zenon DEF LineChanges
<1>5. /\ s[1].kind \notin SlotLines \/ slot # s[1].value => told2 = told
      /\ s[1].kind \in SlotLines /\ slot = s[1].value => told2 = told \union {<<s[1].value, s[1].kind = "place">>}
  BY <1>1, LineTold, Zenon
<1>6. \A m \in 1..k : s[m].kind \in ContactLines => s[m].value \in Nat
  <2>1. \A m \in 1..k : s[m].kind \in ContactLines => s[m].value \in PanelSlots
    BY <1>1, Zenon DEF FrameLines, True
  <2>2. \A v \in PanelSlots : v \in Nat
    BY DEF GeteventAssumption
  <2> QED BY <2>1, <2>2, Zenon
<1>7. s[1].kind \in SlotLines => s[1].kind \in ContactLines /\ s[1].kind # "syn" /\ s[1].kind \in PanelLines \ {"slot"}
  BY DEF SlotLines, ContactLines, PanelLines
<1>8. s[1].kind \in SlotLines => s[1].value \in Nat
  <2>1. 1 \in 1..k
    BY <1>1
  <2> QED BY <1>6, <1>7, <2>1, Zenon
<1>9. Selects(t, slot2, last, told2)
  BY <1>1, <1>4, <1>5, <1>8, SelectionFollows
<1>10. CASE s[1].kind \in SlotLines
  <2>1. Agrees(slot, s[1].value, told)
    <3>1. 1 \in 1..Len(s) /\ Begins(s, 1)
      BY <1>1 DEF Begins
    <3>2. Agrees(slot, Speaks(s[1], last), told)
      BY <1>1, <1>7, <1>10, <3>1, Zenon DEF Selects
    <3> QED BY <1>7, <1>10, <3>2, Zenon DEF Speaks
  <2>2. told2 = IF parser.slot = s[1].value THEN told \union {<<s[1].value, s[1].kind = "place">>} ELSE told
    BY <1>5, <1>10, Zenon
  <2>3. slots2 = TouchedSlots(s[1]) /\ s[1].value \in Nat
    BY <1>4, <1>8, <1>10, Zenon
  <2>4. SlotsAgree(TouchedSlots(s[1]), state, t, told2)
    BY <1>1, <1>2, <1>3, <1>6, <1>10, <2>1, <2>2, <2>3, SlotLineKeeps, Zenon
  <2>5. s[1].kind # "syn" /\ \A n \in Tracked : ValueOf(state2, n) = ValueOf(state, n)
    BY <1>4, <1>7, <1>10, Zenon
  <2>6. SlotsAgree(slots2, state2, t, told2)
    BY <2>3, <2>4, <2>5, Zenon DEF SlotsAgree
  <2> QED BY <1>1, <1>9, <2>5, <2>6, Zenon
<1>11. CASE s[1].kind \notin SlotLines /\ s[1].kind # "syn"
  <2>1. slots2 = slots /\ told2 = told /\ \A n \in Tracked : ValueOf(state2, n) = ValueOf(state, n)
    BY <1>4, <1>5, <1>11, Zenon
  <2>2. SlotsAgree(slots, state, t, told)
    BY <1>1, <1>2, <1>3, <1>11, OtherLineKeeps, Zenon
  <2>3. SlotsAgree(slots2, state2, t, told2)
    BY <2>1, <2>2, Zenon DEF SlotsAgree
  <2> QED BY <1>1, <1>9, <1>11, <2>3, Zenon
<1>12. CASE s[1].kind = "syn"
  <2>1. s[1].kind \notin SlotLines
    BY <1>12 DEF SlotLines
  <2>2. /\ told2 = told /\ slots2 = [n \in Tracked |-> Closed(slots[n])] /\ slots \in [Tracked -> SlotTypes]
        /\ \A n \in Tracked : ValueOf(state2, n) = RowValue(slots[n], ValueOf(state, n))
    BY <1>4, <1>5, <1>12, <2>1, HeldType, Zenon
  <2>3. SlotsClosed(slots2, state2, t, told)
    <3>1. FrameLines(s, panel.slots, panel.slot)
      BY <1>1, Zenon
    <3>2. SlotsClose(slots, state, slots2, state2)
      BY <2>2 DEF SlotsClose
    <3> QED BY <1>2, <1>3, <1>12, <3>1, <3>2, SynKeeps, Zenon
  <2> QED BY <1>1, <1>9, <2>2, <2>3, Zenon DEF SlotsClosed
<1> QED BY <1>10, <1>11, <1>12

LEMMA FeedLineKeeps ==
  ASSUME GeteventAssumption, GeteventInv, FeedLine
  PROVE  GeteventInv'
<1> PICK line : line = Line1
  OBVIOUS
<1>1. GeteventTypes /\ TimeInv /\ PanelInv /\ RowsFollowThePanel
  BY Zenon DEF GeteventInv
<1>2. /\ line \in LineTypes /\ True(line, panel.slots) /\ Heard(line) /\ unread' \in Seq(LineTypes)
      /\ FrameLines(unread', panel.slots, panel.slot) /\ UNCHANGED <<panel, clock, frames>>
  BY <1>1, LineIsRead, Zenon
<1>3. /\ parser' \in ParserTypes /\ out' \in States /\ OneEach(out')
      /\ waited' \in Int /\ begun' \in Nat /\ TimeInv' /\ LineChanges(line)
  BY <1>1, LineEffect, Zenon
<1>4. /\ SlotsAgree(parser'.slots, HeldNow', unread', heard'.lines)
      /\ line.kind = "syn" =>
           \A n \in Tracked : {n} \X BOOLEAN \subseteq heard.lines => ValueOf(HeldNow', n) = OnPanel(n)
      /\ Selects(unread', parser'.slot, panel.slot, heard'.lines)
  BY <1>1, <1>3, SlotsAfterLine, Zenon
<1>5. /\ line.kind \in ContactLines => line.value \in PanelSlots
      /\ line.kind = "key" => line.value \in Keys
  BY <1>2, Zenon DEF True
<1>6. /\ truth' \in States /\ OneEach(truth')
      /\ \A c \in Keys : ValueOf(truth', c) =
           IF c \in {line.value} /\ line.kind = "key" /\ ~Filtered THEN line.more ELSE ValueOf(truth, c)
      /\ \A s \in Tracked : ValueOf(truth', s) = IF line.kind = "syn" THEN OnPanel(s) ELSE ValueOf(truth, s)
  BY <1>1, <1>2, <1>5, TruthHeard, Zenon
<1>7. heard' \in [lines : SUBSET (PanelSlots \X BOOLEAN), frame : SUBSET (PanelSlots \X BOOLEAN)]
  BY <1>1, <1>2, <1>5, HeardType, Zenon
<1>8. GeteventTypes'
  <2>1. panel' = panel /\ clock' = clock /\ frames' = frames
    BY <1>2
  <2>2. /\ panel \in [slots : [PanelSlots -> [down : BOOLEAN, at : Places]], slot : PanelSlots]
        /\ clock \in Nat \ {0} /\ frames \in Nat
    BY <1>1, Zenon DEF GeteventTypes
  <2> QED BY <1>2, <1>3, <1>6, <1>7, <2>1, <2>2, Zenon DEF GeteventTypes
<1>9. PanelInv'
  <2>1. panel' = panel
    BY <1>2
  <2> QED BY <1>2, <1>4, <2>1, Zenon DEF PanelInv, SlotsAgree, HeldValue
<1>10. heard'.frame = IF line.kind = "syn" THEN heard.lines ELSE heard.frame
  BY <1>1, <1>2, LineTold, Zenon
<1>11. /\ \A c \in Known : ValueOf(HeldNow, c) = ValueOf(truth, c)
       /\ \A c \in Keys : ValueOf(HeldNow, c) = ValueOf(truth, c)
  BY <1>1 DEF RowsFollowThePanel, HeldNow
<1>12. \A c \in Keys : ValueOf(HeldNow', c) = ValueOf(truth', c)
  BY <1>3, <1>6, <1>11, Zenon DEF LineChanges
<1>13. ASSUME NEW c \in Tracked, {c} \X BOOLEAN \subseteq heard'.frame
       PROVE  ValueOf(HeldNow', c) = ValueOf(truth', c)
  <2>1. CASE line.kind = "syn"
    <3>1. {c} \X BOOLEAN \subseteq heard.lines
      BY <1>10, <1>13, <2>1, Zenon
    <3>2. ValueOf(HeldNow', c) = OnPanel(c)
      BY <1>4, <2>1, <3>1, Zenon
    <3> QED BY <1>6, <2>1, <3>2, Zenon
  <2>2. CASE line.kind # "syn"
    <3>1. c \in Known
      BY <1>10, <1>13, <2>2, Zenon DEF Known
    <3>2. ValueOf(HeldNow', c) = ValueOf(HeldNow, c)
      BY <1>3, <2>2, Zenon DEF LineChanges
    <3> QED BY <1>6, <1>11, <2>2, <3>1, <3>2, Zenon
  <2> QED BY <2>1, <2>2, Zenon
<1>14. RowsFollowThePanel'
  <2>1. \A c \in Known' : ValueOf(HeldNow', c) = ValueOf(truth', c)
    BY <1>13, Zenon DEF Known
  <2>2. begun' + waited' = parser'.since
    BY <1>3, Zenon DEF TimeInv
  <2> QED BY <1>12, <2>1, <2>2 DEF RowsFollowThePanel, HeldNow
<1> QED BY <1>3, <1>8, <1>9, <1>14, Zenon DEF GeteventInv

-----------------------------------------------------------------------------
(* The panel speaks                                                        *)

\* Lines of the panel that close its frame and speak of slot v first.
Opens(t, v, slots, last) ==
  /\ t \in Seq(LineTypes) /\ Len(t) \in Nat \ {0} /\ FrameLines(t, slots, last)
  /\ \A n \in 1..Len(t) : t[n].kind \in PanelLines /\ (t[n].kind \in ContactLines => v <= t[n].value)
  /\ t[1].kind = "slot" \/ Speaks(t[1], last) = v

\* A line is put before them.
Prefixed(line, t, v, slots, last) ==
  /\ Opens(<<line>> \o t, v, slots, last) /\ (<<line>> \o t)[1] = line
  /\ \A kinds, n : Unsaid(kinds, <<line>> \o t, n) <=> Unsaid(kinds, t, n) /\ (line.kind \in kinds => line.value # n)

LEMMA LinePrefixed ==
  ASSUME NEW t, NEW v \in Nat, NEW slots, NEW last, Opens(t, v, slots, last), NEW line \in LineTypes,
         line.kind \in ContactLines, line.value = v, True(line, slots),
         line.kind \in {"new", "end"} => Unsaid({"new", "end"}, t, v)
  PROVE  Prefixed(line, t, v, slots, last)
<1> PICK u : u = <<line>> \o t
  OBVIOUS
<1> PICK k : k = Len(t)
  OBVIOUS
<1>1. /\ t \in Seq(LineTypes) /\ k \in Nat \ {0} /\ KeysFirst(t) /\ SynIsLast(t) /\ OneSlotAfterAnother(t, last)
      /\ SaidOnce(t) /\ \A n \in 1..k : True(t[n], slots)
      /\ \A n \in 1..k : t[n].kind \in PanelLines /\ (t[n].kind \in ContactLines => v <= t[n].value)
      /\ t[1].kind = "slot" \/ Speaks(t[1], last) = v
  BY Zenon DEF Opens, FrameLines
<1>2. /\ u \in Seq(LineTypes) /\ Len(u) = k + 1 /\ u[1] = line
      /\ \A n \in 1..k : u[n + 1] = t[n]
  <2>1. <<line>> \in Seq(LineTypes) /\ Len(<<line>>) = 1 /\ <<line>>[1] = line
    OBVIOUS
  <2>2. u \in Seq(LineTypes) /\ Len(u) = 1 + k
    BY <1>1, <2>1, ConcatProperties
  <2> QED BY <1>1, <2>1, <2>2
<1>3. ASSUME NEW n \in 1..(k + 1), n # 1 PROVE n - 1 \in 1..k /\ (n - 1) + 1 = n /\ u[n] = t[n - 1]
  <2>1. n - 1 \in 1..k /\ (n - 1) + 1 = n
    BY <1>1, <1>3
  <2>2. u[(n - 1) + 1] = t[n - 1]
    BY <1>2, <2>1, Zenon
  <2> QED BY <2>1, <2>2
<1>4. line.kind \in PanelLines /\ line.kind # "syn"
  BY DEF PanelLines, ContactLines, SlotLines
<1>5. \A n \in 1..(k + 1) : u[n].kind \in PanelLines
  BY <1>1, <1>2, <1>3, <1>4, Zenon
<1>6. KeysFirst(u)
  BY <1>2, <1>5, Zenon DEF KeysFirst
<1>7. SynIsLast(u)
  <2>1. ASSUME NEW n \in 1..(k + 1) PROVE u[n].kind = "syn" <=> n = k + 1
    <3>1. CASE n = 1
      BY <1>1, <1>2, <1>4, <3>1
    <3>2. CASE n # 1
      <4>1. n - 1 \in 1..k /\ u[n] = t[n - 1]
        BY <1>3, <3>2, Zenon
      <4>2. t[n - 1].kind = "syn" <=> n - 1 = k
        BY <1>1, <4>1, Zenon DEF SynIsLast
      <4>3. n - 1 = k <=> n = k + 1
        BY <1>1
      <4> QED BY <4>1, <4>2, <4>3, Zenon
    <3> QED BY <3>1, <3>2
  <2> QED BY <1>2, <1>5, <2>1, Zenon DEF SynIsLast
<1>8. OneSlotAfterAnother(u, last)
  <2>1. ASSUME NEW n \in 1..k, u[n + 1].kind # "slot" PROVE Speaks(u[n + 1], last) = u[n].value
    <3>1. CASE n = 1
      <4>1. 1 \in 1..k /\ u[1 + 1] = t[1]
        BY <1>1, <1>2
      <4> QED BY <1>1, <1>2, <2>1, <3>1, <4>1, Zenon
    <3>2. CASE n # 1
      <4>1. n \in 1..(k + 1) /\ n - 1 \in 1..(k - 1) /\ (n - 1) + 1 = n /\ n - 1 \in 1..k
        BY <1>1, <3>2
      <4>2. u[n] = t[n - 1] /\ u[n + 1] = t[n]
        BY <1>2, <1>3, <3>2, <4>1, Zenon
      <4>3. t[(n - 1) + 1] = t[n]
        BY <4>1
      <4>4. t[n - 1].kind \in PanelLines /\ t[(n - 1) + 1].kind # "slot"
        BY <1>1, <2>1, <4>1, <4>2, <4>3, Zenon
      <4>5. Speaks(t[(n - 1) + 1], last) = t[n - 1].value
        BY <1>1, <4>1, <4>4, Zenon DEF OneSlotAfterAnother
      <4> QED BY <4>2, <4>3, <4>5, Zenon
    <3> QED BY <3>1, <3>2
  <2>2. ASSUME NEW m \in 1..(k + 1), NEW n \in 1..(k + 1), m <= n, u[m].kind \in ContactLines, u[n].kind \in ContactLines
        PROVE  u[m].value <= u[n].value
    <3>1. CASE n = 1
      <4>1. m = 1
        BY <2>2, <3>1
      <4> QED BY <1>2, <3>1, <4>1
    <3>2. CASE n # 1 /\ m = 1
      <4>1. v <= t[n - 1].value
        BY <1>1, <1>3, <2>2, <3>2, Zenon
      <4> QED BY <1>2, <1>3, <3>2, <4>1, Zenon
    <3>3. CASE n # 1 /\ m # 1
      <4>1. m - 1 \in 1..k /\ n - 1 \in 1..k /\ u[m] = t[m - 1] /\ u[n] = t[n - 1]
        BY <1>3, <3>3, Zenon
      <4>2. m - 1 <= n - 1
        BY <2>2
      <4>3. t[m - 1].value <= t[n - 1].value
        BY <1>1, <2>2, <4>1, <4>2, Zenon DEF OneSlotAfterAnother
      <4> QED BY <4>1, <4>3, Zenon
    <3> QED BY <3>1, <3>2, <3>3, Zenon
  <2>3. Len(u) - 1 = k
    BY <1>1, <1>2
  <2> QED BY <1>2, <2>1, <2>2, <2>3, Zenon DEF OneSlotAfterAnother
<1>9. SaidOnce(u)
  <2>1. ASSUME NEW n \in 1..(k + 1), n # 1, u[n].kind \in {"new", "end"}, line.kind \in {"new", "end"}
        PROVE  u[n].value # v
    BY <1>1, <1>3, <2>1, Zenon DEF Unsaid
  <2>2. ASSUME NEW m \in 1..(k + 1), NEW n \in 1..(k + 1), m # 1, n # 1,
               u[m].kind \in {"new", "end"}, u[n].kind \in {"new", "end"}, u[m].value = u[n].value
        PROVE  m = n
    <3>1. m - 1 \in 1..k /\ n - 1 \in 1..k /\ u[m] = t[m - 1] /\ u[n] = t[n - 1]
      BY <1>3, <2>2, Zenon
    <3>2. m - 1 = n - 1
      BY <1>1, <2>2, <3>1, Zenon DEF SaidOnce
    <3> QED BY <3>2
  <2>3. ASSUME NEW m \in 1..(k + 1), NEW n \in 1..(k + 1),
               u[m].kind \in {"new", "end"}, u[n].kind \in {"new", "end"}, u[m].value = u[n].value
        PROVE  m = n
    BY <1>2, <2>1, <2>2, <2>3, Zenon
  <2> QED BY <1>2, <2>3, Zenon DEF SaidOnce
<1>10. \A n \in 1..(k + 1) : True(u[n], slots)
  BY <1>1, <1>2, <1>3, Zenon
<1>11. \A n \in 1..(k + 1) : u[n].kind \in ContactLines => v <= u[n].value
  <2>1. v <= v
    OBVIOUS
  <2> QED BY <1>1, <1>2, <1>3, <2>1, Zenon
<1>12. u[1].kind = "slot" \/ Speaks(u[1], last) = v
  BY <1>2, <1>4, Zenon DEF Speaks
<1>13. Opens(u, v, slots, last)
  <2>1. Len(u) \in Nat \ {0}
    BY <1>1, <1>2
  <2> QED BY <1>2, <1>5, <1>6, <1>7, <1>8, <1>9, <1>10, <1>11, <1>12, <2>1, Zenon DEF Opens, FrameLines
<1>14. ASSUME NEW kinds, NEW n
       PROVE  Unsaid(kinds, u, n) <=> Unsaid(kinds, t, n) /\ (line.kind \in kinds => line.value # n)
  <2>1. 1 \in 1..(k + 1) /\ \A m \in 1..k : m + 1 \in 1..(k + 1)
    BY <1>1
  <2>2. Unsaid(kinds, u, n) => Unsaid(kinds, t, n) /\ (line.kind \in kinds => line.value # n)
    BY <1>2, <2>1, Zenon DEF Unsaid
  <2>3. Unsaid(kinds, t, n) /\ (line.kind \in kinds => line.value # n) => Unsaid(kinds, u, n)
    BY <1>2, <1>3, Zenon DEF Unsaid
  <2> QED BY <2>2, <2>3
<1> QED BY <1>2, <1>13, <1>14, Zenon DEF Prefixed

\* A line is put before them unless there is nothing to say.
MaybePrefixed(not, line, t, u, v, slots, last) ==
  /\ Opens(u, v, slots, last) /\ (~not => u[1] = line)
  /\ \A kinds, n : Unsaid(kinds, u, n) <=> Unsaid(kinds, t, n) /\ (~not /\ line.kind \in kinds => line.value # n)

LEMMA LineMaybePrefixed ==
  ASSUME NEW t, NEW v \in Nat, NEW slots, NEW last, Opens(t, v, slots, last), NEW line, NEW not \in BOOLEAN,
         ~not => /\ line \in LineTypes /\ line.kind \in ContactLines /\ line.value = v /\ True(line, slots)
                 /\ line.kind \in {"new", "end"} => Unsaid({"new", "end"}, t, v),
         NEW u, u = (IF not THEN <<>> ELSE <<line>>) \o t
  PROVE  MaybePrefixed(not, line, t, u, v, slots, last)
<1>1. CASE not
  <2>1. u = t
    <3>1. t \in Seq(LineTypes)
      BY Zenon DEF Opens
    <3> QED BY <1>1, <3>1
  <2> QED BY <1>1, <2>1, Zenon DEF MaybePrefixed
<1>2. CASE ~not
  <2>1. u = <<line>> \o t
    BY <1>2, Zenon
  <2>2. Prefixed(line, t, v, slots, last)
    BY <1>2, LinePrefixed, Zenon
  <2> QED BY <1>2, <2>1, <2>2, Zenon DEF MaybePrefixed, Prefixed
<1> QED BY <1>1, <1>2

InARow(a, b, c) == (a \o b) \o c = a \o (b \o c)

LEMMA ThreeInARow ==
  ASSUME NEW a \in Seq(LineTypes), NEW b \in Seq(LineTypes), NEW c \in Seq(LineTypes)
  PROVE  InARow(a, b, c) /\ a \o b \in Seq(LineTypes)
<1>1. (a \o b) \o c = a \o (b \o c)
  BY ConcatAssociative
<1> QED BY <1>1, ConcatProperties, Zenon DEF InARow

FourInARow(a, b, c, d) == ((a \o b) \o c) \o d = a \o (b \o (c \o d))

LEMMA LinesInARow ==
  ASSUME NEW a \in Seq(LineTypes), NEW b \in Seq(LineTypes), NEW c \in Seq(LineTypes), NEW d \in Seq(LineTypes)
  PROVE  FourInARow(a, b, c, d)
<1> PICK e : e = a \o b
  OBVIOUS
<1> PICK f : f = c \o d
  OBVIOUS
<1>1. e \in Seq(LineTypes) /\ f \in Seq(LineTypes)
  BY ConcatProperties, Zenon
<1>2. InARow(e, c, d) /\ InARow(a, b, f)
  BY <1>1, ThreeInARow, Zenon
<1> QED BY <1>2, Zenon DEF InARow, FourInARow

SaidBefore(v, slot, change, current, t, u, slots, last) ==
  /\ Opens(u, v, slots, last) /\ (v # current => u[1].kind = "slot")
  /\ \A kinds, n : Unsaid(kinds, u, n) => Unsaid(kinds, t, n)
  /\ \A kinds, n : n # v /\ Unsaid(kinds, t, n) => Unsaid(kinds, u, n)
  /\ Unsaid({"new", "end"}, u, v) => change.id = "none"
  /\ Unsaid({"place"}, u, v) => change.at = slot.at

\* What is said of a slot, put before the lines that come after it.
LEMMA SlotSaid ==
  ASSUME GeteventAssumption, clock \in Nat \ {0}, NEW v \in PanelSlots, NEW t, NEW slots, NEW last,
         Opens(t, v, slots, last), Unsaid({"new", "end"}, t, v), NEW slot, NEW change \in Changes(slot),
         NEW current, slots[v].at = change.at, change.id = "new" => slots[v].down,
         change.id = "end" => ~slots[v].down, NEW u, u = Said(v, slot, change, current) \o t
  PROVE  SaidBefore(v, slot, change, current, t, u, slots, last)
<1> PICK a : a = Line("slot", v, 0)
  OBVIOUS
<1> PICK b : b = Line(change.id, v, 0)
  OBVIOUS
<1> PICK c : c = Line("place", v, change.at)
  OBVIOUS
<1> PICK A : A = IF v = current THEN <<>> ELSE <<a>>
  OBVIOUS
<1> PICK B : B = IF change.id = "none" THEN <<>> ELSE <<b>>
  OBVIOUS
<1> PICK C : C = IF change.at = slot.at THEN <<>> ELSE <<c>>
  OBVIOUS
<1> PICK p : p = C \o t
  OBVIOUS
<1> PICK q : q = B \o p
  OBVIOUS
<1>1. /\ v \in Nat /\ change.id \in {"none", "new", "end"} /\ change.at \in Places /\ change.at \in Nat
  BY DEF GeteventAssumption, Changes
<1>2. /\ a.kind = "slot" /\ a.value = v /\ a.more = 0 /\ b.kind = change.id /\ b.value = v /\ b.more = 0
      /\ c.kind = "place" /\ c.value = v /\ c.more = change.at
      /\ a.time = clock /\ b.time = clock /\ c.time = clock
  BY DEF Line
<1>3. a \in LineTypes /\ c \in LineTypes /\ (change.id # "none" => b \in LineTypes)
  BY <1>1 DEF LineTypes, Line, PanelLines, ContactLines, SlotLines
<1>4. /\ a.kind \in ContactLines /\ c.kind \in ContactLines /\ (change.id # "none" => b.kind \in ContactLines)
      /\ a.kind \notin {"new", "end"} /\ c.kind \notin {"new", "end"}
      /\ a.kind \notin {"place"} /\ (b.kind \in {"place"} => FALSE)
  BY <1>1, <1>2 DEF ContactLines, SlotLines
<1>5. True(a, slots) /\ True(c, slots) /\ (change.id # "none" => True(b, slots))
  BY <1>1, <1>2 DEF True
<1>6. t \in Seq(LineTypes) /\ A \in Seq(LineTypes) /\ B \in Seq(LineTypes) /\ C \in Seq(LineTypes)
  <2>1. t \in Seq(LineTypes)
    BY Zenon DEF Opens
  <2>2. A \in Seq(LineTypes)
    BY <1>3
  <2>3. B \in Seq(LineTypes)
    BY <1>3
  <2>4. C \in Seq(LineTypes)
    BY <1>3
  <2> QED BY <2>1, <2>2, <2>3, <2>4
<1>7. u = A \o q
  <2>1. Said(v, slot, change, current) = (A \o B) \o C
    BY DEF Said
  <2>2. FourInARow(A, B, C, t)
    BY <1>6, LinesInARow, Zenon
  <2> QED BY <2>1, <2>2, Zenon DEF FourInARow
<1> PICK notC : notC = (change.at = slot.at)
  OBVIOUS
<1> PICK notB : notB = (change.id = "none")
  OBVIOUS
<1> PICK notA : notA = (v = current)
  OBVIOUS
<1>8. MaybePrefixed(notC, c, t, p, v, slots, last)
  <2>1. notC \in BOOLEAN /\ p = (IF notC THEN <<>> ELSE <<c>>) \o t
    BY Zenon
  <2> QED BY <1>1, <1>2, <1>3, <1>4, <1>5, <2>1, LineMaybePrefixed, Zenon
<1>9. Opens(p, v, slots, last) /\ Unsaid({"new", "end"}, p, v)
  BY <1>4, <1>8, Zenon DEF MaybePrefixed
<1>10. MaybePrefixed(notB, b, p, q, v, slots, last)
  <2>1. notB \in BOOLEAN /\ q = (IF notB THEN <<>> ELSE <<b>>) \o p
    BY Zenon
  <2>2. ~notB => b \in LineTypes /\ b.kind \in ContactLines /\ b.value = v /\ True(b, slots)
    BY <1>2, <1>3, <1>4, <1>5, Zenon
  <2> QED BY <1>1, <1>9, <2>1, <2>2, LineMaybePrefixed, Zenon
<1>11. Opens(q, v, slots, last)
  BY <1>10, Zenon DEF MaybePrefixed
<1>12. MaybePrefixed(notA, a, q, u, v, slots, last)
  <2>1. notA \in BOOLEAN /\ u = (IF notA THEN <<>> ELSE <<a>>) \o q
    BY <1>7, Zenon
  <2> QED BY <1>1, <1>2, <1>3, <1>4, <1>5, <1>11, <2>1, LineMaybePrefixed, Zenon
<1>13. Opens(u, v, slots, last) /\ (v # current => u[1].kind = "slot")
  BY <1>2, <1>12, Zenon DEF MaybePrefixed
<1>14. ASSUME NEW kinds, NEW n
       PROVE  /\ Unsaid(kinds, p, n) <=> Unsaid(kinds, t, n) /\ (~notC /\ c.kind \in kinds => c.value # n)
              /\ Unsaid(kinds, q, n) <=> Unsaid(kinds, p, n) /\ (~notB /\ b.kind \in kinds => b.value # n)
              /\ Unsaid(kinds, u, n) <=> Unsaid(kinds, q, n) /\ (~notA /\ a.kind \in kinds => a.value # n)
  BY <1>8, <1>10, <1>12, Zenon DEF MaybePrefixed
<1>15. \A kinds, n : Unsaid(kinds, u, n) => Unsaid(kinds, t, n)
  BY <1>14, Zenon
<1>16. \A kinds, n : n # v /\ Unsaid(kinds, t, n) => Unsaid(kinds, u, n)
  BY <1>2, <1>14, Zenon
<1>17. Unsaid({"new", "end"}, u, v) => change.id = "none"
  <2> PICK kinds : kinds = {"new", "end"}
    OBVIOUS
  <2>1. change.id # "none" => b.kind \in kinds
    BY <1>1, <1>2
  <2>2. /\ Unsaid(kinds, u, v) <=> Unsaid(kinds, q, v) /\ (~notA /\ a.kind \in kinds => a.value # v)
        /\ Unsaid(kinds, q, v) <=> Unsaid(kinds, p, v) /\ (~notB /\ b.kind \in kinds => b.value # v)
    BY <1>14
  <2> QED BY <1>2, <2>1, <2>2, Zenon
<1>18. Unsaid({"place"}, u, v) => change.at = slot.at
  <2> PICK kinds : kinds = {"place"}
    OBVIOUS
  <2>1. c.kind \in kinds
    BY <1>2
  <2>2. /\ Unsaid(kinds, u, v) <=> Unsaid(kinds, q, v) /\ (~notA /\ a.kind \in kinds => a.value # v)
        /\ Unsaid(kinds, q, v) <=> Unsaid(kinds, p, v) /\ (~notB /\ b.kind \in kinds => b.value # v)
        /\ Unsaid(kinds, p, v) <=> Unsaid(kinds, t, v) /\ (~notC /\ c.kind \in kinds => c.value # v)
    BY <1>14
  <2> QED BY <1>2, <2>1, <2>2, Zenon
<1> QED BY <1>13, <1>15, <1>16, <1>17, <1>18, Zenon DEF SaidBefore

\* The line that closes a frame.
LEMMA SynOpens ==
  ASSUME clock \in Nat \ {0}, NEW v, NEW slots, NEW t, t = <<Line("syn", 0, 0)>>
  PROVE  Opens(t, v, slots, v) /\ Unsaid({"new", "end"}, t, v)
         /\ \A n : Unsaid({"new", "end"}, t, n) /\ Unsaid({"place"}, t, n)
<1> PICK line : line = Line("syn", 0, 0)
  OBVIOUS
<1>1. line \in LineTypes /\ line.kind = "syn"
  BY DEF Line, LineTypes, PanelLines
<1>2. t \in Seq(LineTypes) /\ Len(t) = 1 /\ t[1] = line /\ \A n \in 1..Len(t) : n = 1
  BY <1>1
<1>3. line.kind \in PanelLines /\ line.kind \notin ContactLines /\ line.kind \notin {"new", "end"}
      /\ line.kind \notin {"place"}
  BY <1>1 DEF PanelLines, ContactLines, SlotLines
<1>4. KeysFirst(t) /\ SynIsLast(t)
  <2>1. \A n \in 1..Len(t) : t[n].kind = "syn" /\ n = Len(t) /\ t[n].kind \in PanelLines
    BY <1>1, <1>2, <1>3
  <2> QED BY <2>1, Zenon DEF KeysFirst, SynIsLast
<1>5. OneSlotAfterAnother(t, v)
  <2>1. 1..(Len(t) - 1) = {}
    BY <1>2
  <2> QED BY <1>2, <1>3, <2>1 DEF OneSlotAfterAnother
<1>6. SaidOnce(t)
  BY <1>2, Zenon DEF SaidOnce
<1>7. True(line, slots)
  BY <1>1 DEF True, ContactLines, SlotLines
<1>8. Speaks(line, v) = v
  BY <1>1, Zenon DEF Speaks
<1>9. Opens(t, v, slots, v)
  <2>1. Len(t) \in Nat \ {0}
    BY <1>2
  <2> QED BY <1>2, <1>3, <1>4, <1>5, <1>6, <1>7, <1>8, <2>1, Zenon DEF Opens, FrameLines
<1>10. \A n : Unsaid({"new", "end"}, t, n) /\ Unsaid({"place"}, t, n)
  BY <1>2, <1>3, Zenon DEF Unsaid
<1> QED BY <1>9, <1>10, Zenon

\* What a frame says of the slots of the panel.
Spoken(lines, first, second, slots) ==
  /\ Opens(lines, first, slots, second) /\ (first # panel.slot => lines[1].kind = "slot")
  /\ \A n \in PanelSlots :
       /\ Unsaid({"new", "end"}, lines, n) => (slots[n].down <=> panel.slots[n].down)
       /\ Unsaid({"place"}, lines, n) => slots[n].at = panel.slots[n].at

Becomes(slot, change) == [down |-> change.id # "end", at |-> change.at]

LEMMA SaidType ==
  ASSUME GeteventAssumption, clock \in Nat \ {0}, NEW v \in PanelSlots, NEW slot, NEW change \in Changes(slot),
         NEW current
  PROVE  Said(v, slot, change, current) \in Seq(LineTypes)
<1>1. change.id \in {"none", "new", "end"} /\ change.at \in Nat
  BY DEF Changes, GeteventAssumption
<1>2. ASSUME NEW kind \in {"slot", "new", "end", "place"}, NEW more \in Nat
      PROVE  Line(kind, v, more) \in LineTypes
  BY <1>2 DEF Line, LineTypes, PanelLines, ContactLines, SlotLines
<1> PICK a : a = IF v = current THEN <<>> ELSE <<Line("slot", v, 0)>>
  OBVIOUS
<1> PICK b : b = IF change.id = "none" THEN <<>> ELSE <<Line(change.id, v, 0)>>
  OBVIOUS
<1> PICK c : c = IF change.at = slot.at THEN <<>> ELSE <<Line("place", v, change.at)>>
  OBVIOUS
<1>3. a \in Seq(LineTypes)
  BY <1>2
<1>4. b \in Seq(LineTypes)
  BY <1>1, <1>2
<1>5. c \in Seq(LineTypes)
  BY <1>1, <1>2
<1>6. Said(v, slot, change, current) = a \o b \o c
  BY DEF Said
<1> QED BY <1>3, <1>4, <1>5, <1>6, ConcatProperties

LEMMA PanelSpeaks ==
  ASSUME GeteventAssumption, GeteventTypes, NEW first \in PanelSlots, NEW second \in PanelSlots, first <= second,
         NEW change \in Changes(panel.slots[first]), NEW other \in Changes(panel.slots[second]), NEW slots,
         \A n \in PanelSlots : slots[n] = IF n = first THEN Becomes(panel.slots[n], change)
                                          ELSE IF n = second THEN Becomes(panel.slots[n], other)
                                          ELSE panel.slots[n],
         NEW lines, lines = Said(first, panel.slots[first], change, panel.slot)
                            \o (IF first = second THEN <<>> ELSE Said(second, panel.slots[second], other, first))
                            \o <<Line("syn", 0, 0)>>
  PROVE  Spoken(lines, first, second, slots)
<1> PICK t : t = <<Line("syn", 0, 0)>>
  OBVIOUS
<1> PICK one : one = panel.slots[first]
  OBVIOUS
<1> PICK two : two = panel.slots[second]
  OBVIOUS
<1> PICK last : last = panel.slot
  OBVIOUS
<1> PICK A : A = Said(first, one, change, last)
  OBVIOUS
<1>1. clock \in Nat \ {0} /\ first \in Nat /\ second \in Nat
  BY DEF GeteventTypes, GeteventAssumption
<1>2. /\ Opens(t, second, slots, second) /\ Unsaid({"new", "end"}, t, second)
      /\ \A n : Unsaid({"new", "end"}, t, n) /\ Unsaid({"place"}, t, n)
  BY <1>1, SynOpens, Zenon
<1>3. ASSUME NEW slot, NEW c \in Changes(slot)
      PROVE  /\ Becomes(slot, c).at = c.at /\ (Becomes(slot, c).down <=> c.id # "end")
             /\ c.id = "none" => slot.down
             /\ c.id \in {"none", "new", "end"} /\ c.at \in Places
  BY DEF Becomes, Changes
<1>4. /\ slots[first].at = change.at /\ (slots[first].down <=> change.id # "end")
      /\ change.id = "none" => one.down
  <2>1. slots[first] = Becomes(one, change)
    BY Zenon
  <2>2. /\ Becomes(one, change).at = change.at /\ (Becomes(one, change).down <=> change.id # "end")
        /\ change.id = "none" => one.down
    BY <1>3, Zenon
  <2> QED BY <2>1, <2>2
<1>5. A \in Seq(LineTypes)
  BY <1>1, SaidType, Zenon
<1>6. CASE first = second
  <2>1. lines = A \o t
    <3>1. A \o <<>> = A
      BY <1>5
    <3> QED BY <1>6, <3>1, Zenon
  <2>2. /\ change.id = "new" => slots[first].down
        /\ change.id = "end" => ~slots[first].down
    BY <1>4
  <2>3. SaidBefore(first, one, change, last, t, lines, slots, second)
    BY <1>1, <1>2, <1>4, <1>6, <2>1, <2>2, SlotSaid, Zenon
  <2>4. ASSUME NEW n \in PanelSlots, n # first PROVE slots[n] = panel.slots[n]
    BY <1>6, <2>4, Zenon
  <2>5. /\ Unsaid({"new", "end"}, lines, first) => (slots[first].down <=> one.down)
        /\ Unsaid({"place"}, lines, first) => slots[first].at = one.at
    <3>1. change.id = "none" => change.id # "end"
      OBVIOUS
    <3> QED BY <1>4, <2>3, <3>1, Zenon DEF SaidBefore
  <2>6. Opens(lines, first, slots, second) /\ (first # last => lines[1].kind = "slot")
    BY <2>3, Zenon DEF SaidBefore
  <2> QED BY <2>4, <2>5, <2>6, Zenon DEF Spoken
<1>7. CASE first # second
  <2> PICK B : B = Said(second, two, other, first)
    OBVIOUS
  <2> PICK u : u = B \o t
    OBVIOUS
  <2>1. /\ slots[second].at = other.at /\ (slots[second].down <=> other.id # "end")
        /\ other.id = "none" => two.down
    <3>1. slots[second] = Becomes(two, other)
      BY <1>7, Zenon
    <3>2. /\ Becomes(two, other).at = other.at /\ (Becomes(two, other).down <=> other.id # "end")
          /\ other.id = "none" => two.down
      BY <1>3, Zenon
    <3> QED BY <3>1, <3>2
  <2>2. /\ other.id = "new" => slots[second].down
        /\ other.id = "end" => ~slots[second].down
    BY <2>1
  <2>3. SaidBefore(second, two, other, first, t, u, slots, second)
    BY <1>1, <1>2, <2>1, <2>2, SlotSaid, Zenon
  <2>4. /\ Opens(u, second, slots, second) /\ u[1].kind = "slot"
        /\ Unsaid({"new", "end"}, u, first) /\ Unsaid({"place"}, u, first)
        /\ Unsaid({"new", "end"}, u, second) => other.id = "none"
        /\ Unsaid({"place"}, u, second) => other.at = two.at
    BY <1>2, <1>7, <2>3, Zenon DEF SaidBefore
  <2>5. Opens(u, first, slots, second)
    <3>1. u \in Seq(LineTypes) /\ \A n \in 1..Len(u) : u[n] \in LineTypes
      BY <2>4 DEF Opens
    <3>2. ASSUME NEW n \in 1..Len(u), u[n].kind \in ContactLines PROVE first <= u[n].value
      <4>1. second <= u[n].value /\ True(u[n], slots)
        BY <2>4, <3>2, Zenon DEF Opens, FrameLines
      <4>2. u[n].value \in Nat
        BY <3>2, <4>1 DEF True, GeteventAssumption
      <4> QED BY <1>1, <4>1, <4>2
    <3> QED BY <2>4, <3>2, Zenon DEF Opens
  <2>6. lines = A \o u
    <3>1. B \in Seq(LineTypes)
      BY <1>1, SaidType, Zenon
    <3>2. t \in Seq(LineTypes)
      BY <1>2, Zenon DEF Opens
    <3>3. InARow(A, B, t)
      BY <1>5, <3>1, <3>2, ThreeInARow, Zenon
    <3>4. lines = (A \o B) \o t
      BY <1>7, Zenon
    <3> QED BY <3>3, <3>4, Zenon DEF InARow
  <2>7. /\ change.id = "new" => slots[first].down
        /\ change.id = "end" => ~slots[first].down
    BY <1>4
  <2>8. SaidBefore(first, one, change, last, u, lines, slots, second)
    BY <1>1, <1>4, <2>4, <2>5, <2>6, <2>7, SlotSaid, Zenon
  <2>9. /\ Opens(lines, first, slots, second) /\ (first # last => lines[1].kind = "slot")
        /\ Unsaid({"new", "end"}, lines, first) => change.id = "none"
        /\ Unsaid({"place"}, lines, first) => change.at = one.at
        /\ Unsaid({"new", "end"}, lines, second) => other.id = "none"
        /\ Unsaid({"place"}, lines, second) => other.at = two.at
    BY <2>4, <2>8, Zenon DEF SaidBefore
  <2>10. ASSUME NEW n \in PanelSlots, n # first, n # second PROVE slots[n] = panel.slots[n]
    BY <2>10, Zenon
  <2>11. change.id = "none" => change.id # "end"
    OBVIOUS
  <2>12. other.id = "none" => other.id # "end"
    OBVIOUS
  <2> QED BY <1>4, <2>1, <2>9, <2>10, <2>11, <2>12, Zenon DEF Spoken
<1> QED BY <1>6, <1>7

\* What is not told again when the phone only adds lines.
LEMMA NothingIsRead ==
  ASSUME GeteventTypes, TimeInv, RowsFollowThePanel, UNCHANGED <<parser, out, waited, truth, heard, begun>>
  PROVE  /\ HeldNow' = HeldNow /\ RowsFollowThePanel'
         /\ ((Going' => Going) => TimeInv')
<1>1. parser' = parser /\ out' = out /\ waited' = waited /\ truth' = truth /\ heard' = heard /\ begun' = begun
  OBVIOUS
<1>2. HeldNow' = HeldNow
  BY <1>1, Zenon DEF HeldNow
<1>3. Known' = Known
  BY <1>1, Zenon DEF Known
<1>4. RowsFollowThePanel'
  BY <1>1, <1>3, Zenon DEF RowsFollowThePanel
<1>5. (Going' => Going) => TimeInv'
  BY <1>1, Zenon DEF TimeInv
<1> QED BY <1>2, <1>4, <1>5

LEMMA PanelFrameKeeps ==
  ASSUME GeteventAssumption, GeteventInv, NEW first \in PanelSlots, NEW second \in PanelSlots,
         PanelFrame(first, second)
  PROVE  GeteventInv'
<1>1. GeteventTypes /\ TimeInv /\ PanelInv /\ RowsFollowThePanel
  BY Zenon DEF GeteventInv
<1>2. /\ frames < MaxFrames /\ unread = <<>> /\ frames' = frames + 1
      /\ UNCHANGED <<clock, parser, out, waited, truth, heard, begun>>
  BY Zenon DEF PanelFrame
<1>3. Going
  BY <1>2, Zenon DEF Going
<1>4. \E slots, lines : /\ Spoken(lines, first, second, slots) /\ panel' = [slots |-> slots, slot |-> second]
                        /\ unread' = lines /\ slots \in [PanelSlots -> [down : BOOLEAN, at : Places]]
  <2>1. PICK change \in Changes(panel.slots[first]), other \in Changes(panel.slots[second]) :
          LET chosen == IF first = second THEN {first} ELSE {first, second}
              new    == [s \in chosen |-> IF s = first THEN change ELSE other]
          IN /\ first <= second
             /\ panel' = [slots |-> [s \in PanelSlots |->
                                       IF s \in chosen
                                       THEN [down |-> new[s].id # "end", at |-> new[s].at]
                                       ELSE panel.slots[s]],
                          slot  |-> second]
             /\ unread' = Said(first, panel.slots[first], change, panel.slot)
                           \o (IF first = second THEN <<>>
                               ELSE Said(second, panel.slots[second], other, first))
                           \o <<Line("syn", 0, 0)>>
    BY Zenon DEF PanelFrame
  <2> DEFINE chosen == IF first = second THEN {first} ELSE {first, second}
             new == [s \in chosen |-> IF s = first THEN change ELSE other]
             slots == [s \in PanelSlots |-> IF s \in chosen
                                            THEN [down |-> new[s].id # "end", at |-> new[s].at]
                                            ELSE panel.slots[s]]
             spoken == [s \in PanelSlots |-> IF s = first THEN Becomes(panel.slots[s], change)
                                             ELSE IF s = second THEN Becomes(panel.slots[s], other)
                                             ELSE panel.slots[s]]
  <2>2. \A s \in PanelSlots : slots[s] = spoken[s]
    <3> TAKE s \in PanelSlots
    <3>1. slots[s] = IF s \in chosen THEN [down |-> new[s].id # "end", at |-> new[s].at] ELSE panel.slots[s]
      BY Zenon
    <3>2. s \in chosen <=> s = first \/ s = second
      OBVIOUS
    <3>3. s \in chosen => new[s] = IF s = first THEN change ELSE other
      BY Zenon
    <3>4. s = first => spoken[s] = Becomes(panel.slots[s], change)
      BY Zenon
    <3>5. s # first /\ s = second => spoken[s] = Becomes(panel.slots[s], other)
      BY Zenon
    <3>6. s # first /\ s # second => spoken[s] = panel.slots[s]
      BY Zenon
    <3> HIDE DEF chosen, new, slots, spoken
    <3>7. CASE s = first
      BY <3>1, <3>2, <3>3, <3>4, <3>7, Zenon DEF Becomes
    <3>8. CASE s # first /\ s = second
      BY <3>1, <3>2, <3>3, <3>5, <3>8, Zenon DEF Becomes
    <3>9. CASE s # first /\ s # second
      BY <3>1, <3>2, <3>6, <3>9, Zenon
    <3> QED BY <3>7, <3>8, <3>9, Zenon
  <2>3. slots = spoken
    BY <2>2
  <2>4. spoken \in [PanelSlots -> [down : BOOLEAN, at : Places]]
    <3>1. change.at \in Places /\ other.at \in Places
      BY DEF Changes
    <3>2. \A s \in PanelSlots : /\ Becomes(panel.slots[s], change) \in [down : BOOLEAN, at : Places]
                                /\ Becomes(panel.slots[s], other) \in [down : BOOLEAN, at : Places]
                                /\ panel.slots[s] \in [down : BOOLEAN, at : Places]
      BY <1>1, <3>1 DEF GeteventTypes, Becomes
    <3> QED BY <3>2
  <2>5. panel' = [slots |-> slots, slot |-> second]
    BY <2>1, Zenon
  <2> PICK lines : lines = unread'
    OBVIOUS
  <2> PICK all : all = spoken
    OBVIOUS
  <2>6. \A s \in PanelSlots : all[s] = IF s = first THEN Becomes(panel.slots[s], change)
                                        ELSE IF s = second THEN Becomes(panel.slots[s], other)
                                        ELSE panel.slots[s]
    BY Zenon
  <2> HIDE DEF slots, spoken
  <2>7. Spoken(lines, first, second, all)
    BY <1>1, <2>1, <2>6, PanelSpeaks, Zenon
  <2> QED BY <2>3, <2>4, <2>5, <2>7, Zenon
<1> PICK slots, lines :
      /\ Spoken(lines, first, second, slots) /\ panel' = [slots |-> slots, slot |-> second]
      /\ unread' = lines /\ slots \in [PanelSlots -> [down : BOOLEAN, at : Places]]
  BY <1>4, Zenon
<1>5. panel'.slots = slots /\ panel'.slot = second /\ unread' = lines
  OBVIOUS
<1>6. /\ lines \in Seq(LineTypes) /\ Len(lines) \in Nat \ {0} /\ FrameLines(lines, slots, second)
      /\ \A n \in 1..Len(lines) : lines[n].kind \in PanelLines
      /\ lines[1].kind = "slot" \/ Speaks(lines[1], second) = first
      /\ first # panel.slot => lines[1].kind = "slot"
  BY Zenon DEF Spoken, Opens
<1>7. /\ Agrees(parser.slot, panel.slot, heard.lines)
      /\ \A n \in Tracked : /\ SlotKept(parser.slots[n], HeldValue(n)) /\ ~parser.slots[n].changed
                            /\ SlotFollows(n, parser.slots[n], panel.slots[n], <<>>, heard.lines)
  <2>1. OnlyKeys(<<>>)
    BY DEF OnlyKeys
  <2>2. /\ Selects(<<>>, parser.slot, panel.slot, heard.lines)
        /\ \A n \in Tracked : /\ SlotKept(parser.slots[n], HeldValue(n))
                              /\ SlotFollows(n, parser.slots[n], panel.slots[n], <<>>, heard.lines)
    BY <1>1, <1>2, <1>3, Zenon DEF PanelInv
  <2>3. Agrees(parser.slot, panel.slot, heard.lines)
    BY <2>1, <2>2, Zenon DEF Selects
  <2> QED BY <2>1, <2>2, <2>3, Zenon DEF SlotFollows
<1>8. \A n \in 1..Len(lines) : lines[n].kind \notin KeyLines
  BY <1>6 DEF KeyLines, PanelLines, ContactLines, SlotLines
<1>9. 1 \in 1..Len(lines) /\ \A n \in 1..Len(lines) : n # 1 => n - 1 \in 1..Len(lines)
  BY <1>6
<1>10. Selects(lines, parser.slot, second, heard.lines)
  <2>1. ~OnlyKeys(lines)
    BY <1>8, <1>9, Zenon DEF OnlyKeys
  <2>2. ASSUME NEW n \in 1..Len(lines), lines[n].kind \in PanelLines \ {"slot"}, Begins(lines, n)
        PROVE  Agrees(parser.slot, Speaks(lines[n], second), heard.lines)
    <3>1. n = 1
      BY <1>8, <1>9, <2>2, Zenon DEF Begins
    <3>2. lines[1].kind # "slot"
      BY <2>2, <3>1
    <3>3. first = panel.slot /\ Speaks(lines[1], second) = first
      BY <1>6, <3>2, Zenon
    <3> QED BY <1>7, <3>1, <3>3, Zenon
  <2> QED BY <2>1, <2>2, Zenon DEF Selects
<1>11. ASSUME NEW n \in Tracked
       PROVE  SlotFollows(n, parser.slots[n], slots[n], lines, heard.lines)
  <2>1. n \in PanelSlots /\ panel.slots[n].down \in BOOLEAN /\ slots[n].down \in BOOLEAN
    BY <1>1 DEF GeteventAssumption, GeteventTypes, Tracked
  <2>2. /\ Unsaid({"new", "end"}, lines, n) => (slots[n].down <=> panel.slots[n].down)
        /\ Unsaid({"place"}, lines, n) => slots[n].at = panel.slots[n].at
    BY <2>1, Zenon DEF Spoken
  <2>3. \A kinds : Unsaid(kinds, <<>>, n)
    BY DEF Unsaid
  <2>4. ~parser.slots[n].lifting
    BY <1>7, Zenon DEF SlotKept
  <2>5. <<n, FALSE>> \in heard.lines /\ Unsaid({"new", "end"}, lines, n) =>
          (parser.slots[n].active /\ ~parser.slots[n].lifting <=> slots[n].down)
    BY <1>7, <2>2, <2>3, Zenon DEF SlotFollows
  <2>6. <<n, TRUE>> \in heard.lines /\ Unsaid({"place"}, lines, n) => parser.slots[n].at = slots[n].at
    BY <1>7, <2>2, <2>3, Zenon DEF SlotFollows
  <2> QED BY <1>7, <2>4, <2>5, <2>6, Zenon DEF SlotFollows
<1>12. HeldNow' = HeldNow /\ RowsFollowThePanel' /\ TimeInv'
  BY <1>1, <1>2, <1>3, NothingIsRead
<1>13. PanelInv'
  <2>1. parser' = parser /\ heard' = heard
    BY <1>2
  <2>2. \A n \in Tracked : HeldValue(n)' = HeldValue(n)
    BY <1>12, Zenon DEF HeldValue
  <2> QED BY <1>5, <1>6, <1>7, <1>10, <1>11, <2>1, <2>2, Zenon DEF PanelInv
<1>14. GeteventTypes'
  <2>1. panel' \in [slots : [PanelSlots -> [down : BOOLEAN, at : Places]], slot : PanelSlots]
    OBVIOUS
  <2>2. frames' \in Nat
    BY <1>1, <1>2 DEF GeteventTypes
  <2>3. /\ parser' = parser /\ heard' = heard /\ clock' = clock /\ out' = out /\ truth' = truth
        /\ waited' = waited /\ begun' = begun
    BY <1>2
  <2> QED BY <1>1, <1>6, <2>1, <2>2, <2>3, Zenon DEF GeteventTypes
<1> QED BY <1>12, <1>13, <1>14, Zenon DEF GeteventInv

-----------------------------------------------------------------------------
(* The keyboard speaks                                                     *)

\* A line of the keyboard goes before what is unread.
KeyPrefixed(t, u, slots, last, slot, told) ==
  /\ u \in Seq(LineTypes) /\ FrameLines(u, slots, last) /\ Selects(u, slot, last, told)
  /\ \A kinds, n : Unsaid(kinds, u, n) => Unsaid(kinds, t, n)
  /\ \A n : Unsaid({"new"}, t, n) => Unsaid({"new"}, u, n)
  /\ OnlyKeys(u) => OnlyKeys(t)

LEMMA KeyLinePrefixed ==
  ASSUME NEW t \in Seq(LineTypes), NEW slots, NEW last, NEW slot, NEW told, FrameLines(t, slots, last),
         Selects(t, slot, last, told), NEW line \in LineTypes, line.kind \in KeyLines, True(line, slots),
         NEW u, u = <<line>> \o t
  PROVE  KeyPrefixed(t, u, slots, last, slot, told)
<1> PICK k : k = Len(t)
  OBVIOUS
<1>1. /\ k \in Nat /\ KeysFirst(t) /\ SynIsLast(t) /\ OneSlotAfterAnother(t, last)
      /\ SaidOnce(t) /\ \A n \in 1..k : True(t[n], slots)
  <2>1. k \in Nat
    OBVIOUS
  <2> QED BY <2>1, Zenon DEF FrameLines
<1>2. /\ u \in Seq(LineTypes) /\ Len(u) = k + 1 /\ u[1] = line
      /\ \A n \in 1..k : u[n + 1] = t[n]
  <2>1. <<line>> \in Seq(LineTypes) /\ Len(<<line>>) = 1 /\ <<line>>[1] = line
    OBVIOUS
  <2>2. u \in Seq(LineTypes) /\ Len(u) = 1 + k
    BY <1>1, <2>1, ConcatProperties
  <2> QED BY <1>1, <2>1, <2>2
<1>3. ASSUME NEW n \in 1..(k + 1), n # 1 PROVE n - 1 \in 1..k /\ (n - 1) + 1 = n /\ u[n] = t[n - 1]
  <2>1. n - 1 \in 1..k /\ (n - 1) + 1 = n
    BY <1>1, <1>3
  <2>2. u[(n - 1) + 1] = t[n - 1]
    BY <1>2, <2>1, Zenon
  <2> QED BY <2>1, <2>2
<1>4. /\ line.kind \notin PanelLines /\ line.kind # "syn" /\ line.kind \notin ContactLines
      /\ line.kind \notin {"new", "end"} /\ line.kind \notin {"new"}
  BY DEF PanelLines, KeyLines, ContactLines, SlotLines
<1>5. 1 \in 1..(k + 1) /\ \A n \in 1..k : n + 1 \in 1..(k + 1)
  BY <1>1
<1>6. KeysFirst(u)
  <2>1. ASSUME NEW m \in 1..(k + 1), NEW n \in 1..(k + 1), m <= n, u[m].kind \in PanelLines
        PROVE  u[n].kind \in PanelLines
    <3>1. m # 1
      BY <1>2, <1>4, <2>1, Zenon
    <3>2. n # 1 /\ m - 1 <= n - 1
      BY <2>1, <3>1
    <3>3. m - 1 \in 1..k /\ n - 1 \in 1..k /\ u[m] = t[m - 1] /\ u[n] = t[n - 1]
      BY <1>3, <3>1, <3>2, Zenon
    <3> QED BY <1>1, <2>1, <3>2, <3>3, Zenon DEF KeysFirst
  <2> QED BY <1>2, <2>1, Zenon DEF KeysFirst
<1>7. SynIsLast(u)
  <2>1. ASSUME NEW n \in 1..(k + 1) PROVE u[n].kind = "syn" <=> n = k + 1 /\ u[n].kind \in PanelLines
    <3>1. CASE n = 1
      BY <1>2, <1>4, <3>1, Zenon
    <3>2. CASE n # 1
      <4>1. n - 1 \in 1..k /\ u[n] = t[n - 1]
        BY <1>3, <3>2, Zenon
      <4>2. t[n - 1].kind = "syn" <=> n - 1 = k /\ t[n - 1].kind \in PanelLines
        BY <1>1, <4>1, Zenon DEF SynIsLast
      <4>3. n - 1 = k <=> n = k + 1
        BY <1>1
      <4> QED BY <4>1, <4>2, <4>3, Zenon
    <3> QED BY <3>1, <3>2
  <2> QED BY <1>2, <2>1, Zenon DEF SynIsLast
<1>8. OneSlotAfterAnother(u, last)
  <2>1. ASSUME NEW n \in 1..k, u[n].kind \in PanelLines, u[n + 1].kind # "slot"
        PROVE  Speaks(u[n + 1], last) = u[n].value
    <3>1. n # 1
      BY <1>2, <1>4, <2>1, Zenon
    <3>2. n \in 1..(k + 1) /\ n - 1 \in 1..(k - 1) /\ (n - 1) + 1 = n /\ n - 1 \in 1..k
      BY <1>1, <3>1
    <3>3. u[n] = t[n - 1] /\ u[n + 1] = t[n] /\ t[(n - 1) + 1] = t[n]
      BY <1>2, <1>3, <3>1, <3>2, Zenon
    <3>4. t[n - 1].kind \in PanelLines /\ t[(n - 1) + 1].kind # "slot"
      BY <2>1, <3>3, Zenon
    <3>5. Speaks(t[(n - 1) + 1], last) = t[n - 1].value
      BY <1>1, <3>2, <3>4, Zenon DEF OneSlotAfterAnother
    <3> QED BY <3>3, <3>5, Zenon
  <2>2. ASSUME NEW m \in 1..(k + 1), NEW n \in 1..(k + 1), m <= n, u[m].kind \in ContactLines, u[n].kind \in ContactLines
        PROVE  u[m].value <= u[n].value
    <3>1. m # 1 /\ n # 1
      BY <1>2, <1>4, <2>2, Zenon
    <3>2. m - 1 \in 1..k /\ n - 1 \in 1..k /\ u[m] = t[m - 1] /\ u[n] = t[n - 1]
      BY <1>3, <3>1, Zenon
    <3>3. m - 1 <= n - 1
      BY <2>2
    <3> QED BY <1>1, <2>2, <3>2, <3>3, Zenon DEF OneSlotAfterAnother
  <2>3. Len(u) - 1 = k
    BY <1>1, <1>2
  <2> QED BY <1>2, <2>1, <2>2, <2>3, Zenon DEF OneSlotAfterAnother
<1>9. SaidOnce(u)
  <2>1. ASSUME NEW m \in 1..(k + 1), NEW n \in 1..(k + 1),
               u[m].kind \in {"new", "end"}, u[n].kind \in {"new", "end"}, u[m].value = u[n].value
        PROVE  m = n
    <3>1. m # 1 /\ n # 1
      BY <1>2, <1>4, <2>1, Zenon
    <3>2. m - 1 \in 1..k /\ n - 1 \in 1..k /\ u[m] = t[m - 1] /\ u[n] = t[n - 1]
      BY <1>3, <3>1, Zenon
    <3>3. m - 1 = n - 1
      BY <1>1, <2>1, <3>2, Zenon DEF SaidOnce
    <3> QED BY <3>3
  <2> QED BY <1>2, <2>1, Zenon DEF SaidOnce
<1>10. \A n \in 1..(k + 1) : True(u[n], slots)
  BY <1>1, <1>2, <1>3, Zenon
<1>11. FrameLines(u, slots, last)
  BY <1>2, <1>6, <1>7, <1>8, <1>9, <1>10, Zenon DEF FrameLines
<1>12. OnlyKeys(u) => OnlyKeys(t)
  BY <1>2, <1>5, Zenon DEF OnlyKeys
<1>13. Selects(u, slot, last, told)
  <2>1. ASSUME NEW n \in 1..(k + 1), u[n].kind \in PanelLines \ {"slot"}, Begins(u, n)
        PROVE  Agrees(slot, Speaks(u[n], last), told)
    <3>1. n # 1
      BY <1>2, <1>4, <2>1
    <3>2. n - 1 \in 1..k /\ u[n] = t[n - 1]
      BY <1>3, <3>1, Zenon
    <3>3. Begins(t, n - 1)
      <4>1. CASE n - 1 = 1
        BY <4>1, Zenon DEF Begins
      <4>2. CASE n - 1 # 1
        <5>1. n - 1 \in 1..(k + 1) /\ (n - 1) - 1 \in 1..k
          BY <1>1, <3>2, <4>2
        <5>2. u[n - 1] = t[(n - 1) - 1] /\ u[n - 1].kind \in KeyLines
          BY <1>3, <2>1, <3>1, <4>2, <5>1, Zenon DEF Begins
        <5> QED BY <5>2, Zenon DEF Begins
      <4> QED BY <4>1, <4>2
    <3> QED BY <2>1, <3>2, <3>3, Zenon DEF Selects
  <2> QED BY <1>2, <1>12, <2>1, Zenon DEF Selects
<1>14. \A kinds, n : Unsaid(kinds, u, n) => Unsaid(kinds, t, n)
  BY <1>2, <1>5, Zenon DEF Unsaid
<1>15. \A n : Unsaid({"new"}, t, n) => Unsaid({"new"}, u, n)
  <2> PICK kinds : kinds = {"new"}
    OBVIOUS
  <2>1. ASSUME NEW n, Unsaid(kinds, t, n) PROVE Unsaid(kinds, u, n)
    <3>1. line.kind \notin kinds
      BY <1>4, Zenon
    <3>2. ASSUME NEW m \in 1..(k + 1), u[m].kind \in kinds PROVE u[m].value # n
      <4>1. m # 1
        BY <1>2, <3>1, <3>2, Zenon
      <4>2. m - 1 \in 1..k /\ u[m] = t[m - 1]
        BY <1>3, <4>1, Zenon
      <4> QED BY <2>1, <3>2, <4>2, Zenon DEF Unsaid
    <3> QED BY <1>2, <3>2, Zenon DEF Unsaid
  <2> QED BY <2>1, Zenon
<1> QED BY <1>2, <1>11, <1>12, <1>13, <1>14, <1>15, Zenon DEF KeyPrefixed

LEMMA OneAndOne ==
  ASSUME NEW a \in LineTypes, NEW b \in LineTypes
  PROVE  <<a>> \in Seq(LineTypes) /\ <<b>> \in Seq(LineTypes) /\ <<a>> \o <<b>> = <<a, b>>
<1>1. <<a>> \in Seq(LineTypes) /\ <<b>> \in Seq(LineTypes) /\ <<a, b>> \in Seq(LineTypes)
  OBVIOUS
<1> PICK both : both = <<a, b>>
  OBVIOUS
<1> PICK joined : joined = <<a>> \o <<b>>
  OBVIOUS
<1>2. joined \in Seq(LineTypes) /\ both \in Seq(LineTypes) /\ Len(joined) = Len(both)
      /\ \A n \in 1..Len(joined) : joined[n] = both[n]
  <2>1. Len(joined) = 2 /\ Len(both) = 2 /\ joined \in Seq(LineTypes) /\ both \in Seq(LineTypes)
    BY <1>1
  <2>2. joined[1] = a /\ both[1] = a
    BY <1>1
  <2>3. joined[2] = b /\ both[2] = b
    BY <1>1
  <2>4. \A n \in 1..Len(joined) : n = 1 \/ n = 2
    BY <2>1
  <2> QED BY <2>1, <2>2, <2>3, <2>4, Zenon
<1>3. joined = both
  BY <1>2, SeqEqual, Zenon
<1> QED BY <1>1, <1>3, Zenon

LEMMA KeyFrameKeeps ==
  ASSUME GeteventAssumption, GeteventInv, NEW key \in Keys, NEW value \in {Neutral, 1}, KeyFrame(key, value)
  PROVE  GeteventInv'
<1> PICK a : a = Line("key", key, value)
  OBVIOUS
<1> PICK b : b = Line("keysyn", 0, 0)
  OBVIOUS
<1> PICK t : t = unread
  OBVIOUS
<1> PICK p : p = <<b>> \o t
  OBVIOUS
<1> PICK u : u = unread'
  OBVIOUS
<1>1. GeteventTypes /\ TimeInv /\ PanelInv /\ RowsFollowThePanel
  BY Zenon DEF GeteventInv
<1>2. /\ frames < MaxFrames /\ frames' = frames + 1 /\ u = <<a, b>> \o t
      /\ UNCHANGED <<panel, clock, parser, out, waited, truth, heard, begun>>
  BY Zenon DEF KeyFrame
<1>3. /\ Going /\ panel' = panel /\ clock' = clock /\ parser' = parser /\ out' = out /\ waited' = waited
      /\ truth' = truth /\ heard' = heard /\ begun' = begun
  BY <1>2 DEF Going
<1>4. a \in LineTypes /\ b \in LineTypes /\ a.kind \in KeyLines /\ b.kind \in KeyLines
  <2>1. clock \in Nat \ {0} /\ value \in Nat
    BY <1>1 DEF GeteventTypes, Neutral
  <2> QED BY <2>1 DEF Line, LineTypes, KeyLines
<1>5. True(a, panel.slots) /\ True(b, panel.slots)
  BY DEF True, Line, ContactLines, SlotLines
<1>6. t \in Seq(LineTypes)
  BY <1>1, Zenon DEF GeteventTypes
<1>7. u = <<a>> \o p
  <2>1. <<a>> \in Seq(LineTypes) /\ <<b>> \in Seq(LineTypes) /\ <<a>> \o <<b>> = <<a, b>>
    BY <1>4, OneAndOne, Zenon
  <2>2. InARow(<<a>>, <<b>>, t)
    BY <1>6, <2>1, ThreeInARow
  <2> QED BY <1>2, <2>1, <2>2, Zenon DEF InARow
<1> PICK all : all = panel.slots
  OBVIOUS
<1> PICK last : last = panel.slot
  OBVIOUS
<1> PICK slot : slot = parser.slot
  OBVIOUS
<1> PICK told : told = heard.lines
  OBVIOUS
<1>8. /\ FrameLines(t, all, last) /\ Selects(t, slot, last, told)
      /\ \A n \in Tracked : /\ SlotKept(parser.slots[n], HeldValue(n))
                            /\ SlotFollows(n, parser.slots[n], panel.slots[n], t, told)
  BY <1>1, <1>3, Zenon DEF PanelInv
<1>9. KeyPrefixed(t, p, all, last, slot, told)
  BY <1>4, <1>5, <1>6, <1>8, KeyLinePrefixed, Zenon
<1>10. p \in Seq(LineTypes) /\ FrameLines(p, all, last) /\ Selects(p, slot, last, told)
  BY <1>9, Zenon DEF KeyPrefixed
<1>11. KeyPrefixed(p, u, all, last, slot, told)
  BY <1>4, <1>5, <1>7, <1>10, KeyLinePrefixed, Zenon
<1>12. /\ u \in Seq(LineTypes) /\ FrameLines(u, all, last) /\ Selects(u, slot, last, told)
       /\ \A kinds, n : Unsaid(kinds, u, n) => Unsaid(kinds, t, n)
       /\ \A n : Unsaid({"new"}, t, n) => Unsaid({"new"}, u, n)
       /\ OnlyKeys(u) => OnlyKeys(t)
  BY <1>9, <1>11, Zenon DEF KeyPrefixed
<1>13. ASSUME NEW n \in Tracked
       PROVE  SlotFollows(n, parser.slots[n], panel.slots[n], u, told)
  BY <1>8, <1>12, Zenon DEF SlotFollows
<1>14. HeldNow' = HeldNow /\ RowsFollowThePanel' /\ TimeInv'
  BY <1>1, <1>2, <1>3, NothingIsRead
<1>15. PanelInv'
  <2>1. \A n \in Tracked : HeldValue(n)' = HeldValue(n)
    BY <1>14, Zenon DEF HeldValue
  <2> QED BY <1>3, <1>8, <1>12, <1>13, <2>1, Zenon DEF PanelInv
<1>16. GeteventTypes'
  <2>1. frames' \in Nat
    BY <1>1, <1>2 DEF GeteventTypes
  <2> QED BY <1>1, <1>3, <1>12, <2>1, Zenon DEF GeteventTypes
<1> QED BY <1>14, <1>15, <1>16, Zenon DEF GeteventInv

-----------------------------------------------------------------------------
(* The other steps                                                         *)

LEMMA PhoneTickKeeps ==
  ASSUME GeteventInv, PhoneTick
  PROVE  GeteventInv'
<1>1. GeteventTypes /\ TimeInv /\ PanelInv /\ RowsFollowThePanel
  BY Zenon DEF GeteventInv
<1>2. /\ clock' = clock + 1 /\ panel' = panel /\ unread' = unread /\ parser' = parser /\ out' = out
      /\ waited' = waited /\ truth' = truth /\ heard' = heard /\ begun' = begun /\ frames' = frames
  BY DEF PhoneTick
<1>3. Going' = Going
  BY <1>2, Zenon DEF Going
<1>4. HeldNow' = HeldNow /\ RowsFollowThePanel' /\ TimeInv'
  BY <1>1, <1>2, <1>3, NothingIsRead
<1>5. PanelInv'
  <2>1. \A n \in Tracked : HeldValue(n)' = HeldValue(n)
    BY <1>4, Zenon DEF HeldValue
  <2> QED BY <1>1, <1>2, <1>3, <2>1, Zenon DEF PanelInv
<1>6. GeteventTypes'
  <2>1. clock' \in Nat \ {0}
    BY <1>1, <1>2 DEF GeteventTypes
  <2> QED BY <1>1, <1>2, <2>1, Zenon DEF GeteventTypes
<1> QED BY <1>4, <1>5, <1>6, Zenon DEF GeteventInv

LEMMA FinishKeeps ==
  ASSUME GeteventAssumption, GeteventInv, FinishParser
  PROVE  GeteventInv'
<1>1. GeteventTypes /\ TimeInv /\ PanelInv /\ RowsFollowThePanel
  BY Zenon DEF GeteventInv
<1>2. /\ out' = HeldNow /\ parser' = [parser EXCEPT !.pending = <<>>, !.frame = <<>>]
      /\ frames' = MaxFrames /\ unread' = <<>> /\ panel' = panel /\ clock' = clock /\ waited' = waited
      /\ truth' = truth /\ heard' = heard /\ begun' = begun
  BY DEF FinishParser, HeldNow
<1>3. ~Going'
  <2>1. ~(MaxFrames < MaxFrames)
    BY DEF GeteventAssumption
  <2> QED BY <1>2, <2>1, Zenon DEF Going
<1>4. /\ parser' \in ParserTypes /\ parser'.pending = <<>> /\ parser'.frame = <<>>
      /\ parser'.since = parser.since
  <2>1. parser \in ParserTypes
    BY <1>1, Zenon DEF GeteventTypes
  <2>2. <<>> \in Seq(Rows)
    OBVIOUS
  <2> QED BY <1>2, <2>1, <2>2 DEF ParserTypes
<1>5. HeldNow \in States /\ OneEach(HeldNow)
  BY <1>1, HeldType, Zenon
<1>6. HeldNow' = HeldNow
  <2>1. <<>> \o <<>> = <<>>
    OBVIOUS
  <2>2. HeldNow' = Played(HeldNow, <<>>)
    BY <1>2, <1>4, <2>1, Zenon DEF HeldNow
  <2> QED BY <1>5, <2>2, PlayedNone, Zenon
<1>7. GeteventTypes'
  <2>1. <<>> \in Seq(LineTypes) /\ MaxFrames \in Nat
    BY DEF GeteventAssumption
  <2> QED BY <1>1, <1>2, <1>4, <1>5, <2>1, Zenon DEF GeteventTypes
<1>8. TimeInv'
  BY <1>1, <1>2, <1>3, <1>4, Zenon DEF TimeInv
<1>9. RowsFollowThePanel'
  <2>1. Known' = Known
    BY <1>2, Zenon DEF Known
  <2>2. \A c \in Known \union Keys : ValueOf(HeldNow, c) = ValueOf(truth, c)
    BY <1>1, Zenon DEF RowsFollowThePanel, HeldNow
  <2>3. \A c \in Known' \union Keys : ValueOf(HeldNow', c) = ValueOf(truth', c)
    BY <1>2, <1>6, <2>1, <2>2, Zenon
  <2>4. begun' + waited' = parser'.since
    BY <1>8, Zenon DEF TimeInv
  <2> QED BY <2>3, <2>4 DEF RowsFollowThePanel, HeldNow
<1> QED BY <1>3, <1>7, <1>8, <1>9, Zenon DEF GeteventInv, PanelInv

LEMMA GeteventStutters ==
  ASSUME GeteventInv, UNCHANGED geteventVars
  PROVE  GeteventInv'
<1>1. GeteventTypes /\ TimeInv /\ PanelInv /\ RowsFollowThePanel
  BY Zenon DEF GeteventInv
<1>2. /\ clock' = clock /\ panel' = panel /\ unread' = unread /\ parser' = parser /\ out' = out
      /\ waited' = waited /\ truth' = truth /\ heard' = heard /\ begun' = begun /\ frames' = frames
  BY DEF geteventVars
<1>3. Going' = Going
  BY <1>2, Zenon DEF Going
<1>4. HeldNow' = HeldNow /\ RowsFollowThePanel' /\ TimeInv'
  BY <1>1, <1>2, <1>3, NothingIsRead
<1>5. PanelInv'
  <2>1. \A n \in Tracked : HeldValue(n)' = HeldValue(n)
    BY <1>4, Zenon DEF HeldValue
  <2> QED BY <1>1, <1>2, <1>3, <2>1, Zenon DEF PanelInv
<1> QED BY <1>1, <1>2, <1>4, <1>5, Zenon DEF GeteventInv, GeteventTypes

LEMMA GeteventStarts ==
  ASSUME GeteventAssumption, GeteventInit
  PROVE  GeteventInv
<1>1. /\ panel \in [slots : [PanelSlots -> [down : BOOLEAN, at : Places]], slot : PanelSlots]
      /\ unread = <<>> /\ clock = 1 /\ parser = NewParser
      /\ out = {} /\ waited = 0 /\ truth = {} /\ begun = 0
      /\ heard = [lines |-> {}, frame |-> {}] /\ frames = 0
  BY Zenon DEF GeteventInit, AllNeutral
<1>2. /\ parser.slot = 0 /\ parser.slots = [s \in Tracked |-> Resting] /\ parser.frame = <<>>
      /\ parser.pending = <<>> /\ parser.since = 0
  BY <1>1 DEF NewParser
<1>3. GeteventTypes
  <2>1. Resting \in SlotTypes
    BY DEF Resting, SlotTypes
  <2>2. parser \in ParserTypes
    BY <1>1, <2>1 DEF NewParser, ParserTypes, GeteventAssumption
  <2>3. {} \in States /\ OneEach({})
    BY DEF States, OneEach
  <2> QED BY <1>1, <2>2, <2>3 DEF GeteventTypes
<1>4. HeldNow = {}
  <2>1. {} \in States /\ OneEach({}) /\ <<>> \o <<>> = <<>>
    BY DEF States, OneEach
  <2> QED BY <1>1, <1>2, <2>1, PlayedNone, Zenon DEF HeldNow
<1>5. TimeInv
  BY <1>1, <1>2 DEF TimeInv
<1>6. RowsFollowThePanel
  <2>1. begun + waited = parser.since
    BY <1>5, Zenon DEF TimeInv
  <2> QED BY <1>1, <1>4, <2>1, Zenon DEF RowsFollowThePanel, HeldNow
<1>7. PanelInv
  <2>1. FrameLines(<<>>, panel.slots, panel.slot)
    BY DEF FrameLines, KeysFirst, SynIsLast, OneSlotAfterAnother, SaidOnce
  <2>2. Selects(<<>>, 0, panel.slot, {})
    <3>1. panel.slot \in Nat /\ max_slots \in Nat
      BY <1>1 DEF GeteventAssumption
    <3>2. Agrees(0, panel.slot, {})
      <4>1. CASE panel.slot = 0
        <5> PICK v : v = panel.slot
          OBVIOUS
        <5>1. Min({v, max_slots}) = IF v <= max_slots THEN v ELSE max_slots
          BY <3>1, LesserOfTwo, Zenon
        <5>2. Min({v, max_slots}) = 0
          BY <3>1, <4>1, <5>1
        <5> QED BY <5>2, Zenon DEF Agrees
      <4>2. CASE panel.slot # 0
        BY <4>2, Zenon DEF Agrees
      <4> QED BY <4>1, <4>2
    <3> QED BY <3>2 DEF Selects
  <2>3. ASSUME NEW n \in Tracked
        PROVE  /\ SlotKept(parser.slots[n], HeldValue(n))
               /\ SlotFollows(n, parser.slots[n], panel.slots[n], <<>>, {})
    <3>1. parser.slots[n] = Resting
      BY <1>2
    <3>2. HeldValue(n) = Neutral
      BY <1>4, Zenon DEF HeldValue, ValueOf, Holds
    <3> QED BY <3>1, <3>2 DEF Resting, SlotKept, SlotFollows
  <2>4. heard.lines = {}
    BY <1>1
  <2> QED BY <1>1, <1>2, <2>1, <2>2, <2>3, <2>4, Zenon DEF PanelInv
<1> QED BY <1>3, <1>5, <1>6, <1>7, Zenon DEF GeteventInv

\* The made the parser makes hold what the phone's panel held, finger by finger and
\* key by key, and their waits are the time that passed, whatever slots the panel
\* has and uses and however the frames of two devices interleave: GeteventParser.
THEOREM RowsTellThePanel == GeteventSpec => []RowsFollowThePanel
<1>1. GeteventInit => GeteventInv
  BY GeteventAssumption, GeteventStarts, Zenon
<1>2. GeteventInv /\ [GeteventNext]_geteventVars => GeteventInv'
  <2> SUFFICES ASSUME GeteventInv, [GeteventNext]_geteventVars PROVE GeteventInv'
    OBVIOUS
  <2>1. ASSUME NEW first \in PanelSlots, NEW second \in PanelSlots, PanelFrame(first, second) PROVE GeteventInv'
    BY <2>1, GeteventAssumption, PanelFrameKeeps, Zenon
  <2>2. ASSUME NEW key \in Keys, NEW value \in {Neutral, 1}, KeyFrame(key, value) PROVE GeteventInv'
    BY <2>2, GeteventAssumption, KeyFrameKeeps
  <2>3. CASE PhoneTick
    BY <2>3, PhoneTickKeeps, Zenon
  <2>4. CASE FeedLine
    BY <2>4, GeteventAssumption, FeedLineKeeps, Zenon
  <2>5. CASE FinishParser
    BY <2>5, GeteventAssumption, FinishKeeps, Zenon
  <2>6. CASE UNCHANGED geteventVars
    BY <2>6, GeteventStutters, Zenon
  <2> QED BY <2>1, <2>2, <2>3, <2>4, <2>5, <2>6, Zenon DEF GeteventNext
<1>3. GeteventInv => RowsFollowThePanel
  BY Zenon DEF GeteventInv
<1> QED BY <1>1, <1>2, <1>3, PTL DEF GeteventSpec
================================================================================
