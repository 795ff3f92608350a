---------------------------- MODULE DevicesProofs ----------------------------
(***************************************************************************)
(* For any number of devices, profiles and controls, and any setups, rows,  *)
(* input, requests and failures: a retry after a flush is always enough;    *)
(* what a device holds is in the record of the player or of Live; devices   *)
(* of one setup hold and report the same; batteries are told; and Nodes     *)
(* stay while a script plays.                                               *)
(***************************************************************************)
EXTENDS Devices, SequenceFacts, TLAPS

-----------------------------------------------------------------------------
(* What is true of a group between two calls                               *)

Groups ==
  [active : SUBSET Devices, setup : [Devices -> Setups],
   state : SUBSET (Devices \X Payloads), reported : SUBSET (Devices \X Payloads),
   dirty : SUBSET Profiles, sent : SUBSET (Devices \X Nat), told : SUBSET (Devices \X Nat),
   missed : SUBSET (Devices \X Controls)]

Level(g, d, c) == g.setup[d].levels[ProfileOf[c]]

\* A control of a device has one value.
OneEach(pairs) == \A x, y \in pairs : x[1] = y[1] /\ x[2].control = y[2].control => x = y

\* What is held is on a Node of an active device whose Spec declares it.
Placed(g) ==
  /\ OneEach(g.state) /\ OneEach(g.reported)
  /\ \A x \in g.state \union g.reported : Has(g, x[1], ProfileOf[x[2].control])
  /\ \A x \in g.state : Declares(Level(g, x[1], x[2].control), x[2].control)

\* What no flush is due for is reported.
Clean(g) ==
  \A x \in g.state \union g.reported :
    ProfileOf[x[2].control] \notin g.dirty => x \in g.state /\ x \in g.reported

Sound(g) == g \in Groups /\ Placed(g) /\ Clean(g) /\ g.sent = g.told

\* Devices with the same level of a profile hold the same of it, unless one of
\* them missed an edge.
Alike(g) ==
  \A d, e \in g.active, c \in Controls :
    Level(g, d, c) = Level(g, e, c) /\ <<d, c>> \notin g.missed /\ <<e, c>> \notin g.missed =>
      \A x \in g.state : x[1] = d /\ x[2].control = c => <<e, x[2]>> \in g.state

\* What is held is one of the controls, or a device missed its release.
Covered(g, cs) == \A x \in g.state : x[2].control \in cs \/ <<x[1], x[2].control>> \in g.missed

\* From g to h no device came, none was set up anew, and those that are left
\* were told the same levels.
Later(g, h) ==
  /\ h.active \subseteq g.active /\ h.setup = g.setup
  /\ \A d \in h.active : Of(h.told, d) = Of(g.told, d)

LEMMA LaterThan ==
  ASSUME NEW g, NEW h, NEW k, Later(g, h), Later(h, k) PROVE Later(g, k)
  BY Zenon DEF Later

LEMMA NotYetLater == ASSUME NEW g PROVE Later(g, g)
  BY DEF Later

-----------------------------------------------------------------------------
(* Devices are dropped                                                     *)

\* h is g without some of its devices.
Dropped(g, h) ==
  /\ h.active \subseteq g.active /\ h.setup = g.setup /\ h.dirty = g.dirty
  /\ h.state = {x \in g.state : x[1] \in h.active}
  /\ h.reported = {x \in g.reported : x[1] \in h.active}
  /\ \A d \in h.active, c \in Controls : <<d, c>> \in h.missed <=> <<d, c>> \in g.missed

LEMMA FailDrops ==
  ASSUME NEW g, Sound(g), NEW lost
  PROVE  /\ Sound(Fail(g, lost)) /\ Later(g, Fail(g, lost)) /\ Dropped(g, Fail(g, lost))
         /\ Fail(g, lost).active = g.active \ lost
<1> DEFINE gone == lost \intersect g.active
           h == Fail(g, lost)
<1>1. g \in Groups
  BY DEF Sound
<1>2. \A x \in g.state \union g.reported : x[1] \in g.active
  BY DEF Sound, Placed, Has
<1>3. CASE gone = {}
  <2>1. h = g
    BY <1>3 DEF Fail
  <2>2. g.active = g.active \ lost
    BY <1>3
  <2>3. Dropped(g, g)
    BY <1>2 DEF Dropped
  <2> QED BY <2>1, <2>2, <2>3, NotYetLater
<1>4. CASE gone # {}
  <2>1. h = Close(g, gone)
    BY <1>4 DEF Fail
  <2> HIDE DEF h
  <2>2. /\ h.active = g.active \ gone /\ h.setup = g.setup /\ h.dirty = g.dirty
        /\ h.state = Without(g.state, gone) /\ h.reported = Without(g.reported, gone)
        /\ h.sent = Without(g.sent, gone) /\ h.told = Without(g.told, gone)
        /\ h.missed = Without(g.missed, gone)
        /\ h = [active |-> h.active, setup |-> h.setup, state |-> h.state,
                reported |-> h.reported, dirty |-> h.dirty, sent |-> h.sent, told |-> h.told,
                missed |-> h.missed]
    <3> HIDE DEF gone
    <3> QED BY <1>1, <2>1 DEF Close, Groups
  <2>3. h \in Groups
    BY <1>1, <2>2 DEF Groups, Without
  <2>4. h.active = g.active \ lost
    BY <2>2
  <2>5. /\ h.state = {x \in g.state : x[1] \in h.active}
        /\ h.reported = {x \in g.reported : x[1] \in h.active}
    BY <1>2, <2>2 DEF Without
  <2>6. \A d \in h.active, c \in Controls : <<d, c>> \in h.missed <=> <<d, c>> \in g.missed
    BY <2>2 DEF Without
  <2>7. \A d \in h.active : Of(h.told, d) = Of(g.told, d)
    BY <2>2 DEF Without, Of
  <2>8. Placed(h)
    BY <2>2, <2>5 DEF Sound, Placed, OneEach, Has, Level
  <2>9. Clean(h)
    BY <2>2, <2>5 DEF Sound, Clean
  <2>10. h.sent = h.told
    BY <2>2 DEF Sound
  <2>11. h.active \subseteq g.active
    BY <2>4
  <2> HIDE DEF gone
  <2>12. Sound(h)
    BY <2>3, <2>8, <2>9, <2>10, Zenon DEF Sound
  <2>13. Later(g, h)
    BY <2>2, <2>7, <2>11, Zenon DEF Later
  <2>14. Dropped(g, h)
    BY <2>2, <2>5, <2>6, <2>11, Zenon DEF Dropped
  <2> QED BY <2>4, <2>12, <2>13, <2>14, Zenon DEF h
<1> QED BY <1>3, <1>4

LEMMA DroppedKeeps ==
  ASSUME NEW g, NEW h, Dropped(g, h)
  PROVE  /\ Alike(g) => Alike(h)
         /\ Sound(g) => \A cs : Covered(g, cs) => Covered(h, cs)
<1>1. ASSUME Alike(g) PROVE Alike(h)
  BY <1>1 DEF Alike, Dropped, Level
<1>2. ASSUME Sound(g), NEW cs, Covered(g, cs) PROVE Covered(h, cs)
  <2>1. \A x \in g.state : x[2].control \in Controls
    BY <1>2 DEF Sound, Groups, Payloads
  <2> QED BY <1>2, <2>1 DEF Covered, Dropped
<1> QED BY <1>1, <1>2

-----------------------------------------------------------------------------
(* flush()                                                                 *)

\* What an operation leaves of what the devices hold.
Keeps(g, h) ==
  /\ Sound(h) /\ Later(g, h) /\ (Alike(g) => Alike(h))
  /\ \A cs : Covered(g, cs) => Covered(h, cs)

LEMMA KeepsOn ==
  ASSUME NEW g, NEW h, NEW k, Keeps(g, h), Keeps(h, k) PROVE Keeps(g, k)
<1>1. Later(g, k)
  BY LaterThan, Zenon DEF Keeps
<1> QED BY <1>1, Zenon DEF Keeps

LEMMA KeepsItself == ASSUME NEW g, Sound(g) PROVE Keeps(g, g)
  BY NotYetLater, Zenon DEF Keeps

LEMMA FailKeeps == ASSUME NEW g, Sound(g), NEW lost PROVE Keeps(g, Fail(g, lost))
  BY FailDrops, DroppedKeeps, Zenon DEF Keeps

\* What is held was told, on every device that is left.
LEMMA FlushKeeps ==
  ASSUME NEW g, Sound(g), NEW bad
  PROVE  /\ Keeps(g, Flush(g, bad)) /\ Flush(g, bad).dirty = {}
         /\ bad = {} => Flush(g, bad).active = g.active
<1> DEFINE reached == {d \in g.active : \E p \in g.dirty : Has(g, d, p)}
           k == [g EXCEPT !.reported = Told(g, reached), !.dirty = {}]
<1>1. CASE g.dirty = {}
  <2>1. Flush(g, bad) = g
    BY <1>1 DEF Flush
  <2> QED BY <1>1, <2>1, KeepsItself
<1>2. CASE g.dirty # {}
  <2>1. Flush(g, bad) = Fail(k, bad \intersect reached)
    BY <1>2 DEF Flush
  <2>2. g \in Groups
    BY DEF Sound
  <2>3. Told(g, reached) = g.state
    <3>1. \A x \in g.state \union g.reported :
            /\ x[1] \in g.active /\ Has(g, x[1], ProfileOf[x[2].control])
            /\ ProfileOf[x[2].control] \notin g.dirty => x \in g.state /\ x \in g.reported
      BY DEF Sound, Placed, Clean, Has
    <3>2. \A x \in g.state \union g.reported :
            ProfileOf[x[2].control] \in g.dirty => x[1] \in reached
      BY <3>1
    <3> HIDE DEF reached
    <3> QED BY <3>1, <3>2 DEF Told
  <2> HIDE DEF reached
  <2>4. /\ k.active = g.active /\ k.setup = g.setup /\ k.state = g.state /\ k.reported = g.state
        /\ k.dirty = {} /\ k.sent = g.sent /\ k.told = g.told /\ k.missed = g.missed
        /\ k \in Groups
    BY <2>2, <2>3 DEF Groups
  <2> HIDE DEF k
  <2>5. Sound(k)
    <3>1. Placed(k)
      BY <2>4 DEF Sound, Placed, Has, Level
    <3>2. Clean(k)
      BY <2>4, Zenon DEF Clean
    <3> QED BY <2>4, <3>1, <3>2 DEF Sound
  <2>6. Later(g, k)
    BY <2>4 DEF Later
  <2>7. Alike(g) => Alike(k)
    BY <2>4 DEF Alike, Level
  <2>8. \A cs : Covered(g, cs) => Covered(k, cs)
    BY <2>4, Zenon DEF Covered
  <2>9. Keeps(g, k)
    BY <2>5, <2>6, <2>7, <2>8, Zenon DEF Keeps
  <2>10. Keeps(k, Fail(k, bad \intersect reached))
    BY <2>5, FailKeeps, Zenon
  <2>11. Keeps(g, Fail(k, bad \intersect reached))
    BY <2>9, <2>10, KeepsOn, Zenon
  <2>12. Dropped(k, Fail(k, bad \intersect reached))
    BY <2>5, FailDrops, Zenon
  <2>13. Fail(k, bad \intersect reached).dirty = {}
    BY <2>4, <2>12 DEF Dropped
  <2>14. bad = {} => Fail(k, bad \intersect reached).active = g.active
    BY <2>4 DEF Fail
  <2> QED BY <2>1, <2>11, <2>13, <2>14, Zenon
<1> QED BY <1>1, <1>2

-----------------------------------------------------------------------------
(* broadcast()                                                             *)

LEMMA Valued ==
  ASSUME NEW pairs, OneEach(pairs), NEW x \in pairs
  PROVE  Holds(Of(pairs, x[1]), x[2].control)
<1>1. x[2] \in Of(pairs, x[1])
  BY DEF Of
<1> QED BY <1>1 DEF Holds

\* What libaoahid answers, of a device that holds what it reported and of others.
LEMMA Answered ==
  ASSUME NEW g, Sound(g), NEW payload \in Payloads, NEW d
  PROVE  LET c == payload.control
             says == Mutate(g, d, payload)
         IN  /\ says \in {"OK", "PARAM", "BUSY", "OVERFLOW"}
             /\ says = "PARAM" <=> ~Declares(Level(g, d, c), c)
             /\ says = "OVERFLOW" => \A x \in g.state : x[1] = d => x[2].control # c
             /\ g.dirty = {} => says # "BUSY"
<1> DEFINE c == payload.control
           says == Mutate(g, d, payload)
           now == Of(g.state, d)
           full == Cardinality({p \in now : ProfileOf[p.control] = "touch"})
                     >= g.setup[d].levels[ProfileOf[c]]
           same == payload.value = ValueOf(now, c)
           late == ValueOf(now, c) # ValueOf(Of(g.reported, d), c)
           room == Declares(Level(g, d, c), c)
           over == ProfileOf[c] = "touch" /\ ~Holds(now, c) /\ full
<1>1. ~room => says = "PARAM"
  BY DEF Mutate, Level
<1>4. room => says = IF same THEN "OK" ELSE IF late THEN "BUSY" ELSE IF over THEN "OVERFLOW" ELSE "OK"
  BY DEF Mutate, Level
<1>2. g.dirty = {} => ~late
  <2>1. g.dirty = {} => \A x : x \in g.state <=> x \in g.reported
    BY DEF Sound, Clean
  <2>2. g.dirty = {} => Of(g.state, d) = Of(g.reported, d)
    BY <2>1 DEF Of
  <2> QED BY <2>2
<1>3. over => \A x \in g.state : x[1] = d => x[2].control # c
  BY Valued DEF Sound, Placed
<1> HIDE DEF says, same, late, room, over
<1>5. /\ says \in {"OK", "PARAM", "BUSY", "OVERFLOW"} /\ (room => says # "PARAM")
      /\ (says = "OVERFLOW" => over) /\ (says = "BUSY" => late)
  BY <1>1, <1>4
<1> QED BY <1>1, <1>2, <1>3, <1>5, Zenon DEF says, room

\* What is left after a row was taken by some devices and missed by others.
LEMMA TakenTyped ==
  ASSUME NEW g, Sound(g), NEW payload \in Payloads, NEW takers, NEW behind,
         takers \subseteq g.active, behind \subseteq Devices
  PROVE  LET c == payload.control
             h == Taken(g, takers, behind, payload)
         IN  /\ h \in Groups /\ h.active = g.active /\ h.setup = g.setup
             /\ h.reported = g.reported /\ h.sent = g.sent /\ h.told = g.told
             /\ \A x : x \in h.state <=>
                  \/ x \in g.state /\ (x[1] \notin takers \/ x[2].control # c)
                  \/ x[2] = payload /\ payload.value # Neutral /\ \E d \in takers : x = <<d, payload>>
             /\ h.dirty = IF takers = {} THEN g.dirty ELSE g.dirty \union {ProfileOf[c]}
             /\ \A d, cc : <<d, cc>> \in h.missed <=>
                  IF cc = c THEN d \in behind \/ (<<d, cc>> \in g.missed /\ d \notin takers)
                  ELSE <<d, cc>> \in g.missed
<1> DEFINE c == payload.control
           h == Taken(g, takers, behind, payload)
           held == takers \X Apply({}, payload)
           state == {x \in g.state : x[1] \notin takers \/ x[2].control # c} \union held
           dirty == IF takers = {} THEN g.dirty ELSE g.dirty \union {ProfileOf[c]}
           missed == (g.missed \ (takers \X {c})) \union (behind \X {c})
<1>1. /\ g \in Groups /\ c \in Controls /\ payload = [control |-> c, value |-> payload.value]
      /\ ProfileOf[c] \in Profiles
  BY GroupAssumption DEF Sound, Payloads
<1>2. h = [g EXCEPT !.state = state, !.dirty = dirty, !.missed = missed]
  BY DEF Taken
<1>3. Apply({}, payload) = IF payload.value # Neutral THEN {payload} ELSE {}
  BY <1>1 DEF Apply, Others
<1>4. state \subseteq Devices \X Payloads
  BY <1>1, <1>3 DEF Groups
<1>5. dirty \subseteq Profiles /\ missed \subseteq Devices \X Controls
  BY <1>1 DEF Groups
<1>6. \A x : x \in state <=>
        \/ x \in g.state /\ (x[1] \notin takers \/ x[2].control # c)
        \/ x[2] = payload /\ payload.value # Neutral /\ \E d \in takers : x = <<d, payload>>
  <2>1. \A x : x \in held <=>
          x[2] = payload /\ payload.value # Neutral /\ \E d \in takers : x = <<d, payload>>
    BY <1>3
  <2> HIDE DEF held
  <2> QED BY <2>1
<1>7. \A d, cc : <<d, cc>> \in missed <=>
        IF cc = c THEN d \in behind \/ (<<d, cc>> \in g.missed /\ d \notin takers)
        ELSE <<d, cc>> \in g.missed
  OBVIOUS
<1> HIDE DEF state, dirty, missed, h
<1>8. /\ h \in Groups /\ h.active = g.active /\ h.setup = g.setup
      /\ h.reported = g.reported /\ h.sent = g.sent /\ h.told = g.told
      /\ h.state = state /\ h.dirty = dirty /\ h.missed = missed
  BY <1>1, <1>2, <1>4, <1>5 DEF Groups
<1> QED BY <1>6, <1>7, <1>8, Zenon DEF h, dirty

\* What a sent payload leaves: its control is covered only when it was taken and
\* presses.
Serves(g, sent, payload) ==
  LET c == payload.control
  IN /\ Sound(sent.group) /\ Later(g, sent.group) /\ (Alike(g) => Alike(sent.group))
     /\ \A cs : Covered(g, cs) =>
          Covered(sent.group, (cs \ {c}) \union
                              {cc \in {c} : payload.value # Neutral /\ sent.result = "OK"})

\* The devices of a walk that ends: who took the row has room for it, and of the
\* others who hold the control, or are like one who took it, all miss an edge.
Walk(g, payload, takers, behind) ==
  LET c == payload.control
  IN /\ \A d \in takers : Has(g, d, ProfileOf[c]) /\ Declares(Level(g, d, c), c)
     /\ \A d \in takers : d \notin behind
     /\ \A d \in takers, e \in g.active :
          e \notin takers /\ e \notin behind => Level(g, d, c) # Level(g, e, c)
     /\ \A x \in g.state : x[2].control = c /\ x[1] \notin takers => x[1] \in behind

LEMMA TakenServes ==
  ASSUME NEW g, Sound(g), NEW payload \in Payloads, NEW takers, NEW behind, NEW result,
         takers \subseteq g.active, behind \subseteq Devices, Walk(g, payload, takers, behind),
         takers # {} => result = "OK"
  PROVE  Serves(g, [group |-> Taken(g, takers, behind, payload), result |-> result], payload)
<1> DEFINE c == payload.control
           h == Taken(g, takers, behind, payload)
<1>1. /\ h \in Groups /\ h.active = g.active /\ h.setup = g.setup
      /\ h.reported = g.reported /\ h.sent = g.sent /\ h.told = g.told
      /\ \A x : x \in h.state <=>
           \/ x \in g.state /\ (x[1] \notin takers \/ x[2].control # c)
           \/ x[2] = payload /\ payload.value # Neutral /\ \E d \in takers : x = <<d, payload>>
      /\ h.dirty = IF takers = {} THEN g.dirty ELSE g.dirty \union {ProfileOf[c]}
      /\ \A d, cc : <<d, cc>> \in h.missed <=>
           IF cc = c THEN d \in behind \/ (<<d, cc>> \in g.missed /\ d \notin takers)
           ELSE <<d, cc>> \in g.missed
  BY TakenTyped
<1> HIDE DEF h
<1>2. ASSUME NEW x \in h.state
      PROVE  \/ x \in g.state /\ (x[1] \notin takers \/ x[2].control # c)
             \/ x[1] \in takers /\ x[2] = payload /\ x = <<x[1], payload>> /\ payload.value # Neutral
  BY <1>1
<1>3. Placed(h)
  <2>1. OneEach(h.state)
    <3> SUFFICES ASSUME NEW x \in h.state, NEW y \in h.state,
                        x[1] = y[1], x[2].control = y[2].control
                 PROVE  x = y
      BY DEF OneEach
    <3>1. OneEach(g.state)
      BY DEF Sound, Placed
    <3> QED BY <1>2, <3>1, Zenon DEF OneEach
  <2>2. OneEach(h.reported)
    BY <1>1 DEF Sound, Placed
  <2>3. \A x \in h.state \union h.reported : Has(h, x[1], ProfileOf[x[2].control])
    <3>1. \A x \in h.reported : Has(h, x[1], ProfileOf[x[2].control])
      BY <1>1 DEF Sound, Placed, Has
    <3>2. \A x \in h.state : Has(g, x[1], ProfileOf[x[2].control])
      BY <1>2, Zenon DEF Sound, Placed, Walk
    <3>3. \A x \in h.state : Has(h, x[1], ProfileOf[x[2].control])
      BY <1>1, <3>2, Zenon DEF Has
    <3> QED BY <3>1, <3>3
  <2>4. \A x \in h.state : Declares(Level(h, x[1], x[2].control), x[2].control)
    <3>1. \A x \in h.state : Declares(Level(g, x[1], x[2].control), x[2].control)
      BY <1>2, Zenon DEF Sound, Placed, Walk
    <3> QED BY <1>1, <3>1, Zenon DEF Level
  <2> QED BY <2>1, <2>2, <2>3, <2>4, Zenon DEF Placed
<1>4. Clean(h)
  <2> SUFFICES ASSUME NEW x \in h.state \union h.reported, ProfileOf[x[2].control] \notin h.dirty
               PROVE  x \in h.state /\ x \in h.reported
    BY DEF Clean
  <2>1. ProfileOf[x[2].control] \notin g.dirty
    BY <1>1
  <2>2. \A y \in g.state \union g.reported :
          ProfileOf[y[2].control] \notin g.dirty => y \in g.state /\ y \in g.reported
    BY Zenon DEF Sound, Clean
  <2>3. CASE takers = {}
    BY <1>1, <1>2, <2>1, <2>2, <2>3
  <2>4. CASE takers # {}
    <3>1. x[2].control # c
      BY <1>1, <2>4
    <3>2. x \in g.state \/ x \in g.reported
      BY <1>1, <1>2, <3>1
    <3> QED BY <1>1, <2>1, <2>2, <3>1, <3>2
  <2> QED BY <2>3, <2>4
<1>5. Sound(h)
  BY <1>1, <1>3, <1>4 DEF Sound
<1>6. Later(g, h)
  BY <1>1 DEF Later
<1>7. ASSUME Alike(g) PROVE Alike(h)
  <2> SUFFICES ASSUME NEW d \in h.active, NEW e \in h.active, NEW cc \in Controls,
                      Level(h, d, cc) = Level(h, e, cc),
                      <<d, cc>> \notin h.missed, <<e, cc>> \notin h.missed,
                      NEW x \in h.state, x[1] = d, x[2].control = cc
               PROVE  <<e, x[2]>> \in h.state
    BY Zenon DEF Alike
  <2>1. d \in g.active /\ e \in g.active /\ Level(g, d, cc) = Level(g, e, cc)
    BY <1>1 DEF Level
  <2>2. CASE cc # c
    <3>1. <<d, cc>> \notin g.missed /\ <<e, cc>> \notin g.missed
      BY <1>1, <2>2, Zenon
    <3>2. x \in g.state
      BY <1>2, <2>2, Zenon
    <3>3. <<e, x[2]>> \in g.state
      BY <1>7, <2>1, <3>1, <3>2, Zenon DEF Alike
    <3>4. <<e, x[2]>>[2].control # c
      BY <2>2
    <3> QED BY <1>1, <3>3, <3>4, Zenon
  <2>3. CASE cc = c
    <3>1. d \notin behind /\ e \notin behind
      BY <1>1, <2>3, Zenon
    <3>2. d \in takers
      <4> SUFFICES ASSUME d \notin takers PROVE FALSE
        OBVIOUS
      <4>1. x \in g.state
        BY <1>2, Zenon
      <4> QED BY <2>3, <3>1, <4>1, Zenon DEF Walk
    <3>3. e \in takers
      BY <2>1, <2>3, <3>1, <3>2, Zenon DEF Walk
    <3>4. x[2] = payload /\ payload.value # Neutral
      BY <1>2, <2>3, <3>2, Zenon
    <3>5. <<e, payload>>[2] = payload
      OBVIOUS
    <3> QED BY <1>1, <3>3, <3>4, <3>5, Zenon
  <2> QED BY <2>2, <2>3
<1>8. ASSUME NEW cs, Covered(g, cs)
      PROVE  Covered(h, (cs \ {c}) \union {cc \in {c} : payload.value # Neutral /\ result = "OK"})
  <2> SUFFICES ASSUME NEW x \in h.state
               PROVE  \/ x[2].control \in cs /\ x[2].control # c
                      \/ x[2].control = c /\ payload.value # Neutral /\ result = "OK"
                      \/ <<x[1], x[2].control>> \in h.missed
    BY DEF Covered
  <2>1. CASE x[2].control # c
    <3>1. x \in g.state
      BY <1>2, <2>1, Zenon
    <3> QED BY <1>1, <1>8, <2>1, <3>1, Zenon DEF Covered
  <2>2. CASE x[2].control = c /\ x[1] \in takers
    BY <1>2, <2>2
  <2>3. CASE x[2].control = c /\ x[1] \notin takers
    <3>1. x \in g.state
      BY <1>2, <2>3, Zenon
    <3>2. x[1] \in behind
      BY <2>3, <3>1, Zenon DEF Walk
    <3> QED BY <1>1, <2>3, <3>2, Zenon
  <2> QED BY <2>1, <2>2, <2>3, Zenon
<1> DEFINE sent == [group |-> h, result |-> result]
<1>9. sent.group = h /\ sent.result = result
  OBVIOUS
<1> HIDE DEF sent
<1>10. Serves(g, sent, payload)
  BY <1>5, <1>6, <1>7, <1>8, <1>9 DEF Serves
<1> QED BY <1>10 DEF sent, h

\* A walk over the devices: either it ended at a BUSY before any device took the
\* row, or the row went to all it could go to.  Nobody is BUSY after a flush.
LEMMA BroadcastServes ==
  ASSUME NEW g, Sound(g), NEW payload \in Payloads, NEW bad
  PROVE  LET sent == Broadcast(g, payload, bad)
         IN  /\ sent.result = "BUSY" => Keeps(g, sent.group)
             /\ sent.result # "BUSY" => Serves(g, sent, payload)
             /\ g.dirty = {} => sent.result # "BUSY"
<1> DEFINE c == payload.control
           sent == Broadcast(g, payload, bad)
           present == {d \in g.active : Has(g, d, ProfileOf[c])}
           answer == [d \in present |-> IF d \in bad THEN "LOST" ELSE Mutate(g, d, payload)]
           ok == {d \in present : answer[d] \in {"OK"}}
           busy == {d \in present : answer[d] \in {"BUSY"}}
           gone == {d \in present : answer[d] \in {"LOST"}}
           first == {b \in busy : \A d \in ok : b < d}
           lost == {d \in gone : \A b \in first : d < b}
           over == {d \in present : answer[d] \in {"BUSY", "OVERFLOW"}}
           behind == IF ok = {} THEN {} ELSE over
           left == Fail(g, lost)
<1>1. DOMAIN answer = present
  OBVIOUS
<1>2. sent = Visited(g, payload, answer)
  BY DEF Broadcast
<1>3. \A d \in present : answer[d] = IF d \in bad THEN "LOST" ELSE Mutate(g, d, payload)
  OBVIOUS
<1>4. \A d \in present :
        /\ answer[d] \in {"OK", "PARAM", "BUSY", "OVERFLOW", "LOST"}
        /\ (answer[d] = "PARAM" => ~Declares(Level(g, d, c), c))
        /\ (answer[d] = "OK" => Declares(Level(g, d, c), c))
        /\ (answer[d] = "OVERFLOW" => \A x \in g.state : x[1] = d => x[2].control # c)
        /\ (g.dirty = {} => answer[d] # "BUSY")
  <2> SUFFICES ASSUME NEW d \in present
               PROVE  /\ answer[d] \in {"OK", "PARAM", "BUSY", "OVERFLOW", "LOST"}
                      /\ (answer[d] = "PARAM" => ~Declares(Level(g, d, c), c))
                      /\ (answer[d] = "OK" => Declares(Level(g, d, c), c))
                      /\ (answer[d] = "OVERFLOW" => \A x \in g.state : x[1] = d => x[2].control # c)
                      /\ (g.dirty = {} => answer[d] # "BUSY")
    OBVIOUS
  <2> HIDE DEF answer
  <2>1. CASE d \in bad
    <3>1. answer[d] = "LOST"
      BY <1>3, <2>1
    <3> QED BY <3>1
  <2>2. CASE d \notin bad
    <3>1. answer[d] = Mutate(g, d, payload)
      BY <1>3, <2>2
    <3>2. LET says == Mutate(g, d, payload)
          IN  /\ says \in {"OK", "PARAM", "BUSY", "OVERFLOW"}
              /\ says = "PARAM" <=> ~Declares(Level(g, d, c), c)
              /\ says = "OVERFLOW" => \A x \in g.state : x[1] = d => x[2].control # c
              /\ g.dirty = {} => says # "BUSY"
      BY Answered
    <3> DEFINE says == Mutate(g, d, payload)
    <3>3. says = answer[d]
      BY <3>1
    <3> HIDE DEF says
    <3>4. /\ says \in {"OK", "PARAM", "BUSY", "OVERFLOW"}
          /\ (says = "PARAM" <=> ~Declares(Level(g, d, c), c))
          /\ (says = "OVERFLOW" => \A x \in g.state : x[1] = d => x[2].control # c)
          /\ (g.dirty = {} => says # "BUSY")
      BY <3>2, Zenon DEF says
    <3> QED BY <3>3, <3>4
  <2> QED BY <2>1, <2>2
<1>5. first # {} => sent = [group |-> left, result |-> "BUSY"]
  BY <1>1, <1>2 DEF Visited
<1>6. first = {} =>
        \E result : /\ sent = [group |-> Taken(left, ok, behind, payload), result |-> result]
                    /\ result # "BUSY" /\ (ok # {} => result = "OK")
  <2> DEFINE result == IF ok # {} THEN "OK"
                       ELSE IF answer = <<>> THEN "UNSUPPORTED"
                       ELSE IF {d \in DOMAIN answer : answer[d] \in {"PARAM", "OVERFLOW"}} # {}
                            THEN "PARAM" ELSE "OK"
  <2>1. first = {} => sent = [group |-> Taken(left, ok, behind, payload), result |-> result]
    BY <1>1, <1>2 DEF Visited
  <2>2. result # "BUSY" /\ (ok # {} => result = "OK")
    OBVIOUS
  <2> HIDE DEF result
  <2> QED BY <2>1, <2>2, Zenon
<1>7. /\ Keeps(g, left) /\ Dropped(g, left) /\ left.active = g.active \ lost
  BY FailKeeps, FailDrops
<1>8. \A d \in present : d \in g.active /\ Has(g, d, ProfileOf[c])
  OBVIOUS
<1> HIDE DEF answer, left
<1>9. CASE first # {}
  <2>1. sent.group = left /\ sent.result = "BUSY"
    BY <1>5, <1>9
  <2>2. g.dirty # {}
    BY <1>4, <1>9
  <2> HIDE DEF sent
  <2>3. sent.result = "BUSY" /\ Keeps(g, sent.group) /\ g.dirty # {}
    BY <1>7, <2>1, <2>2, Zenon
  <2> QED BY <2>3, Zenon DEF sent
<1>10. CASE first = {}
  <2>1. PICK result : /\ sent = [group |-> Taken(left, ok, behind, payload), result |-> result]
                      /\ result # "BUSY" /\ (ok # {} => result = "OK")
    BY <1>6, <1>10
  <2>2. lost = gone /\ (ok = {} => busy = {})
    BY <1>10
  <2>3. ok \subseteq left.active
    BY <1>7, <2>2
  <2>4. g.active \subseteq Devices
    BY DEF Sound, Groups
  <2>5. behind \subseteq Devices
    BY <2>4
  <2>6. /\ left.active \subseteq g.active /\ left.setup = g.setup
        /\ \A x \in left.state : x \in g.state /\ x[1] \in left.active
    BY <1>7 DEF Dropped
  <2>7. \A d : Has(left, d, ProfileOf[c]) <=> d \in left.active /\ Has(g, d, ProfileOf[c])
    BY <2>6, Zenon DEF Has
  <2>8. \A d : Level(left, d, c) = Level(g, d, c)
    BY <2>6 DEF Level
  <2>9. Walk(left, payload, ok, behind)
    <3>1. ASSUME NEW d \in ok PROVE Has(left, d, ProfileOf[c]) /\ Declares(Level(left, d, c), c)
      BY <1>4, <2>3, <2>7, <2>8
    <3>2. ASSUME NEW d \in ok PROVE d \notin behind
      <4>1. answer[d] = "OK"
        OBVIOUS
      <4> QED BY <4>1
    <3>3. ASSUME NEW d \in ok, NEW e \in left.active, e \notin ok, e \notin behind,
                 Level(left, d, c) = Level(left, e, c)
          PROVE  FALSE
      <4>1. e \in present
        BY <2>6, <2>8, <3>3 DEF Has, Level
      <4>2. e \notin gone
        BY <1>7, <2>2
      <4>3. answer[e] = "PARAM"
        BY <1>4, <3>3, <4>1, <4>2
      <4>4. answer[d] = "OK" /\ d \in present
        OBVIOUS
      <4>5. ~Declares(Level(g, e, c), c) /\ Declares(Level(g, d, c), c)
        BY <1>4, <4>1, <4>3, <4>4, Zenon
      <4> QED BY <2>8, <3>3, <4>5, Zenon
    <3>4. ASSUME NEW x \in left.state, x[2].control = c, x[1] \notin ok
          PROVE  x[1] \in behind
      <4>1. /\ x \in g.state /\ x[1] \in left.active
            /\ Has(g, x[1], ProfileOf[c]) /\ Declares(Level(g, x[1], c), c)
        BY <2>6, <3>4 DEF Sound, Placed
      <4>2. x[1] \in present /\ x[1] \notin gone
        BY <1>7, <2>2, <4>1 DEF Has
      <4>3. answer[x[1]] = "BUSY"
        BY <1>4, <3>4, <4>1, <4>2
      <4>4. ok # {}
        BY <2>2, <4>2, <4>3
      <4> QED BY <4>2, <4>3, <4>4
    <3> QED BY <3>1, <3>2, <3>3, <3>4, Zenon DEF Walk
  <2> HIDE DEF ok, behind, sent
  <2>10. Serves(left, sent, payload)
    <3>1. Sound(left)
      BY <1>7, Zenon DEF Keeps
    <3> QED BY <2>1, <2>3, <2>5, <2>9, <3>1, TakenServes
  <2>11. Serves(g, sent, payload)
    <3>1. Later(g, sent.group)
      BY <1>7, <2>10, LaterThan, Zenon DEF Keeps, Serves
    <3> QED BY <1>7, <2>10, <3>1, Zenon DEF Keeps, Serves
  <2>12. sent.result # "BUSY"
    BY <2>1
  <2> QED BY <2>11, <2>12, Zenon DEF sent
<1> QED BY <1>9, <1>10

\* One flush and one retry: a payload that was sent went out, or could go to no
\* device that is left.
LEMMA SendServes ==
  ASSUME NEW g, Sound(g), NEW payload \in Payloads, NEW bad
  PROVE  Send(g, payload, bad).result # "BUSY" /\ Serves(g, Send(g, payload, bad), payload)
<1> DEFINE once == Broadcast(g, payload, bad)
           flushed == Flush(once.group, bad)
           again == Broadcast(flushed, payload, bad)
<1>1. Send(g, payload, bad) = IF once.result = "BUSY" THEN again ELSE once
  BY DEF Send, Retry
<1>2. /\ once.result = "BUSY" => Keeps(g, once.group)
      /\ once.result # "BUSY" => Serves(g, once, payload)
  BY BroadcastServes, Zenon
<1>3. CASE once.result = "BUSY"
  <2>1. Keeps(g, once.group) /\ Sound(once.group)
    BY <1>2, <1>3, Zenon DEF Keeps
  <2>2. Keeps(once.group, flushed) /\ flushed.dirty = {}
    BY <2>1, FlushKeeps, Zenon
  <2>3. Keeps(g, flushed) /\ Sound(flushed)
    <3> HIDE DEF flushed, once
    <3>1. Keeps(g, flushed)
      BY <2>1, <2>2, KeepsOn, Zenon
    <3> QED BY <2>2, <3>1, Zenon DEF Keeps
  <2> HIDE DEF flushed
  <2>4. again.result # "BUSY" /\ Serves(flushed, again, payload)
    BY <2>2, <2>3, BroadcastServes, Zenon
  <2> HIDE DEF again
  <2>5. Later(g, again.group)
    BY <2>3, <2>4, LaterThan, Zenon DEF Keeps, Serves
  <2>6. Serves(g, again, payload)
    BY <2>3, <2>4, <2>5, Zenon DEF Keeps, Serves
  <2> QED BY <1>1, <1>3, <2>4, <2>6, Zenon
<1>4. CASE once.result # "BUSY"
  <2> HIDE DEF once, again
  <2> QED BY <1>1, <1>2, <1>4, Zenon
<1> QED BY <1>3, <1>4

-----------------------------------------------------------------------------
(* What a sender presses                                                   *)

Ctl(state) == {p.control : p \in state}

\* A group, and the record of a sender.
Helds == [group : {g \in Groups : Sound(g)}, record : States]

LEMMA Applied ==
  ASSUME NEW state \in States, NEW payload \in Payloads
  PROVE  /\ Apply(state, payload) \in States
         /\ Ctl(Apply(state, payload)) = (Ctl(state) \ {payload.control}) \union
                                         {c \in {payload.control} : payload.value # Neutral}
<1> DEFINE c == payload.control
           others == {p \in state : p.control # c}
           own == {p \in {payload} : payload.value # Neutral}
<1>1. payload.control \in Controls /\ payload = [control |-> c, value |-> payload.value]
      /\ payload.value \in Nat
  BY DEF Payloads
<1>2. Apply(state, payload) = others \union own
  BY <1>1 DEF Apply, Others
<1>3. others \union own \in States
  BY <1>1 DEF States, Neutral
<1>4. Ctl(others \union own) = (Ctl(state) \ {c}) \union {cc \in {c} : payload.value # Neutral}
  BY DEF Ctl
<1> QED BY <1>2, <1>3, <1>4

\* From one group and record to a later one: what the record covered with cs is
\* still covered.
Carries(held, after) ==
  /\ Later(held.group, after.group) /\ (Alike(held.group) => Alike(after.group))
  /\ \A cs : Covered(held.group, Ctl(held.record) \union cs) =>
             Covered(after.group, Ctl(after.record) \union cs)

\* Released controls are not covered any more.
LetGo(held, after, controls) ==
  \A cs : Covered(held.group, cs) => Covered(after.group, cs \ controls)

LEMMA CarriesOn ==
  ASSUME NEW a, NEW b, NEW c, Carries(a, b), Carries(b, c) PROVE Carries(a, c)
<1>1. Later(a.group, c.group)
  BY LaterThan, Zenon DEF Carries
<1> QED BY <1>1, Zenon DEF Carries

LEMMA CoveredMore ==
  ASSUME NEW g, NEW cs, NEW more, Covered(g, cs), cs \subseteq more PROVE Covered(g, more)
  BY DEF Covered

LEMMA NextCarries ==
  ASSUME NEW held \in Helds, NEW payload \in Payloads, NEW bad
  PROVE  LET after == SendNext(held, payload, bad)
         IN  /\ after \in Helds /\ Carries(held, after)
             /\ payload.value = Neutral => LetGo(held, after, {payload.control})
<1> DEFINE c == payload.control
           sent == Send(held.group, payload, bad)
           after == SendNext(held, payload, bad)
<1>1. held.group \in Groups /\ Sound(held.group) /\ held.record \in States
  BY DEF Helds
<1>2. sent.result # "BUSY" /\ Serves(held.group, sent, payload)
  BY <1>1, SendServes, Zenon
<1>3. after = [group |-> sent.group,
               record |-> IF sent.result = "OK" THEN Apply(held.record, payload) ELSE held.record]
  BY DEF SendNext, Recorded
<1> HIDE DEF sent, after
<1>4. after.group = sent.group /\ after.record \in States /\ after \in Helds
  <2>1. sent.group \in Groups /\ Sound(sent.group)
    BY <1>2, Zenon DEF Serves, Sound
  <2>2. Apply(held.record, payload) \in States
    BY <1>1, Applied, Zenon
  <2> HIDE DEF Helds
  <2>3. after.group = sent.group /\ after.record \in States
    BY <1>1, <1>3, <2>2
  <2>4. after = [group |-> after.group, record |-> after.record]
    BY <1>3
  <2> QED BY <2>1, <2>3, <2>4 DEF Helds
<1>5. IF sent.result = "OK"
      THEN Ctl(after.record) = (Ctl(held.record) \ {c}) \union {cc \in {c} : payload.value # Neutral}
      ELSE after.record = held.record
  <2>1. Ctl(Apply(held.record, payload)) = (Ctl(held.record) \ {c}) \union
                                           {cc \in {c} : payload.value # Neutral}
    BY <1>1, Applied, Zenon
  <2>2. after.record = IF sent.result = "OK" THEN Apply(held.record, payload) ELSE held.record
    BY <1>3
  <2> QED BY <2>1, <2>2, Zenon
<1>6. ASSUME NEW cs, Covered(held.group, Ctl(held.record) \union cs)
      PROVE  Covered(after.group, Ctl(after.record) \union cs)
  <2> DEFINE had == Ctl(held.record)
             has == Ctl(after.record)
             rest == ((had \union cs) \ {c}) \union
                     {cc \in {c} : payload.value # Neutral /\ sent.result = "OK"}
  <2>1. Covered(after.group, rest)
    BY <1>2, <1>4, <1>6, Zenon DEF Serves
  <2>2. rest \subseteq has \union cs
    <3>1. IF sent.result = "OK"
          THEN has = (had \ {c}) \union {cc \in {c} : payload.value # Neutral}
          ELSE has = had
      BY <1>5, Zenon
    <3> HIDE DEF had, has
    <3> QED BY <3>1
  <2> HIDE DEF rest
  <2> QED BY <2>1, <2>2, CoveredMore, Zenon
<1>7. ASSUME payload.value = Neutral PROVE LetGo(held, after, {c})
  <2> SUFFICES ASSUME NEW cs, Covered(held.group, cs) PROVE Covered(after.group, cs \ {c})
    BY DEF LetGo
  <2> DEFINE rest == (cs \ {c}) \union {cc \in {c} : payload.value # Neutral /\ sent.result = "OK"}
  <2>1. Covered(after.group, rest)
    BY <1>2, <1>4, Zenon DEF Serves
  <2>2. rest \subseteq cs \ {c}
    BY <1>7
  <2> HIDE DEF rest
  <2> QED BY <2>1, <2>2, CoveredMore, Zenon
<1>8. Carries(held, after)
  BY <1>2, <1>4, <1>6, Zenon DEF Carries, Serves
<1> QED BY <1>4, <1>7, <1>8, Zenon DEF after

\* Payloads of different controls are as few as the controls.
LEMMA FewPayloads ==
  ASSUME NEW payloads, payloads \subseteq Payloads,
         \A p, q \in payloads : p.control = q.control => p = q
  PROVE  IsFiniteSet(payloads)
<1> DEFINE f == [p \in payloads |-> p.control]
<1>1. f \in Injection(payloads, Controls)
  BY DEF Injection, IsInjective, Payloads
<1> QED BY <1>1, FS_Injection, GroupAssumption, Zenon

\* What SendAll() leaves, payload by payload.
InTurn(w, L, held, order, bad) ==
  w[0] = held /\ \A n \in 1..L : w[n] = SendNext(w[n - 1], order[n], bad)

OrderOf(order, L, payloads) == L \in Nat /\ order = SetToSeq(payloads) /\ L = Len(order)

Ends(w, L, held, payloads, bad) == SendAll(held, payloads, bad) = w[L]

LEMMA SendAllIs ==
  ASSUME NEW held, NEW payloads, NEW bad, NEW w, NEW L, NEW order,
         OrderOf(order, L, payloads), InTurn(w, L, held, order, bad)
  PROVE  Ends(w, L, held, payloads, bad)
<1>0. L \in Nat
  BY Zenon DEF OrderOf
<1> DEFINE Reads(f) == f = [n \in 0..L |-> IF n = 0 THEN held
                                          ELSE SendNext(f[n - 1], order[n], bad)]
           f == [n \in 0..L |-> w[n]]
           r == CHOOSE g : Reads(g)
<1>1. /\ L \in Nat /\ order = SetToSeq(payloads) /\ L = Len(order)
      /\ w[0] = held /\ \A n \in 1..L : w[n] = SendNext(w[n - 1], order[n], bad)
  BY Zenon DEF InTurn, OrderOf
<1>2. Reads(f)
  <2>1. ASSUME NEW n \in 0..L
        PROVE  f[n] = IF n = 0 THEN held ELSE SendNext(f[n - 1], order[n], bad)
    <3>1. f[n] = w[n]
      OBVIOUS
    <3>2. CASE n # 0
      <4>1. n \in 1..L /\ n - 1 \in 0..L
        BY <1>1, <3>2
      <4>2. f[n - 1] = w[n - 1]
        BY <4>1
      <4>3. w[n] = SendNext(w[n - 1], order[n], bad)
        BY <1>1, <4>1, Zenon
      <4> HIDE DEF f
      <4> QED BY <3>1, <3>2, <4>2, <4>3, Zenon
    <3> HIDE DEF f
    <3> QED BY <1>1, <3>1, <3>2, Zenon
  <2> QED BY <2>1, Zenon
<1>3. Reads(r)
  <2> HIDE DEF f, Reads
  <2> QED BY <1>2, Zenon
<1>4. SendAll(held, payloads, bad) = r[L]
  BY <1>1 DEF SendAll
<1> HIDE DEF r, f
<1>5. \A n \in 0..L : r[n] = IF n = 0 THEN held ELSE SendNext(r[n - 1], order[n], bad)
  BY <1>3, Zenon
<1>6. r[0] = w[0]
  <2>1. 0 \in 0..L
    BY <1>1
  <2> QED BY <1>1, <1>5, <2>1, Zenon
<1>7. \A n \in 1..L : r[n - 1] = w[n - 1] => r[n] = w[n]
  <2> TAKE n \in 1..L
  <2>1. n \in 0..L /\ n # 0
    BY <1>1
  <2> QED BY <1>1, <1>5, <2>1, Zenon
<1>8. \A n \in 0..L : r[n] = w[n]
  <2>1. StepAlike(r, w, L)
    BY <1>6, <1>7, Zenon DEF StepAlike
  <2> QED BY <1>0, <2>1, StepsAgree, Zenon
<1>9. L \in 0..L
  BY <1>1
<1> QED BY <1>4, <1>8, <1>9, Zenon DEF Ends

LEMMA SendAllSteps ==
  ASSUME NEW held \in Helds, NEW payloads, payloads \subseteq Payloads, NEW bad,
         NEW L, NEW order, OrderOf(order, L, payloads), \A n \in 1..L : order[n] \in payloads
  PROVE  \E w \in [0..L -> Helds] :
           InTurn(w, L, held, order, bad) /\ Ends(w, L, held, payloads, bad)
<1> DEFINE step == [n \in 1..L |-> [h \in Helds |-> SendNext(h, order[n], bad)]]
<1>0. L \in Nat /\ \A n \in 1..L : order[n] \in Payloads
  BY Zenon DEF OrderOf
<1>1. step \in [1..L -> [Helds -> Helds]]
  <2>1. ASSUME NEW n \in 1..L, NEW h \in Helds PROVE SendNext(h, order[n], bad) \in Helds
    <3>1. order[n] \in Payloads
      BY <1>0
    <3> QED BY <3>1, NextCarries, Zenon
  <2> QED BY <2>1, Zenon
<1>2. PICK w \in [0..L -> Helds] : w[0] = held /\ \A n \in 1..L : w[n] = step[n][w[n - 1]]
  <2> HIDE DEF step
  <2>1. \E w \in [0..L -> Helds] : Follows(w, L, held, step)
    BY <1>0, <1>1, StepsExist, Zenon
  <2> QED BY <2>1, Zenon DEF Follows
<1>3. \A n \in 1..L : w[n] = SendNext(w[n - 1], order[n], bad)
  <2> TAKE n \in 1..L
  <2>1. n - 1 \in 0..L
    BY <1>0
  <2>2. w[n - 1] \in Helds
    BY <1>2, <2>1, Zenon
  <2>3. step[n][w[n - 1]] = SendNext(w[n - 1], order[n], bad)
    BY <2>2, Zenon
  <2> QED BY <1>2, <2>3, Zenon
<1>4. InTurn(w, L, held, order, bad)
  BY <1>2, <1>3, Zenon DEF InTurn
<1>5. Ends(w, L, held, payloads, bad)
  BY <1>4, SendAllIs, Zenon
<1> QED BY <1>4, <1>5, Zenon

\* What is sent in one go is recorded payload by payload, and what is released in
\* one go is released.
LEMMA AllCarries ==
  ASSUME NEW held \in Helds, NEW payloads, payloads \subseteq Payloads, IsFiniteSet(payloads), NEW bad
  PROVE  LET after == SendAll(held, payloads, bad)
         IN  /\ after \in Helds /\ Carries(held, after)
             /\ (\A p \in payloads : p.value = Neutral) => LetGo(held, after, Ctl(payloads))
<1> DEFINE order == SetToSeq(payloads)
           L == Len(order)
           releases == \A p \in payloads : p.value = Neutral
           so_far(n) == {order[i].control : i \in 1..n}
<1>1. /\ L \in Nat /\ \A n \in 1..L : order[n] \in payloads
      /\ \A p \in payloads : \E n \in 1..L : order[n] = p
  <2>1. order \in Seq(payloads) /\ \A p \in payloads : \E n \in 1..L : order[n] = p
    BY InSomeOrder, Zenon
  <2> HIDE DEF order
  <2> QED BY <2>1
<1>2. PICK w \in [0..L -> Helds] :
        /\ w[0] = held /\ \A n \in 1..L : w[n] = SendNext(w[n - 1], order[n], bad)
        /\ SendAll(held, payloads, bad) = w[L]
  <2>1. OrderOf(order, L, payloads)
    BY <1>1, Zenon DEF OrderOf
  <2> HIDE DEF order, L
  <2>2. \E w \in [0..L -> Helds] :
          InTurn(w, L, held, order, bad) /\ Ends(w, L, held, payloads, bad)
    BY <1>1, <2>1, SendAllSteps, Zenon
  <2> QED BY <2>2, Zenon DEF InTurn, Ends
<1> HIDE DEF order, L
<1> DEFINE T == {n \in 0..L : Carries(held, w[n]) /\ (releases => LetGo(held, w[n], so_far(n)))}
<1>3. 0 \in T
  <2>1. 0 \in 0..L /\ so_far(0) = {}
    BY <1>1
  <2>2. Carries(held, held)
    BY NotYetLater, Zenon DEF Carries
  <2>3. LetGo(held, held, so_far(0))
    <3>1. \A cs : cs \ so_far(0) = cs
      BY <2>1
    <3> QED BY <3>1, Zenon DEF LetGo
  <2> QED BY <1>2, <2>1, <2>2, <2>3, Zenon
<1>4. ASSUME NEW n \in 1..L, n - 1 \in T PROVE n \in T
  <2>1. n \in 0..L /\ n - 1 \in 0..L /\ order[n] \in Payloads /\ order[n] \in payloads
    BY <1>1
  <2>2. w[n - 1] \in Helds /\ w[n] = SendNext(w[n - 1], order[n], bad)
    BY <1>2, <2>1, Zenon
  <2>3. /\ Carries(w[n - 1], w[n])
        /\ order[n].value = Neutral => LetGo(w[n - 1], w[n], {order[n].control})
    BY <2>1, <2>2, NextCarries, Zenon
  <2>4. Carries(held, w[n])
    BY <1>4, <2>3, CarriesOn, Zenon
  <2>5. ASSUME releases PROVE LetGo(held, w[n], so_far(n))
    <3>1. LetGo(held, w[n - 1], so_far(n - 1)) /\ LetGo(w[n - 1], w[n], {order[n].control})
      BY <1>4, <2>1, <2>3, <2>5, Zenon
    <3>2. so_far(n) = so_far(n - 1) \union {order[n].control}
      <4>1. \A i : i \in 1..n <=> i \in 1..(n - 1) \/ i = n
        BY <1>1
      <4> QED BY <4>1, Zenon
    <3> HIDE DEF so_far
    <3>3. \A cs : cs \ so_far(n) = (cs \ so_far(n - 1)) \ {order[n].control}
      BY <3>2
    <3> QED BY <3>1, <3>3, Zenon DEF LetGo
  <2> QED BY <2>1, <2>4, <2>5, Zenon
<1>5. L \in T
  <2> HIDE DEF T
  <2>1. 0..L \subseteq T
    BY <1>1, <1>3, <1>4, StepByStep, Zenon
  <2>2. L \in 0..L
    BY <1>1
  <2> QED BY <2>1, <2>2, Zenon
<1>6. so_far(L) = Ctl(payloads)
  BY <1>1, Zenon DEF Ctl
<1>7. w[L] \in Helds
  <2>1. L \in 0..L
    BY <1>1
  <2> QED BY <1>2, <2>1, Zenon
<1> QED BY <1>2, <1>5, <1>6, <1>7, Zenon

-----------------------------------------------------------------------------
(* settle() and release_live()                                             *)

LEMMA ReleasesAre ==
  ASSUME NEW from \in States, NEW to
  PROVE  /\ Releases(from, to) \subseteq Payloads /\ IsFiniteSet(Releases(from, to))
         /\ \A p \in Releases(from, to) : p.value = Neutral
         /\ Ctl(Releases(from, AllNeutral)) = Ctl(from)
<1>1. Releases(from, to) \subseteq Payloads
  BY DEF Releases, States, Payloads, Set, Neutral
<1>2. \A p, q \in Releases(from, to) : p.control = q.control => p = q
  BY DEF Releases, Set
<1>3. \A p \in Releases(from, to) : p.value = Neutral
  BY DEF Releases, Set
<1>4. Ctl(Releases(from, AllNeutral)) = Ctl(from)
  <2>1. \A c : ~Holds(AllNeutral, c)
    BY DEF Holds, AllNeutral
  <2>2. Releases(from, AllNeutral) = {Set(p.control, Neutral) : p \in from}
    BY <2>1 DEF Releases
  <2>3. \A p : Set(p.control, Neutral).control = p.control
    BY DEF Set
  <2> QED BY <2>2, <2>3 DEF Ctl
<1> QED BY <1>1, <1>2, <1>3, <1>4, FewPayloads

LEMMA PressesAre ==
  ASSUME NEW from, NEW to \in States
  PROVE  Presses(from, to) \subseteq Payloads /\ IsFiniteSet(Presses(from, to))
<1>1. Presses(from, to) \subseteq Payloads
  BY DEF Presses, States, Payloads
<1>2. \A p, q \in Presses(from, to) : p.control = q.control => p = q
  BY DEF Presses, States
<1> QED BY <1>1, <1>2, FewPayloads

LEMMA CarriesItself == ASSUME NEW held PROVE Carries(held, held)
  BY NotYetLater, Zenon DEF Carries

LEMMA FlushCarries ==
  ASSUME NEW held \in Helds, NEW bad
  PROVE  LET after == FlushHeld(held, bad)
         IN  /\ after \in Helds /\ Carries(held, after) /\ after.record = held.record
             /\ \A cs : Covered(held.group, cs) => Covered(after.group, cs)
<1> DEFINE after == FlushHeld(held, bad)
           f == Flush(held.group, bad)
<1>1. /\ Sound(held.group) /\ held.record \in States
      /\ held = [group |-> held.group, record |-> held.record]
  BY DEF Helds
<1>2. Keeps(held.group, f) /\ Sound(f) /\ f \in Groups
  BY <1>1, FlushKeeps, Zenon DEF Keeps, Sound
<1>3. after = [group |-> f, record |-> held.record]
  BY <1>1 DEF FlushHeld
<1> HIDE DEF after, f
<1>4. after.group = f /\ after.record = held.record
  BY <1>3
<1>5. after \in Helds
  BY <1>1, <1>2, <1>3, Zenon DEF Helds
<1>6. Carries(held, after)
  BY <1>2, <1>4, Zenon DEF Carries, Keeps
<1>7. \A cs : Covered(held.group, cs) => Covered(after.group, cs)
  BY <1>2, <1>4, Zenon DEF Keeps
<1> QED BY <1>4, <1>5, <1>6, <1>7, Zenon DEF after

\* What everything is let go of leaves covered without the record.
Emptied(held, after) ==
  \A cs : Covered(held.group, Ctl(held.record) \union cs) => Covered(after.group, cs)

LEMMA SettledCarries ==
  ASSUME NEW held \in Helds, NEW to \in States
  PROVE  LET after == Settled(held, to)
         IN  /\ after \in Helds /\ Carries(held, after)
             /\ to = AllNeutral => Emptied(held, after)
<1> DEFINE after == Settled(held, to)
           a == FlushHeld(held, {})
           b == SendAll(a, Releases(held.record, to), {})
           c == FlushHeld(b, {})
           d == SendAll(c, Presses(held.record, to), {})
           e == FlushHeld(d, {})
<1>1. after = IF held.record = to THEN held ELSE e
  BY DEF Settled
<1>2. held.record \in States
  BY DEF Helds
<1>3. CASE held.record = to
  <2>1. to = AllNeutral => Emptied(held, held)
    <3>1. SUFFICES ASSUME to = AllNeutral PROVE Emptied(held, held)
      OBVIOUS
    <3>2. Ctl(held.record) = {}
      BY <1>3, <3>1 DEF Ctl, AllNeutral
    <3>3. \A cs : Ctl(held.record) \union cs = cs
      BY <3>2
    <3> QED BY <3>3, Zenon DEF Emptied
  <2>2. after = held
    BY <1>1, <1>3
  <2> HIDE DEF after
  <2>3. after \in Helds /\ Carries(held, after) /\ (to = AllNeutral => Emptied(held, after))
    BY <2>1, <2>2, CarriesItself, Zenon
  <2> QED BY <2>3, Zenon DEF after
<1>4. CASE held.record # to
  <2>1. /\ a \in Helds /\ Carries(held, a) /\ a.record = held.record
        /\ \A cs : Covered(held.group, cs) => Covered(a.group, cs)
    BY FlushCarries, Zenon
  <2>2. /\ b \in Helds /\ Carries(a, b) /\ LetGo(a, b, Ctl(Releases(held.record, to)))
    <3> HIDE DEF a
    <3>1. Releases(held.record, to) \subseteq Payloads /\ IsFiniteSet(Releases(held.record, to))
          /\ \A p \in Releases(held.record, to) : p.value = Neutral
      BY <1>2, ReleasesAre, Zenon
    <3> QED BY <2>1, <3>1, AllCarries, Zenon
  <2>3. /\ c \in Helds /\ Carries(b, c) /\ \A cs : Covered(b.group, cs) => Covered(c.group, cs)
    <3> HIDE DEF b
    <3> QED BY <2>2, FlushCarries, Zenon
  <2>4. /\ d \in Helds /\ Carries(c, d)
        /\ (\A p \in Presses(held.record, to) : p.value = Neutral) =>
              LetGo(c, d, Ctl(Presses(held.record, to)))
    <3> HIDE DEF c
    <3>1. Presses(held.record, to) \subseteq Payloads /\ IsFiniteSet(Presses(held.record, to))
      BY PressesAre, Zenon
    <3> QED BY <2>3, <3>1, AllCarries, Zenon
  <2>5. /\ e \in Helds /\ Carries(d, e) /\ \A cs : Covered(d.group, cs) => Covered(e.group, cs)
    <3> HIDE DEF d
    <3> QED BY <2>4, FlushCarries, Zenon
  <2> HIDE DEF a, b, c, d, e
  <2>6. Carries(held, e)
    <3>1. Carries(held, b)
      BY <2>1, <2>2, CarriesOn, Zenon
    <3>2. Carries(held, c)
      BY <2>3, <3>1, CarriesOn, Zenon
    <3>3. Carries(held, d)
      BY <2>4, <3>2, CarriesOn, Zenon
    <3> QED BY <2>5, <3>3, CarriesOn, Zenon
  <2>7. ASSUME to = AllNeutral PROVE Emptied(held, e)
    <3>1. Ctl(Releases(held.record, to)) = Ctl(held.record)
      BY <1>2, <2>7, ReleasesAre, Zenon
    <3>2. Presses(held.record, to) = {} /\ Ctl(Presses(held.record, to)) = {}
      BY <2>7 DEF Presses, AllNeutral, Ctl
    <3>3. LetGo(c, d, {})
      BY <2>4, <3>2, Zenon
    <3> SUFFICES ASSUME NEW cs, Covered(held.group, Ctl(held.record) \union cs)
                 PROVE  Covered(e.group, cs)
      BY DEF Emptied
    <3> DEFINE all == Ctl(held.record) \union cs
               rest == all \ Ctl(held.record)
    <3>4. Covered(a.group, all)
      BY <2>1, Zenon
    <3>5. Covered(c.group, rest)
      BY <2>2, <2>3, <3>1, <3>4, Zenon DEF LetGo
    <3>6. rest \ {} = rest /\ rest \subseteq cs
      OBVIOUS
    <3> HIDE DEF rest
    <3>7. Covered(e.group, rest)
      BY <2>5, <3>3, <3>5, <3>6, Zenon DEF LetGo
    <3> QED BY <3>6, <3>7, CoveredMore, Zenon
  <2>8. after = e
    BY <1>1, <1>4, Zenon
  <2> HIDE DEF after
  <2>9. after \in Helds /\ Carries(held, after) /\ (to = AllNeutral => Emptied(held, after))
    BY <2>5, <2>6, <2>7, <2>8, Zenon
  <2> QED BY <2>9, Zenon DEF after
<1> QED BY <1>3, <1>4

\* release_live(), of a record.
LEMMA ReleasedCarries ==
  ASSUME NEW g \in Groups, Sound(g), live_held \in States, NEW bad
  PROVE  LET held == [group |-> g, record |-> live_held]
             after == Released(g, bad)
         IN  after \in Helds /\ Carries(held, after) /\ Emptied(held, after)
<1> DEFINE held == [group |-> g, record |-> live_held]
           after == Released(g, bad)
           a == SendAll(held, Releases(live_held, AllNeutral), bad)
           b == FlushHeld(a, bad)
<1>1. held \in Helds /\ held.group = g /\ held.record = live_held
  BY DEF Helds
<1>2. after = IF IsNeutral(live_held) THEN held ELSE b
  BY DEF Released
<1> HIDE DEF held, after
<1>3. CASE IsNeutral(live_held)
  <2>1. Ctl(held.record) = {}
    BY <1>1, <1>3 DEF Ctl, IsNeutral
  <2>2. \A cs : Ctl(held.record) \union cs = cs
    BY <2>1
  <2>3. Emptied(held, held)
    BY <2>2, Zenon DEF Emptied
  <2>4. after \in Helds /\ Carries(held, after) /\ Emptied(held, after)
    BY <1>1, <1>2, <1>3, <2>3, CarriesItself, Zenon
  <2> QED BY <2>4, Zenon DEF after, held
<1>4. CASE ~IsNeutral(live_held)
  <2>1. /\ Releases(live_held, AllNeutral) \subseteq Payloads
        /\ IsFiniteSet(Releases(live_held, AllNeutral))
        /\ \A p \in Releases(live_held, AllNeutral) : p.value = Neutral
        /\ Ctl(Releases(live_held, AllNeutral)) = Ctl(live_held)
    BY ReleasesAre, Zenon
  <2>2. a \in Helds /\ Carries(held, a) /\ LetGo(held, a, Ctl(live_held))
    BY <1>1, <2>1, AllCarries, Zenon
  <2> HIDE DEF a
  <2>3. /\ b \in Helds /\ Carries(a, b) /\ \A cs : Covered(a.group, cs) => Covered(b.group, cs)
    BY <2>2, FlushCarries, Zenon
  <2> HIDE DEF b
  <2>4. Carries(held, b)
    BY <2>2, <2>3, CarriesOn, Zenon
  <2>5. Emptied(held, b)
    <3> SUFFICES ASSUME NEW cs, Covered(held.group, Ctl(held.record) \union cs)
                 PROVE  Covered(b.group, cs)
      BY DEF Emptied
    <3> DEFINE rest == (Ctl(held.record) \union cs) \ Ctl(live_held)
    <3>1. Covered(b.group, rest)
      BY <2>2, <2>3, Zenon DEF LetGo
    <3>2. rest \subseteq cs
      BY <1>1
    <3> HIDE DEF rest
    <3> QED BY <3>1, <3>2, CoveredMore, Zenon
  <2>6. after \in Helds /\ Carries(held, after) /\ Emptied(held, after)
    BY <1>2, <1>4, <2>3, <2>4, <2>5, Zenon
  <2> QED BY <2>6, Zenon DEF after, held
<1> QED BY <1>3, <1>4

-----------------------------------------------------------------------------
(* add_device(), reconfigure() and the battery levels                      *)

\* Every keyboard, but those of some devices, was told its battery level.
Charged(g, but) ==
  \A d \in g.active \ but :
    Has(g, d, "key") /\ g.setup[d].battery # 0 => Of(g.told, d) = {g.setup[d].battery}

\* Between two requests: nobody holds anything whose release it did not miss.
Ready(g) == Sound(g) /\ Charged(g, {}) /\ Covered(g, {})

LEMMA ChargedLater ==
  ASSUME NEW g, NEW h, NEW but, Later(g, h), Charged(g, but) PROVE Charged(h, but)
<1>1. /\ h.active \subseteq g.active /\ h.setup = g.setup
      /\ \A d \in h.active : Of(h.told, d) = Of(g.told, d)
  BY DEF Later
<1>2. \A d \in h.active : Has(h, d, "key") => Has(g, d, "key")
  BY <1>1 DEF Has
<1> QED BY <1>1, <1>2 DEF Charged

\* Devices that hold nothing, but for releases they missed, are alike.
LEMMA NothingHeld == ASSUME NEW g, Covered(g, {}) PROVE Alike(g)
<1> SUFFICES ASSUME NEW d, NEW e, NEW c, <<d, c>> \notin g.missed,
                    NEW x \in g.state, x[1] = d, x[2].control = c
             PROVE  <<e, x[2]>> \in g.state
  BY Zenon DEF Alike
<1> QED BY Zenon DEF Covered

\* What some devices are told replaces what they were told.
TellsAnew(all, told, due, setup) ==
  all = Without(told, due) \union {<<d, setup[d].battery>> : d \in due}

LEMMA ToldAnew ==
  ASSUME NEW told, NEW due, NEW setup, NEW all, TellsAnew(all, told, due, setup)
  PROVE  /\ \A d \in due : Of(all, d) = {setup[d].battery}
         /\ \A d : d \notin due => Of(all, d) = Of(told, d)
<1> DEFINE now == {<<d, setup[d].battery>> : d \in due}
           kept == Without(told, due)
<1>0. all = kept \union now
  BY DEF TellsAnew
<1>1. \A x \in kept : x \in told /\ x[1] \notin due
  BY DEF Without
<1>2. \A x \in told : x[1] \notin due => x \in kept
  BY DEF Without
<1>3. \A x \in now : x[1] \in due /\ x[2] = setup[x[1]].battery
  OBVIOUS
<1>4. \A d \in due : <<d, setup[d].battery>> \in now
  OBVIOUS
<1> HIDE DEF now, kept
<1>5. ASSUME NEW d \in due PROVE Of(all, d) = {setup[d].battery}
  <2>1. \A x \in all : x[1] = d => x[2] = setup[d].battery
    BY <1>0, <1>1, <1>3
  <2>2. \E x \in all : x[1] = d /\ x[2] = setup[d].battery
    <3> DEFINE x == <<d, setup[d].battery>>
    <3>1. x \in all /\ x[1] = d /\ x[2] = setup[d].battery
      BY <1>0, <1>4
    <3> QED BY <3>1, Zenon
  <2> QED BY <2>1, <2>2 DEF Of
<1>6. ASSUME NEW d, d \notin due PROVE Of(all, d) = Of(told, d)
  <2>1. {x \in all : x[1] = d} = {x \in told : x[1] = d}
    BY <1>0, <1>1, <1>2, <1>3, <1>6
  <2> QED BY <2>1, Zenon DEF Of
<1> QED BY <1>5, <1>6, Zenon

LEMMA LevelsSent ==
  ASSUME NEW g, Sound(g), NEW chosen, Charged(g, chosen)
  PROVE  LET h == SendLevels(g, chosen, {})
         IN  /\ Sound(h) /\ Charged(h, {})
             /\ \A cs : Covered(g, cs) => Covered(h, cs)
<1> DEFINE clean == Flush(g, {})
           due == {d \in chosen \intersect clean.active :
                     /\ Has(clean, d, "key") /\ clean.setup[d].battery # 0
                     /\ Of(clean.sent, d) # {clean.setup[d].battery}}
           now == {<<d, clean.setup[d].battery>> : d \in due}
           sent == Without(clean.sent, due) \union now
           told == Without(clean.told, due) \union now
           k == [clean EXCEPT !.sent = sent, !.told = told]
           h == SendLevels(g, chosen, {})
<1>1. h = k
  <2>1. due \ {} = due /\ due \intersect {} = {}
    OBVIOUS
  <2>2. Fail(k, {}) = k
    BY DEF Fail
  <2> QED BY <2>1, <2>2 DEF SendLevels
<1>2. Keeps(g, clean)
  BY FlushKeeps, Zenon
<1>3. Sound(clean) /\ Later(g, clean) /\ clean \in Groups /\ clean.sent = clean.told
  BY <1>2, Zenon DEF Keeps, Sound
<1>4. Charged(clean, chosen)
  BY <1>3, ChargedLater, Zenon
<1> HIDE DEF clean, h
<1>5. now \subseteq Devices \X Nat
  <2>1. \A d \in due : d \in Devices /\ clean.setup[d].battery \in Nat
    BY <1>3 DEF Groups, Setups
  <2> QED BY <2>1
<1>6. sent \subseteq Devices \X Nat /\ sent = told
  BY <1>3, <1>5 DEF Groups, Without
<1>7. /\ \A d \in due : Of(told, d) = {clean.setup[d].battery}
      /\ \A d : d \notin due => Of(told, d) = Of(clean.told, d)
  <2>1. TellsAnew(told, clean.told, due, clean.setup)
    BY DEF TellsAnew
  <2> HIDE DEF due, told
  <2>2. \A d \in due : Of(told, d) = {clean.setup[d].battery}
    BY <2>1, ToldAnew
  <2>3. \A d : d \notin due => Of(told, d) = Of(clean.told, d)
    BY <2>1, ToldAnew
  <2> QED BY <2>2, <2>3, Zenon
<1>9. \A d \in clean.active : d \in due \/ d \notin chosen \/ ~Has(clean, d, "key")
         \/ clean.setup[d].battery = 0 \/ Of(clean.told, d) = {clean.setup[d].battery}
  BY <1>3
<1> HIDE DEF due, sent, told
<1>10. /\ h.active = clean.active /\ h.setup = clean.setup /\ h.state = clean.state
       /\ h.reported = clean.reported /\ h.dirty = clean.dirty /\ h.missed = clean.missed
       /\ h.sent = sent /\ h.told = told /\ h \in Groups
  BY <1>1, <1>3, <1>6 DEF Groups
<1>11. Placed(h)
  BY <1>3, <1>10 DEF Sound, Placed, Has, Level
<1>12. Clean(h)
  BY <1>3, <1>10 DEF Sound, Clean
<1>13. Sound(h)
  BY <1>6, <1>10, <1>11, <1>12, Zenon DEF Sound
<1>14. Charged(h, {})
  <2> SUFFICES ASSUME NEW d \in clean.active, Has(clean, d, "key"), clean.setup[d].battery # 0
               PROVE  Of(told, d) = {clean.setup[d].battery}
    BY <1>10 DEF Charged, Has
  <2>1. CASE d \in due
    BY <1>7, <2>1, Zenon
  <2>2. CASE d \notin due /\ d \in chosen
    BY <1>7, <1>9, <2>2, Zenon
  <2>3. CASE d \notin due /\ d \notin chosen
    <3>1. Of(clean.told, d) = {clean.setup[d].battery}
      BY <1>4, <2>3 DEF Charged
    <3> QED BY <1>7, <2>3, <3>1, Zenon
  <2> QED BY <2>1, <2>2, <2>3
<1>15. ASSUME NEW cs, Covered(g, cs) PROVE Covered(h, cs)
  <2>1. Covered(clean, cs)
    BY <1>2, <1>15, Zenon DEF Keeps
  <2> QED BY <1>10, <2>1, Zenon DEF Covered
<1> QED BY <1>13, <1>14, <1>15, Zenon DEF h

\* Nodes that are registered anew hold nothing; the others keep their level.
LEMMA FreshReady ==
  ASSUME NEW g, Ready(g), NEW d \in Devices, NEW profiles, NEW setup \in Setups,
         \A p \in Profiles \ profiles : Has(g, d, p) => setup.levels[p] = g.setup[d].levels[p]
  PROVE  LET h == Fresh(g, d, profiles, setup)
         IN  Sound(h) /\ Charged(h, {d}) /\ Covered(h, {})
<1> DEFINE h == Fresh(g, d, profiles, setup)
           Gone(x) == x[1] = d /\ ProfileOf[x[2].control] \in profiles
           Keep(levels) == IF "key" \in profiles THEN Without(levels, {d}) ELSE levels
<1>1. g \in Groups /\ Placed(g) /\ Clean(g) /\ g.sent = g.told /\ Charged(g, {}) /\ Covered(g, {})
  BY DEF Ready, Sound
<1>2. h = [g EXCEPT !.setup[d] = setup,
                    !.state = {x \in g.state : ~Gone(x)},
                    !.reported = {x \in g.reported : ~Gone(x)},
                    !.sent = Keep(g.sent), !.told = Keep(g.told),
                    !.missed = {m \in g.missed : m[1] # d \/ ProfileOf[m[2]] \notin profiles}]
  BY DEF Fresh
<1> HIDE DEF h
<1>3. /\ h.active = g.active /\ h.setup = [g.setup EXCEPT ![d] = setup]
      /\ h.state = {x \in g.state : ~Gone(x)} /\ h.reported = {x \in g.reported : ~Gone(x)}
      /\ h.dirty = g.dirty /\ h.sent = Keep(g.sent) /\ h.told = Keep(g.told)
      /\ h.missed = {m \in g.missed : m[1] # d \/ ProfileOf[m[2]] \notin profiles}
      /\ h = [active |-> h.active, setup |-> h.setup, state |-> h.state,
              reported |-> h.reported, dirty |-> h.dirty, sent |-> h.sent, told |-> h.told,
              missed |-> h.missed]
  <2> HIDE DEF Gone, Keep
  <2> QED BY <1>1, <1>2 DEF Groups
<1>4. h.setup \in [Devices -> Setups] /\ h.setup[d] = setup
      /\ \A e : e # d => h.setup[e] = g.setup[e]
  <2>1. g.setup \in [Devices -> Setups]
    BY <1>1 DEF Groups
  <2> QED BY <1>3, <2>1
<1>5. h \in Groups
  <2>1. /\ h.state \subseteq g.state /\ h.reported \subseteq g.reported /\ h.missed \subseteq g.missed
        /\ h.sent \subseteq g.sent /\ h.told \subseteq g.told
    BY <1>3 DEF Without
  <2> QED BY <1>1, <1>3, <1>4, <2>1 DEF Groups
<1>6. \A x \in h.state \union h.reported :
        /\ x \in g.state \union g.reported /\ ProfileOf[x[2].control] \in Profiles
        /\ x[1] = d => ProfileOf[x[2].control] \notin profiles
  <2>1. \A x \in g.state \union g.reported : ProfileOf[x[2].control] \in Profiles
    BY <1>1, GroupAssumption DEF Groups, Payloads
  <2> QED BY <1>3, <2>1
<1>7. \A x \in h.state \union h.reported :
        h.setup[x[1]].levels[ProfileOf[x[2].control]] = g.setup[x[1]].levels[ProfileOf[x[2].control]]
  <2> TAKE x \in h.state \union h.reported
  <2>1. CASE x[1] # d
    BY <1>4, <2>1, Zenon
  <2>2. CASE x[1] = d
    <3>1. Has(g, d, ProfileOf[x[2].control])
      BY <1>1, <1>6, <2>2, Zenon DEF Placed
    <3>2. ProfileOf[x[2].control] \in Profiles \ profiles
      BY <1>6, <2>2
    <3> QED BY <1>4, <2>2, <3>1, <3>2, Zenon
  <2> QED BY <2>1, <2>2
<1>8. Placed(h)
  <2>1. OneEach(h.state) /\ OneEach(h.reported)
    BY <1>1, <1>3 DEF Placed, OneEach
  <2>2. \A x \in h.state \union h.reported : Has(h, x[1], ProfileOf[x[2].control])
    <3>1. \A x \in h.state \union h.reported : Has(g, x[1], ProfileOf[x[2].control])
      BY <1>1, <1>6, Zenon DEF Placed
    <3> QED BY <1>3, <1>7, <3>1, Zenon DEF Has
  <2>3. \A x \in h.state : Declares(Level(h, x[1], x[2].control), x[2].control)
    <3>1. \A x \in h.state : x \in g.state
      BY <1>3
    <3>2. \A x \in h.state : Declares(Level(g, x[1], x[2].control), x[2].control)
      BY <1>1, <3>1, Zenon DEF Placed
    <3>3. \A x \in h.state : Level(h, x[1], x[2].control) = Level(g, x[1], x[2].control)
      BY <1>7, Zenon DEF Level
    <3> QED BY <3>2, <3>3, Zenon
  <2> QED BY <2>1, <2>2, <2>3, Zenon DEF Placed
<1>9. Clean(h)
  <2> SUFFICES ASSUME NEW x \in h.state \union h.reported, ProfileOf[x[2].control] \notin h.dirty
               PROVE  x \in h.state /\ x \in h.reported
    BY DEF Clean
  <2>1. ~Gone(x) /\ x \in g.state \union g.reported
    BY <1>3
  <2>2. x \in g.state /\ x \in g.reported
    BY <1>1, <1>3, <2>1, Zenon DEF Clean
  <2> HIDE DEF Gone
  <2> QED BY <1>3, <2>1, <2>2, Zenon
<1>10. Sound(h)
  BY <1>1, <1>3, <1>5, <1>8, <1>9 DEF Sound
<1>11. Charged(h, {d})
  <2> SUFFICES ASSUME NEW e \in g.active, e # d, Has(g, e, "key"), g.setup[e].battery # 0
               PROVE  Of(h.told, e) = {g.setup[e].battery}
    BY <1>3, <1>4 DEF Charged, Has
  <2>1. Of(h.told, e) = Of(g.told, e)
    BY <1>3 DEF Of, Without
  <2>2. Of(g.told, e) = {g.setup[e].battery}
    BY <1>1 DEF Charged
  <2> QED BY <2>1, <2>2
<1>12. Covered(h, {})
  <2> SUFFICES ASSUME NEW x \in h.state PROVE <<x[1], x[2].control>> \in h.missed
    BY DEF Covered
  <2>1. x \in g.state /\ ~Gone(x)
    BY <1>3
  <2>2. <<x[1], x[2].control>> \in g.missed
    BY <1>1, <2>1 DEF Covered
  <2> QED BY <1>3, <2>1, <2>2
<1> QED BY <1>10, <1>11, <1>12, Zenon DEF h

LEMMA KeepsReady == ASSUME NEW g, Ready(g), NEW h, Keeps(g, h) PROVE Ready(h)
<1>1. Charged(h, {})
  BY ChargedLater, Zenon DEF Ready, Keeps
<1> QED BY <1>1, Zenon DEF Ready, Keeps

LEMMA ReconfigureReady ==
  ASSUME NEW g, Ready(g), NEW d \in Devices, NEW wanted \in Setups, NEW refused, NEW bad
  PROVE  LET h == Reconfigure(g, d, wanted, refused, bad).group
         IN  Sound(h) /\ Charged(h, {d}) /\ Covered(h, {})
<1> DEFINE clean == Flush(g, bad)
           closing == {p \in Profiles : Has(clean, d, p) /\ ~SameNode(clean.setup[d], wanted, p)}
           opening == {p \in Profiles :
                         wanted.levels[p] # 0 /\ (p \in closing \/ ~Has(clean, d, p))}
           refusing == refused \intersect opening
           h == Reconfigure(g, d, wanted, refused, bad).group
           fresh == Fresh(clean, d, closing \union opening, Opened(wanted, refusing))
<1>1. h \in {clean, Fail(clean, {d}), fresh}
  BY DEF Reconfigure
<1>2. Ready(clean)
  <2>1. Keeps(g, clean)
    BY FlushKeeps, Zenon DEF Ready
  <2> QED BY <2>1, KeepsReady, Zenon
<1> HIDE DEF clean
<1>3. ASSUME NEW k, Ready(k) PROVE Sound(k) /\ Charged(k, {d}) /\ Covered(k, {})
  <2>1. Charged(k, {d})
    BY <1>3 DEF Ready, Charged
  <2> QED BY <1>3, <2>1, Zenon DEF Ready
<1>4. Ready(Fail(clean, {d}))
  <2>1. Keeps(clean, Fail(clean, {d}))
    BY <1>2, FailKeeps, Zenon DEF Ready
  <2> QED BY <1>2, <2>1, KeepsReady, Zenon
<1>5. Sound(fresh) /\ Charged(fresh, {d}) /\ Covered(fresh, {})
  <2>1. Opened(wanted, refusing) \in Setups
    BY DEF Opened, Setup, Setups
  <2>2. \A p \in Profiles \ (closing \union opening) :
          Has(clean, d, p) => Opened(wanted, refusing).levels[p] = clean.setup[d].levels[p]
    <3> TAKE p \in Profiles \ (closing \union opening)
    <3>1. Opened(wanted, refusing).levels[p] = wanted.levels[p]
      BY DEF Opened, Setup
    <3>2. Has(clean, d, p) => wanted.levels[p] = clean.setup[d].levels[p]
      BY DEF SameNode
    <3> QED BY <3>1, <3>2, Zenon
  <2> DEFINE setup == Opened(wanted, refusing)
             profiles == closing \union opening
  <2>3. setup \in Setups
    BY <2>1, Zenon
  <2>4. \A p \in Profiles \ profiles :
          Has(clean, d, p) => setup.levels[p] = clean.setup[d].levels[p]
    BY <2>2, Zenon
  <2> HIDE DEF setup, profiles
  <2>5. LET k == Fresh(clean, d, profiles, setup)
        IN  Sound(k) /\ Charged(k, {d}) /\ Covered(k, {})
    BY <1>2, <2>3, <2>4, FreshReady
  <2> QED BY <2>5, Zenon DEF setup, profiles
<1> HIDE DEF fresh, h
<1>6. Sound(h) /\ Charged(h, {d}) /\ Covered(h, {})
  BY <1>1, <1>2, <1>3, <1>4, <1>5
<1> QED BY <1>6, Zenon DEF h

Requested == [device : Devices, setup : Wanted]

LEMMA ServeReady ==
  ASSUME NEW g, Ready(g), NEW request \in Requested, NEW refused, NEW bad
  PROVE  Ready(Serve(g, request, refused, bad))
<1> DEFINE d == request.device
           h == Reconfigure(g, d, request.setup, refused, bad).group
           k == SendLevels(h, {d}, {})
<1>1. d \in Devices /\ request.setup \in Setups
  BY DevicesAssumption DEF Requested
<1>2. Sound(h) /\ Charged(h, {d}) /\ Covered(h, {})
  BY <1>1, ReconfigureReady, Zenon
<1> HIDE DEF h
<1>3. Sound(k) /\ Charged(k, {}) /\ Covered(k, {})
  BY <1>2, LevelsSent, Zenon
<1>4. k = Serve(g, request, refused, bad)
  BY DEF Serve, h
<1> QED BY <1>3, <1>4, Zenon DEF Ready

\* What ServeAll() leaves, request by request.
Answering(w, L, g, requested, refused, bad) ==
  w[0] = g /\ \A n \in 1..L : w[n] = Serve(w[n - 1], requested[n], refused, bad)

Served(w, L, g, requested, refused, bad) == ServeAll(g, requested, refused, bad) = w[L]

LEMMA ServeAllIs ==
  ASSUME NEW g, NEW requested, NEW refused, NEW bad, NEW w, NEW L \in Nat, L = Len(requested),
         Answering(w, L, g, requested, refused, bad)
  PROVE  Served(w, L, g, requested, refused, bad)
<1>0. L \in Nat
  OBVIOUS
<1> DEFINE Reads(f) == f = [n \in 0..L |-> IF n = 0 THEN g
                                          ELSE Serve(f[n - 1], requested[n], refused, bad)]
           f == [n \in 0..L |-> w[n]]
           r == CHOOSE v : Reads(v)
<1>1. w[0] = g /\ \A n \in 1..L : w[n] = Serve(w[n - 1], requested[n], refused, bad)
  BY Zenon DEF Answering
<1>2. Reads(f)
  <2>1. ASSUME NEW n \in 0..L
        PROVE  f[n] = IF n = 0 THEN g ELSE Serve(f[n - 1], requested[n], refused, bad)
    <3>1. f[n] = w[n]
      OBVIOUS
    <3>2. CASE n # 0
      <4>1. n \in 1..L /\ n - 1 \in 0..L
        BY <1>0, <3>2
      <4>2. f[n - 1] = w[n - 1]
        BY <4>1
      <4>3. w[n] = Serve(w[n - 1], requested[n], refused, bad)
        BY <1>1, <4>1, Zenon
      <4> HIDE DEF f
      <4> QED BY <3>1, <3>2, <4>2, <4>3, Zenon
    <3> HIDE DEF f
    <3> QED BY <1>1, <3>1, <3>2, Zenon
  <2> QED BY <2>1, Zenon
<1>3. Reads(r)
  <2> HIDE DEF f, Reads
  <2> QED BY <1>2, Zenon
<1>4. ServeAll(g, requested, refused, bad) = r[L]
  BY DEF ServeAll
<1> HIDE DEF r, f
<1>5. \A n \in 0..L : r[n] = IF n = 0 THEN g ELSE Serve(r[n - 1], requested[n], refused, bad)
  BY <1>3, Zenon
<1>6. r[0] = w[0]
  <2>1. 0 \in 0..L
    BY <1>0
  <2> QED BY <1>1, <1>5, <2>1, Zenon
<1>7. \A n \in 1..L : r[n - 1] = w[n - 1] => r[n] = w[n]
  <2> TAKE n \in 1..L
  <2>1. n \in 0..L /\ n # 0
    BY <1>0
  <2> QED BY <1>1, <1>5, <2>1, Zenon
<1>8. \A n \in 0..L : r[n] = w[n]
  <2>1. StepAlike(r, w, L)
    BY <1>6, <1>7, Zenon DEF StepAlike
  <2> QED BY <1>0, <2>1, StepsAgree, Zenon
<1>9. L \in 0..L
  BY <1>0
<1> QED BY <1>4, <1>8, <1>9, Zenon DEF Served

LEMMA ServeAllReady ==
  ASSUME NEW g, Ready(g), NEW requested \in Seq(Requested), NEW refused, NEW bad
  PROVE  Ready(ServeAll(g, requested, refused, bad))
<1> DEFINE L == Len(requested)
           X == {h \in Groups : Ready(h)}
           step == [n \in 1..L |-> [h \in X |-> Serve(h, requested[n], refused, bad)]]
<1>1. L \in Nat /\ \A n \in 1..L : requested[n] \in Requested
  OBVIOUS
<1>2. \A h : h \in X <=> Ready(h)
  BY DEF Ready, Sound
<1>3. L = Len(requested)
  OBVIOUS
<1> HIDE DEF L, X
<1>4. step \in [1..L -> [X -> X]]
  <2>1. ASSUME NEW n \in 1..L, NEW h \in X PROVE Serve(h, requested[n], refused, bad) \in X
    <3>1. requested[n] \in Requested
      BY <1>1
    <3> QED BY <1>2, <3>1, ServeReady, Zenon
  <2> QED BY <2>1, Zenon
<1>5. PICK w \in [0..L -> X] : w[0] = g /\ \A n \in 1..L : w[n] = step[n][w[n - 1]]
  <2> HIDE DEF step
  <2>1. g \in X
    BY <1>2, Zenon
  <2>2. \E w \in [0..L -> X] : Follows(w, L, g, step)
    BY <1>1, <1>4, <2>1, StepsExist, Zenon
  <2> QED BY <2>2, Zenon DEF Follows
<1>6. \A n \in 1..L : w[n] = Serve(w[n - 1], requested[n], refused, bad)
  <2> TAKE n \in 1..L
  <2>1. n - 1 \in 0..L
    BY <1>1
  <2>2. w[n - 1] \in X
    BY <1>5, <2>1, Zenon
  <2>3. step[n][w[n - 1]] = Serve(w[n - 1], requested[n], refused, bad)
    BY <2>2, Zenon
  <2> QED BY <1>5, <2>3, Zenon
<1>7. Answering(w, L, g, requested, refused, bad)
  BY <1>5, <1>6, Zenon DEF Answering
<1>8. Served(w, L, g, requested, refused, bad)
  BY <1>1, <1>3, <1>7, ServeAllIs, Zenon
<1>9. w[L] \in X
  <2>1. L \in 0..L
    BY <1>1
  <2> QED BY <1>5, <2>1, Zenon
<1> QED BY <1>2, <1>8, <1>9, Zenon DEF Served

\* A group that was just connected: its Nodes are neutral.
LEMMA AddedReady ==
  ASSUME NEW setups \in Selections, NEW opened, opened \subseteq DOMAIN setups, NEW refused
  PROVE  LET h == Added(setups, opened, refused)
         IN  Sound(h) /\ Charged(h, opened) /\ Covered(h, {})
<1> DEFINE h == Added(setups, opened, refused)
           setup == [d \in Devices |-> IF d \in opened THEN Opened(setups[d], refused) ELSE NoSetup]
<1>1. NoSetup \in Setups
  BY DEF NoSetup, Setup, Setups, Off
<1>2. opened \subseteq Devices /\ \A d \in opened : setups[d] \in Setups
  BY DevicesAssumption
<1>3. \A d \in opened : Opened(setups[d], refused) \in Setups
  BY <1>2 DEF Opened, Setup, Setups
<1>4. setup \in [Devices -> Setups]
  BY <1>1, <1>3
<1>5. h = [Empty EXCEPT !.active = opened, !.setup = setup]
  BY DEF Added
<1> HIDE DEF setup, h
<1>6. h = [active |-> opened, setup |-> setup, state |-> {}, reported |-> {}, dirty |-> {},
           sent |-> {}, told |-> {}, missed |-> {}]
  BY <1>5 DEF Empty
<1>7. h \in Groups
  BY <1>2, <1>4, <1>6 DEF Groups
<1>8. /\ h.active = opened /\ h.state = {} /\ h.reported = {} /\ h.sent = {} /\ h.told = {}
  BY <1>6
<1>9. Sound(h)
  BY <1>7, <1>8 DEF Sound, Placed, OneEach, Clean
<1>10. Charged(h, opened)
  BY <1>8 DEF Charged
<1>11. Covered(h, {})
  BY <1>8 DEF Covered
<1> QED BY <1>9, <1>10, <1>11, Zenon DEF h

-----------------------------------------------------------------------------
(* The inductive invariant                                                 *)

DevicesInv ==
  /\ Sound(group) /\ Alike(group) /\ Charged(group, {})
  /\ live \in States /\ live_held \in States
  /\ Covered(group, Ctl(live) \union Ctl(live_held))
  /\ mode # "playing" => Covered(group, Ctl(live_held))
  /\ wpc = "setup" => mode # "playing"
  /\ inbox \in Seq(Requested) /\ asking \in Seq(Requested)

\* No Node comes or goes while a script plays.
NodesStay == mode = "playing" /\ mode' = "playing" => group'.setup = group.setup

LEMMA DevicesInvInit == Init => DevicesInv
<1> SUFFICES ASSUME Init PROVE DevicesInv
  OBVIOUS
<1>1. NoSetup \in Setups
  BY DEF NoSetup, Setup, Setups, Off
<1>2. Empty \in Groups
  BY <1>1 DEF Empty, Groups
<1>3. /\ Empty.active = {} /\ Empty.state = {} /\ Empty.reported = {}
      /\ Empty.sent = {} /\ Empty.told = {}
  BY DEF Empty
<1>4. Sound(Empty) /\ Charged(Empty, {}) /\ \A cs : Covered(Empty, cs)
  BY <1>2, <1>3 DEF Sound, Placed, OneEach, Clean, Charged, Covered
<1>5. Alike(Empty)
  BY <1>4, NothingHeld, Zenon
<1>6. {} \in States
  BY DEF States
<1> QED BY <1>4, <1>5, <1>6 DEF Init, DevicesInv, AllNeutral

\* What the player leaves: the group, and its record.
LEMMA PlayerKeeps ==
  ASSUME DevicesInv, NEW after \in Helds, Later(group, after.group), Alike(after.group),
         Covered(after.group, Ctl(after.record) \union Ctl(live_held)),
         mode' # "playing" => Covered(after.group, Ctl(live_held)),
         group' = after.group, live' = after.record, UNCHANGED <<live_held, inbox, asking>>,
         wpc' = "setup" => mode' # "playing"
  PROVE  DevicesInv' /\ NodesStay
<1>1. Sound(after.group) /\ after.record \in States
  BY DEF Helds
<1>2. Charged(after.group, {})
  BY ChargedLater, Zenon DEF DevicesInv
<1>3. live_held' = live_held /\ inbox' = inbox /\ asking' = asking
  OBVIOUS
<1>4. NodesStay
  BY Zenon DEF NodesStay, Later
<1> QED BY <1>1, <1>2, <1>3, <1>4, Zenon DEF DevicesInv

\* What Live leaves: the group, and its record.
LEMMA LiveKeeps ==
  ASSUME DevicesInv, NEW after \in Helds,
         Carries([group |-> group, record |-> live_held], after),
         group' = after.group, live_held' = after.record, UNCHANGED <<live, mode, inbox, asking>>,
         wpc' # "setup"
  PROVE  DevicesInv' /\ NodesStay
<1> DEFINE held == [group |-> group, record |-> live_held]
<1>1. held.group = group /\ held.record = live_held
  OBVIOUS
<1> HIDE DEF held
<1>2. Sound(after.group) /\ after.record \in States
  BY DEF Helds
<1>3. Later(group, after.group) /\ Alike(after.group)
      /\ \A cs : Covered(group, Ctl(live_held) \union cs) =>
                 Covered(after.group, Ctl(after.record) \union cs)
  <2>1. Carries(held, after)
    BY DEF held
  <2> QED BY <1>1, <2>1, Zenon DEF Carries, DevicesInv
<1>4. Charged(after.group, {})
  BY <1>3, ChargedLater, Zenon DEF DevicesInv
<1>5. Covered(after.group, Ctl(live) \union Ctl(after.record))
  <2>1. \A a, b : a \union b = b \union a
    OBVIOUS
  <2> QED BY <1>3, <2>1, Zenon DEF DevicesInv
<1>6. mode # "playing" => Covered(after.group, Ctl(after.record))
  <2>1. \A a : a \union {} = a
    OBVIOUS
  <2> QED BY <1>3, <2>1, Zenon DEF DevicesInv
<1>7. live' = live /\ mode' = mode /\ inbox' = inbox /\ asking' = asking
  OBVIOUS
<1>8. NodesStay
  BY <1>3, Zenon DEF NodesStay, Later
<1> QED BY <1>2, <1>3, <1>4, <1>5, <1>6, <1>7, <1>8, Zenon DEF DevicesInv

\* What leaves the group and the records alone.
LEMMA OthersKeep ==
  ASSUME DevicesInv, UNCHANGED <<group, live, live_held, mode>>,
         wpc' = "setup" => mode # "playing",
         inbox' \in Seq(Requested), asking' \in Seq(Requested)
  PROVE  DevicesInv' /\ NodesStay
  BY DEF DevicesInv, NodesStay

\* The group and the player's record as they are, and after a flush.
LEMMA PlayerHeld ==
  ASSUME DevicesInv
  PROVE  LET held == [group |-> group, record |-> live]
         IN  held \in Helds /\ held.group = group /\ held.record = live
<1>1. Sound(group) /\ group \in Groups /\ live \in States
  BY DEF DevicesInv, Sound
<1> QED BY <1>1 DEF Helds

LEMMA LiveHeld ==
  ASSUME DevicesInv
  PROVE  LET held == [group |-> group, record |-> live_held]
         IN  held \in Helds /\ held.group = group /\ held.record = live_held
<1>1. Sound(group) /\ group \in Groups /\ live_held \in States
  BY DEF DevicesInv, Sound
<1> QED BY <1>1 DEF Helds

LEMMA FlushedFirst ==
  ASSUME DevicesInv, NEW record \in States, NEW bad
  PROVE  LET held == [group |-> Flush(group, bad), record |-> record]
         IN  /\ held \in Helds /\ held.group = Flush(group, bad) /\ held.record = record
             /\ Keeps(group, held.group) /\ Alike(held.group)
<1> DEFINE f == Flush(group, bad)
           held == [group |-> f, record |-> record]
<1>1. Keeps(group, f)
  BY FlushKeeps, Zenon DEF DevicesInv
<1> HIDE DEF f
<1>2. Sound(f) /\ f \in Groups /\ Alike(f)
  BY <1>1, Zenon DEF Keeps, Sound, DevicesInv
<1>3. held \in Helds /\ held.group = f /\ held.record = record
  BY <1>2 DEF Helds
<1> HIDE DEF held
<1>4. held \in Helds /\ held.group = f /\ held.record = record /\ Keeps(group, held.group)
      /\ Alike(held.group)
  BY <1>1, <1>2, <1>3, Zenon
<1> QED BY <1>4, Zenon DEF held, f

-----------------------------------------------------------------------------
(* Session                                                                 *)

LEMMA ReadyAnew ==
  ASSUME DevicesInv, Ready(group'), live' \in States, live_held' \in States,
         inbox' \in Seq(Requested), asking' \in Seq(Requested),
         wpc' # "setup", mode # "playing"
  PROVE  DevicesInv' /\ NodesStay
<1>1. Sound(group') /\ Charged(group', {}) /\ Alike(group') /\ \A cs : Covered(group', cs)
  <2>1. Sound(group') /\ Charged(group', {}) /\ Covered(group', {})
    BY Zenon DEF Ready
  <2>2. Alike(group')
    BY <2>1, NothingHeld, Zenon
  <2>3. \A cs : Covered(group', cs)
    <3> TAKE cs
    <3>1. {} \subseteq cs
      OBVIOUS
    <3> QED BY <2>1, <3>1, CoveredMore, Zenon
  <2> QED BY <2>1, <2>2, <2>3, Zenon
<1> QED BY <1>1, Zenon DEF DevicesInv, NodesStay

LEMMA ConnectKeeps ==
  ASSUME DevicesInv, NEW setups \in Selections, NEW refused, NEW bad,
         Connect(setups, refused, bad)
  PROVE  DevicesInv' /\ NodesStay
<1> DEFINE opened == {d \in DOMAIN setups \ bad :
                        setups[d].levels = Off \/ Opened(setups[d], refused).levels # Off}
<1>1. group' = SendLevels(Added(setups, opened, refused), opened, {})
  BY Zenon DEF Connect
<1>2. opened \subseteq DOMAIN setups
  OBVIOUS
<1> HIDE DEF opened
<1> DEFINE h == Added(setups, opened, refused)
<1>3. Sound(h) /\ Charged(h, opened) /\ Covered(h, {})
  BY <1>2, AddedReady, Zenon
<1> HIDE DEF h
<1> DEFINE k == SendLevels(h, opened, {})
<1>4. Sound(k) /\ Charged(k, {}) /\ Covered(k, {})
  BY <1>3, LevelsSent, Zenon
<1>5. group' = k
  BY <1>1 DEF h
<1> HIDE DEF k
<1>6. Ready(group')
  BY <1>4, <1>5, Zenon DEF Ready
<1>7. /\ mode = "idle" /\ wpc = "free" /\ wpc' = wpc /\ live' = live /\ live_held' = live_held
      /\ inbox' = inbox /\ asking' = asking
  BY DEF Connect, player, liveness, requests
<1> QED BY <1>6, <1>7, ReadyAnew DEF DevicesInv

LEMMA DisconnectKeeps == ASSUME DevicesInv, Disconnect PROVE DevicesInv' /\ NodesStay
<1>1. Ready(Empty)
  <2>1. NoSetup \in Setups
    BY DEF NoSetup, Setup, Setups, Off
  <2>2. Empty \in Groups
    BY <2>1 DEF Empty, Groups
  <2>3. /\ Empty.active = {} /\ Empty.state = {} /\ Empty.reported = {}
        /\ Empty.sent = {} /\ Empty.told = {}
    BY DEF Empty
  <2> QED BY <2>2, <2>3 DEF Ready, Sound, Placed, OneEach, Clean, Charged, Covered
<1>2. /\ mode = "connected" /\ wpc = "free" /\ wpc' = wpc /\ live' = live
      /\ live_held' = live_held /\ inbox' = inbox /\ asking' = asking /\ group' = Empty
  BY DEF Disconnect, player, liveness, requests
<1>3. Ready(group')
  BY <1>1, <1>2, Zenon
<1> QED BY <1>2, <1>3, ReadyAnew DEF DevicesInv

-----------------------------------------------------------------------------
(* The player                                                              *)

\* After a settle from a group like this one, with what the player recorded, or
\* with nothing recorded where only Live holds anything.
LEMMA SettleKeeps ==
  ASSUME DevicesInv, NEW bad, NEW record \in States, NEW to \in States,
         Covered(group, Ctl(record) \union Ctl(live_held)),
         group' = Settled([group |-> Flush(group, bad), record |-> record], to).group,
         live' = Settled([group |-> Flush(group, bad), record |-> record], to).record,
         UNCHANGED <<live_held, inbox, asking>>, to = AllNeutral \/ mode' = "playing",
         wpc' # "setup"
  PROVE  DevicesInv' /\ NodesStay
<1> DEFINE held == [group |-> Flush(group, bad), record |-> record]
           after == Settled(held, to)
<1>1. /\ held \in Helds /\ held.record = record
      /\ Keeps(group, held.group) /\ Alike(held.group)
  BY FlushedFirst, Zenon
<1>2. group' = after.group /\ live' = after.record
  OBVIOUS
<1> HIDE DEF held
<1>3. after \in Helds /\ Carries(held, after) /\ (to = AllNeutral => Emptied(held, after))
  BY <1>1, SettledCarries, Zenon
<1> HIDE DEF after
<1>4. Covered(held.group, Ctl(held.record) \union Ctl(live_held))
  BY <1>1, Zenon DEF Keeps
<1>5. Later(group, after.group)
  BY <1>1, <1>3, LaterThan, Zenon DEF Keeps, Carries
<1>6. Alike(after.group) /\ Covered(after.group, Ctl(after.record) \union Ctl(live_held))
  BY <1>1, <1>3, <1>4, Zenon DEF Carries
<1>7. to = AllNeutral => Covered(after.group, Ctl(live_held))
  BY <1>3, <1>4, Zenon DEF Emptied
<1>8. mode' # "playing" => Covered(after.group, Ctl(live_held))
  BY <1>7, Zenon
<1>9. wpc' = "setup" => mode' # "playing"
  OBVIOUS
<1> QED BY <1>2, <1>3, <1>5, <1>6, <1>8, <1>9, PlayerKeeps, Zenon

LEMMA PlayKeeps ==
  ASSUME DevicesInv, NEW target \in Targets, Play(target) \/ Resume(target)
  PROVE  DevicesInv' /\ NodesStay
<1>1. target \in States /\ {} \in States
  BY DevicesAssumption DEF States
<1>2. /\ mode' = "playing" /\ wpc' = wpc /\ wpc = "free"
      /\ live_held' = live_held /\ inbox' = inbox /\ asking' = asking
  BY DEF Play, Resume, SettleTo, liveness, requests, surface
<1>3. CASE Play(target)
  <2> DEFINE after == Settled([group |-> Flush(group, {}), record |-> AllNeutral], target)
  <2>1. group' = after.group /\ live' = after.record /\ mode = "connected"
    BY <1>3, Zenon DEF Play, Leaves
  <2>2. AllNeutral \in States
    BY <1>1 DEF AllNeutral
  <2>3. Covered(group, Ctl(AllNeutral) \union Ctl(live_held))
    <3>1. Ctl(AllNeutral) \union Ctl(live_held) = Ctl(live_held)
      BY DEF Ctl, AllNeutral
    <3>2. Covered(group, Ctl(live_held))
      BY <2>1 DEF DevicesInv
    <3> QED BY <3>1, <3>2
  <2> QED BY <1>1, <1>2, <2>1, <2>2, <2>3, SettleKeeps
<1>4. CASE Resume(target)
  <2>1. PICK bad : group' = Settled([group |-> Flush(group, bad), record |-> live], target).group
                   /\ live' = Settled([group |-> Flush(group, bad), record |-> live], target).record
    BY <1>4, Zenon DEF Resume, SettleTo, Leaves
  <2>2. Covered(group, Ctl(live) \union Ctl(live_held)) /\ live \in States
    BY DEF DevicesInv
  <2> QED BY <1>1, <1>2, <2>1, <2>2, SettleKeeps
<1> QED BY <1>3, <1>4

LEMMA ReleaseKeeps ==
  ASSUME DevicesInv, NEW bad, Pause(bad) \/ EndRun(bad)
  PROVE  DevicesInv' /\ NodesStay
<1>1. AllNeutral \in States
  BY DEF AllNeutral, States
<1>2. /\ wpc' = wpc /\ wpc = "free" /\ SettleTo(AllNeutral, bad)
      /\ live_held' = live_held /\ inbox' = inbox /\ asking' = asking
  BY DEF Pause, EndRun, Playing, liveness, requests
<1>3. /\ group' = Settled([group |-> Flush(group, bad), record |-> live], AllNeutral).group
      /\ live' = Settled([group |-> Flush(group, bad), record |-> live], AllNeutral).record
  BY <1>2, Zenon DEF SettleTo, Leaves
<1>4. Covered(group, Ctl(live) \union Ctl(live_held)) /\ live \in States
  BY DEF DevicesInv
<1> QED BY <1>1, <1>2, <1>3, <1>4, SettleKeeps

LEMMA RowKeeps ==
  ASSUME DevicesInv, NEW payload \in Rows, NEW bad, Row(payload, bad)
  PROVE  DevicesInv' /\ NodesStay
<1> DEFINE conflict == payload.control \in staged
           first == [group |-> IF conflict THEN Flush(group, bad) ELSE group, record |-> live]
           after == SendNext(first, payload, bad)
<1>1. /\ group' = after.group /\ live' = after.record
      /\ mode = "playing" /\ mode' = mode /\ wpc = "free" /\ wpc' = wpc
      /\ live_held' = live_held /\ inbox' = inbox /\ asking' = asking
  <2>1. Leaves(Recorded(Send(first.group, payload, bad), live, payload))
    BY Zenon DEF Row, Stages
  <2>2. Recorded(Send(first.group, payload, bad), live, payload) = after
    BY DEF SendNext
  <2> HIDE DEF after
  <2>3. group' = after.group /\ live' = after.record
    BY <2>1, <2>2, Zenon DEF Leaves
  <2>4. /\ mode = "playing" /\ mode' = mode /\ wpc = "free" /\ wpc' = wpc
        /\ live_held' = live_held /\ inbox' = inbox /\ asking' = asking
    BY DEF Row, Playing, liveness, requests
  <2> QED BY <2>3, <2>4
<1>2. /\ first \in Helds /\ first.record = live /\ Later(group, first.group) /\ Alike(first.group)
      /\ \A cs : Covered(group, cs) => Covered(first.group, cs)
  <2>1. CASE conflict
    <3>1. live \in States
      BY DEF DevicesInv
    <3> DEFINE held == [group |-> Flush(group, bad), record |-> live]
    <3>2. held \in Helds /\ held.record = live /\ Keeps(group, held.group) /\ Alike(held.group)
      BY <3>1, FlushedFirst, Zenon
    <3>3. first = held
      BY <2>1
    <3> HIDE DEF first, held
    <3> QED BY <3>2, <3>3, Zenon DEF Keeps
  <2>2. CASE ~conflict
    <3> DEFINE held == [group |-> group, record |-> live]
    <3>1. held \in Helds /\ held.group = group /\ held.record = live
      BY PlayerHeld, Zenon
    <3>2. first = held
      BY <2>2
    <3> HIDE DEF first, held
    <3> QED BY <3>1, <3>2, NotYetLater, Zenon DEF DevicesInv
  <2> QED BY <2>1, <2>2
<1>3. payload \in Payloads
  BY DevicesAssumption
<1> HIDE DEF first
<1>4. after \in Helds /\ Carries(first, after)
  BY <1>2, <1>3, NextCarries, Zenon
<1> HIDE DEF after
<1>5. Later(group, after.group) /\ Alike(after.group)
  BY <1>2, <1>4, LaterThan, Zenon DEF Carries
<1>6. Covered(after.group, Ctl(after.record) \union Ctl(live_held))
  BY <1>2, <1>4, Zenon DEF Carries, DevicesInv
<1>7. mode' = "playing" /\ wpc' # "setup"
  BY <1>1
<1> QED BY <1>1, <1>4, <1>5, <1>6, <1>7, PlayerKeeps, Zenon

LEMMA WaitKeeps ==
  ASSUME DevicesInv, NEW bad, Wait(bad)
  PROVE  DevicesInv' /\ NodesStay
<1> DEFINE after == [group |-> Flush(group, bad), record |-> live]
<1>1. live \in States
  BY DEF DevicesInv
<1>2. /\ after \in Helds /\ after.group = Flush(group, bad) /\ after.record = live
      /\ Keeps(group, after.group) /\ Alike(after.group)
  BY <1>1, FlushedFirst, Zenon
<1> HIDE DEF after
<1>3. /\ group' = after.group /\ live' = after.record /\ mode' = "playing" /\ wpc' # "setup"
      /\ live_held' = live_held /\ inbox' = inbox /\ asking' = asking
  BY <1>2 DEF Wait, Playing, liveness, requests
<1>4. Later(group, after.group) /\ Covered(after.group, Ctl(after.record) \union Ctl(live_held))
  BY <1>2, Zenon DEF Keeps, DevicesInv
<1> QED BY <1>2, <1>3, <1>4, PlayerKeeps, Zenon

LEMMA ScriptKeeps == ASSUME DevicesInv, Script PROVE DevicesInv' /\ NodesStay
  BY PlayKeeps, RowKeeps, WaitKeeps, ReleaseKeeps DEF Script

-----------------------------------------------------------------------------
(* Live                                                                    *)

LEMMA SwitchKeeps ==
  ASSUME DevicesInv, PumpOn \/ \E on \in BOOLEAN : LiveSwitch(on)
  PROVE  DevicesInv' /\ NodesStay
<1>1. /\ UNCHANGED <<group, live, live_held, mode>> /\ inbox' = inbox /\ asking' = asking
      /\ wpc' = "setup" => wpc = "setup"
  BY DEF PumpOn, LiveSwitch, player, liveness, requests
<1>2. wpc = "setup" => mode # "playing"
  BY DEF DevicesInv
<1>3. inbox' \in Seq(Requested) /\ asking' \in Seq(Requested)
  BY <1>1 DEF DevicesInv
<1> QED BY <1>1, <1>2, <1>3, OthersKeep

LEMMA PumpOffKeeps ==
  ASSUME DevicesInv, NEW bad, PumpOff(bad)
  PROVE  DevicesInv' /\ NodesStay
<1> DEFINE held == [group |-> group, record |-> live_held]
           after == Released(group, bad)
<1>1. group' = after.group /\ live_held' = after.record
  BY Zenon DEF PumpOff, LiveLeaves
<1>2. /\ live' = live /\ mode' = mode /\ inbox' = inbox /\ asking' = asking
      /\ wpc' # "setup"
  BY DEF PumpOff, MayPump, player, requests
<1>3. group \in Groups /\ Sound(group) /\ live_held \in States
  BY Zenon DEF DevicesInv, Sound
<1>4. after \in Helds /\ Carries(held, after)
  BY <1>3, ReleasedCarries, Zenon
<1> HIDE DEF after
<1> QED BY <1>1, <1>2, <1>4, LiveKeeps

LEMMA PumpApplyKeeps ==
  ASSUME DevicesInv, NEW payload \in Inputs, NEW bad, PumpApply(payload, bad)
  PROVE  DevicesInv' /\ NodesStay
<1> DEFINE held == [group |-> group, record |-> live_held]
           after == SendNext(held, payload, bad)
<1>1. held \in Helds
  BY LiveHeld, Zenon
<1>2. Recorded(Send(group, payload, bad), live_held, payload) = after
  BY DEF SendNext
<1>3. payload \in Payloads
  BY DevicesAssumption
<1>4. /\ live' = live /\ mode' = mode /\ inbox' = inbox /\ asking' = asking
      /\ wpc' # "setup"
  BY DEF PumpApply, player, requests
<1>5. after \in Helds /\ Carries(held, after)
  <2> HIDE DEF held
  <2> QED BY <1>1, <1>3, NextCarries, Zenon
<1> HIDE DEF after
<1>6. group' = after.group /\ live_held' = after.record
  BY <1>2, Zenon DEF PumpApply, LiveLeaves
<1> QED BY <1>4, <1>5, <1>6, LiveKeeps

LEMMA PumpFlushKeeps ==
  ASSUME DevicesInv, NEW bad, PumpFlush(bad)
  PROVE  DevicesInv' /\ NodesStay
<1> DEFINE held == [group |-> group, record |-> live_held]
           after == FlushHeld(held, bad)
<1>1. held \in Helds /\ held.group = group /\ held.record = live_held
  BY LiveHeld, Zenon
<1>2. after = [group |-> Flush(group, bad), record |-> live_held]
  BY DEF FlushHeld
<1>3. after \in Helds /\ Carries(held, after)
  <2> HIDE DEF held
  <2> QED BY <1>1, FlushCarries, Zenon
<1>4. /\ live' = live /\ live_held' = live_held /\ mode' = mode /\ inbox' = inbox
      /\ asking' = asking /\ wpc' # "setup" /\ group' = Flush(group, bad)
  BY DEF PumpFlush, player, liveness, requests
<1>5. group' = after.group /\ live_held' = after.record
  BY <1>2, <1>4
<1> HIDE DEF after
<1> QED BY <1>3, <1>4, <1>5, LiveKeeps

LEMMA LiveStepsKeep == ASSUME DevicesInv, Live PROVE DevicesInv' /\ NodesStay
  BY SwitchKeeps, PumpOffKeeps, PumpApplyKeeps, PumpFlushKeeps DEF Live

-----------------------------------------------------------------------------
(* Setup requests                                                          *)

LEMMA AsksKeep == ASSUME DevicesInv, Asks PROVE DevicesInv' /\ NodesStay
<1>1. UNCHANGED <<group, live, live_held, mode, wpc>>
  BY DEF Asks, AskPost, AskLook, player, liveness
<1>2. inbox \in Seq(Requested) /\ asking \in Seq(Requested)
      /\ (wpc = "setup" => mode # "playing")
  BY DEF DevicesInv
<1>3. inbox' \in Seq(Requested) /\ asking' \in Seq(Requested)
  <2>1. CASE AskPost
    <3>1. inbox' = inbox \o asking /\ asking' = <<>>
      BY <2>1 DEF AskPost, AskPosts
    <3> QED BY <1>2, <3>1
  <2>2. ASSUME NEW d \in Devices, NEW wanted \in Wanted, AskLook(d, wanted)
        PROVE  inbox' \in Seq(Requested) /\ asking' \in Seq(Requested)
    <3>1. inbox' = inbox /\ asking' = <<[device |-> d, setup |-> wanted]>>
      BY <2>2 DEF AskLook
    <3>2. [device |-> d, setup |-> wanted] \in Requested
      BY DEF Requested
    <3> QED BY <1>2, <3>1, <3>2
  <2> QED BY <2>1, <2>2 DEF Asks
<1> QED BY <1>1, <1>2, <1>3, OthersKeep

LEMMA ReconfigureKeeps ==
  ASSUME DevicesInv, NEW refused, NEW bad, ReconfigureAll(refused, bad)
  PROVE  DevicesInv' /\ NodesStay
<1> DEFINE held == [group |-> group, record |-> live_held]
           let_go == Released(group, {})
<1>1. /\ group' = ServeAll(let_go.group, inbox, refused, bad) /\ live_held' = let_go.record
      /\ inbox' = <<>> /\ asking' = asking /\ live' = live /\ mode' = mode
      /\ wpc = "setup" /\ wpc' # "setup"
  BY DEF ReconfigureAll, player
<1>2. /\ group \in Groups /\ Sound(group) /\ live_held \in States /\ live \in States
      /\ Charged(group, {}) /\ inbox \in Seq(Requested) /\ asking \in Seq(Requested)
  BY Zenon DEF DevicesInv, Sound
<1>3. let_go \in Helds /\ Carries(held, let_go) /\ Emptied(held, let_go)
  BY <1>2, ReleasedCarries, Zenon
<1>4. held.group = group /\ held.record = live_held
  OBVIOUS
<1> HIDE DEF held, let_go
<1>5. mode # "playing" /\ Covered(group, Ctl(live_held))
  BY <1>1 DEF DevicesInv
<1>6. Covered(let_go.group, {})
  <2>1. Ctl(live_held) \union {} = Ctl(live_held)
    OBVIOUS
  <2>2. Covered(held.group, Ctl(held.record) \union {})
    BY <1>4, <1>5, <2>1
  <2> QED BY <1>3, <2>2, Zenon DEF Emptied
<1>7. Sound(let_go.group) /\ let_go.record \in States
  BY <1>3 DEF Helds
<1>8. Charged(let_go.group, {})
  BY <1>2, <1>3, <1>4, ChargedLater, Zenon DEF Carries
<1>9. Ready(let_go.group)
  BY <1>6, <1>7, <1>8, Zenon DEF Ready
<1>10. Ready(group')
  BY <1>1, <1>2, <1>9, ServeAllReady, Zenon
<1>11. <<>> \in Seq(Requested)
  OBVIOUS
<1> QED BY <1>1, <1>2, <1>5, <1>7, <1>10, <1>11, ReadyAnew

LEMMA AnswersKeep ==
  ASSUME DevicesInv, Answers PROVE DevicesInv' /\ NodesStay
<1>1. CASE PumpSetup \/ RefuseInPlay \/ Refused
  <2>1. /\ UNCHANGED <<group, live, live_held, mode>> /\ asking' = asking
        /\ inbox' = inbox \/ inbox' = <<>>
        /\ wpc' = "setup" => mode # "playing"
    BY <1>1 DEF PumpSetup, RefuseInPlay, Refused, player, liveness
  <2>2. /\ inbox \in Seq(Requested) /\ asking \in Seq(Requested)
        /\ <<>> \in Seq(Requested)
    BY DEF DevicesInv
  <2>3. inbox' \in Seq(Requested) /\ asking' \in Seq(Requested)
    BY <2>1, <2>2, Zenon
  <2> QED BY <2>1, <2>3, OthersKeep
<1>2. CASE \E refused \in Refusals, bad \in Faults : ReconfigureAll(refused, bad)
  BY <1>2, ReconfigureKeeps
<1> QED BY <1>1, <1>2 DEF Answers

LEMMA StepsKeep == ASSUME DevicesInv, [Next]_vars PROVE DevicesInv' /\ NodesStay
<1>1. CASE Next
  <2>1. ASSUME NEW setups \in Selections, NEW refused \in Refusals, NEW bad \in SUBSET Devices,
               Connect(setups, refused, bad)
        PROVE  DevicesInv' /\ NodesStay
    BY <2>1, ConnectKeeps
  <2>2. CASE Disconnect
    BY <2>2, DisconnectKeeps
  <2>3. CASE Script
    BY <2>3, ScriptKeeps
  <2>4. CASE Live
    BY <2>4, LiveStepsKeep
  <2>5. CASE Asks
    BY <2>5, AsksKeep
  <2>6. CASE Answers
    BY <2>6, AnswersKeep
  <2> QED BY <1>1, <2>1, <2>2, <2>3, <2>4, <2>5, <2>6, Zenon DEF Next
<1>2. CASE UNCHANGED vars
  <2>1. /\ UNCHANGED <<group, live, live_held, mode, wpc>>
        /\ inbox' = inbox /\ asking' = asking
    BY <1>2 DEF vars, player, liveness, requests
  <2>2. /\ inbox \in Seq(Requested) /\ asking \in Seq(Requested)
        /\ wpc = "setup" => mode # "playing"
    BY DEF DevicesInv
  <2> QED BY <2>1, <2>2, OthersKeep
<1> QED BY <1>1, <1>2

-----------------------------------------------------------------------------
(* What follows                                                            *)

\* At most one value of a control, and the same in both.
OneValue(s, c) == \A x, y \in s : x.control = c /\ y.control = c => x = y

Agree(s, t, c) == \A x : x.control = c => (x \in s <=> x \in t)

LEMMA SameValue ==
  ASSUME NEW s, NEW t, NEW c, OneValue(s, c), OneValue(t, c), Agree(s, t, c)
  PROVE  ValueOf(s, c) = ValueOf(t, c)
<1>1. Holds(s, c) <=> Holds(t, c)
  BY DEF Holds, Agree
<1>2. CASE Holds(s, c)
  <2>1. PICK x \in s : x.control = c
    BY <1>2 DEF Holds
  <2>2. x \in t
    BY <2>1 DEF Agree
  <2> DEFINE a == CHOOSE p \in s : p.control = c
             b == CHOOSE p \in t : p.control = c
  <2>3. a \in s /\ a.control = c
    BY <2>1
  <2>4. b \in t /\ b.control = c
    BY <2>1, <2>2
  <2>5. ValueOf(s, c) = a.value /\ ValueOf(t, c) = b.value
    BY <1>1, <1>2 DEF ValueOf
  <2> HIDE DEF a, b
  <2>6. a = x /\ b = x
    BY <2>1, <2>2, <2>3, <2>4 DEF OneValue
  <2> QED BY <2>5, <2>6
<1>3. CASE ~Holds(s, c)
  BY <1>1, <1>3 DEF ValueOf
<1> QED BY <1>2, <1>3

LEMMA OfPairs ==
  ASSUME NEW pairs \in SUBSET (Devices \X Payloads), OneEach(pairs)
  PROVE  \A d, p : /\ p \in Of(pairs, d) <=> <<d, p>> \in pairs
                  /\ OneValue(Of(pairs, d), p)
<1>1. ASSUME NEW d, NEW p, p \in Of(pairs, d) PROVE <<d, p>> \in pairs
  BY <1>1 DEF Of
<1>2. ASSUME NEW d, NEW p, <<d, p>> \in pairs PROVE p \in Of(pairs, d)
  BY <1>2 DEF Of
<1>3. ASSUME NEW d, NEW c, NEW x \in Of(pairs, d), NEW y \in Of(pairs, d),
             x.control = c, y.control = c
      PROVE  x = y
  <2>1. <<d, x>> \in pairs /\ <<d, y>> \in pairs
    BY <1>1, <1>3
  <2> QED BY <1>3, <2>1 DEF OneEach
<1> QED BY <1>1, <1>2, <1>3, Zenon DEF OneValue

LEMMA RetriesAreEnough == DevicesInv => RetryIsEnough
<1> SUFFICES ASSUME DevicesInv, NEW payload \in Rows \union Inputs
             PROVE  Send(group, payload, {}).result # "BUSY"
  BY DEF RetryIsEnough
<1>1. payload \in Payloads
  BY DevicesAssumption
<1> QED BY <1>1, SendServes, Zenon DEF DevicesInv

LEMMA RecordsCover == DevicesInv => HeldIsRecorded
<1> SUFFICES ASSUME DevicesInv, NEW x \in group.state
             PROVE  LET c == x[2].control
                    IN  Holds(live, c) \/ Holds(live_held, c) \/ <<x[1], c>> \in group.missed
  BY DEF HeldIsRecorded
<1>1. Covered(group, Ctl(live) \union Ctl(live_held))
  BY DEF DevicesInv
<1> QED BY <1>1 DEF Covered, Ctl, Holds

LEMMA LevelsTold == DevicesInv => BatteryIsTold
  BY DEF DevicesInv, Charged, BatteryIsTold

\* What one of two like devices holds of a control, the other does.
LEMMA AlikeHold ==
  ASSUME Alike(group), NEW d \in group.active, NEW e \in group.active, NEW c \in Controls,
         group.setup[d] = group.setup[e], ({d, e} \X {c}) \intersect group.missed = {},
         NEW p, p.control = c
  PROVE  <<d, p>> \in group.state <=> <<e, p>> \in group.state
<1>1. <<d, c>> \notin group.missed /\ <<e, c>> \notin group.missed
  OBVIOUS
<1>2. Level(group, d, c) = Level(group, e, c)
  BY DEF Level
<1> QED BY <1>1, <1>2 DEF Alike

LEMMA EqualDevicesAgree == DevicesInv => Lockstep
<1> SUFFICES ASSUME DevicesInv, NEW d \in group.active, NEW e \in group.active,
                    group.setup[d] = group.setup[e], NEW c \in Controls,
                    ({d, e} \X {c}) \intersect group.missed = {}
             PROVE  /\ ValueOf(Of(group.state, d), c) = ValueOf(Of(group.state, e), c)
                    /\ \/ ProfileOf[c] \in group.dirty
                       \/ ValueOf(Of(group.reported, d), c) = ValueOf(Of(group.reported, e), c)
  BY DEF Lockstep
<1>1. Alike(group) /\ OneEach(group.state) /\ OneEach(group.reported) /\ Clean(group)
  BY DEF DevicesInv, Sound, Placed
<1>2. group.state \in SUBSET (Devices \X Payloads) /\ group.reported \in SUBSET (Devices \X Payloads)
  BY DEF DevicesInv, Sound, Groups
<1>3. \A p : p.control = c => (<<d, p>> \in group.state <=> <<e, p>> \in group.state)
  BY <1>1, AlikeHold
<1>4. ValueOf(Of(group.state, d), c) = ValueOf(Of(group.state, e), c)
  <2>1. OneValue(Of(group.state, d), c) /\ OneValue(Of(group.state, e), c)
    BY <1>1, <1>2, OfPairs, Zenon
  <2>2. Agree(Of(group.state, d), Of(group.state, e), c)
    BY <1>1, <1>2, <1>3, OfPairs, Zenon DEF Agree
  <2> QED BY <2>1, <2>2, SameValue, Zenon
<1>5. ASSUME ProfileOf[c] \notin group.dirty
      PROVE  ValueOf(Of(group.reported, d), c) = ValueOf(Of(group.reported, e), c)
  <2>1. OneValue(Of(group.reported, d), c) /\ OneValue(Of(group.reported, e), c)
    BY <1>1, <1>2, OfPairs, Zenon
  <2>2. \A f, p : p.control = c => (<<f, p>> \in group.reported <=> <<f, p>> \in group.state)
    BY <1>1, <1>5 DEF Clean
  <2>3. \A p : p.control = c => (<<d, p>> \in group.reported <=> <<e, p>> \in group.reported)
    BY <1>3, <2>2, Zenon
  <2>4. Agree(Of(group.reported, d), Of(group.reported, e), c)
    BY <1>1, <1>2, <2>3, OfPairs, Zenon DEF Agree
  <2> QED BY <2>1, <2>4, SameValue, Zenon
<1> QED BY <1>4, <1>5

LEMMA DevicesInvAlways == Spec => []DevicesInv /\ [][NodesStay]_vars
<1>1. DevicesInv /\ [Next]_vars => DevicesInv'
  BY StepsKeep
<1>2. DevicesInv /\ [Next]_vars => [NodesStay]_vars
  BY StepsKeep
<1> QED BY <1>1, <1>2, DevicesInvInit, PTL DEF Spec

\* Player::send() and Engine::apply_live_one(): for any devices, rows and input
\* one flush and one retry bring an event through; BUSY never reaches the caller.
THEOREM OneRetryIsEnough == Spec => []RetryIsEnough
  BY DevicesInvAlways, RetriesAreEnough, PTL

\* Player::live_ and Engine::live_held_ record between them whatever a device
\* holds down, so settle() and release_live() find it; what a device holds on
\* its own is a release that broadcast() dropped for it.
THEOREM WhatIsHeldIsRecorded == Spec => []HeldIsRecorded
  BY DevicesInvAlways, RecordsCover, PTL

\* DeviceGroup::broadcast(), flush() and reconfigure(): devices with one setup
\* hold the same and, once flushed, were told the same.
THEOREM EqualDevicesStayEqual == Spec => []Lockstep
  BY DevicesInvAlways, EqualDevicesAgree, PTL

\* send_battery_levels() after connect() and pump_setup(): whatever was closed
\* and registered again, a keyboard was told its battery level.
THEOREM BatteriesAreTold == Spec => []BatteryIsTold
  BY DevicesInvAlways, LevelsTold, PTL

\* Engine::pump_setup() and pump_setup_in_play(): no Node comes or goes under a
\* script that plays, when ever its request was accepted.
THEOREM NodesDoNotComeOrGo == Spec => NodesStayWhilePlaying
<1>1. DevicesInv /\ [NodesStay]_vars =>
        [mode = "playing" /\ mode' = "playing" =>
           \A d \in group'.active : group'.setup[d] = group.setup[d]]_vars
  BY DEF NodesStay
<1> QED BY <1>1, DevicesInvAlways, PTL DEF NodesStayWhilePlaying
=============================================================================
