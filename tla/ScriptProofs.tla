----------------------------- MODULE ScriptProofs -----------------------------
(***************************************************************************)
(* What load() makes of a script, for any alphabets of lines and any       *)
(* number of them: it takes the files that follow the format, it puts each *)
(* row on the laps it is written for, the search for these laps is exact,  *)
(* and each row and each lap take the time that is written above them.     *)
(***************************************************************************)
EXTENDS Timeline, SequenceFacts, TLAPS

-----------------------------------------------------------------------------
(* Division with remainder, and the laps of a selector                     *)

\* Division with remainder.
LEMMA Remainder ==
  ASSUME NEW a \in Nat, NEW d \in Nat \ {0}
  PROVE  /\ a \div d \in Nat /\ a % d \in 0..(d - 1)
         /\ a = d * (a \div d) + (a % d)
  OBVIOUS

LEMMA WholeSteps ==
  ASSUME NEW a \in Nat, NEW d \in Nat \ {0}
  PROVE  a % d = 0 <=> \E k \in Nat : a = d * k
<1>1. ASSUME NEW k \in Nat, a = d * k PROVE a % d = 0
  BY <1>1
<1>2. ASSUME a % d = 0 PROVE a = d * (a \div d)
  BY <1>2, Remainder
<1> QED BY <1>1, <1>2, Remainder

\* From one multiple to the next are d steps.
LEMMA NextStep ==
  ASSUME NEW a \in Nat, NEW b \in Nat, NEW d \in Nat \ {0}, a % d = 0, b % d = 0, a < b
  PROVE  a + d <= b
<1>1. PICK k \in Nat : a = d * k
  BY WholeSteps
<1>2. PICK m \in Nat : b = d * m
  BY WholeSteps
<1>3. d * k < d * m
  BY <1>1, <1>2
<1>4. d * k + d <= d * m
  BY <1>3
<1> QED BY <1>1, <1>2, <1>4

LEMMA RoundDown ==
  ASSUME NEW a \in Nat, NEW d \in Nat \ {0}
  PROVE  /\ a - (a % d) \in 0..a /\ (a - (a % d)) % d = 0
         /\ \A b \in 0..a : b % d = 0 => b <= a - (a % d)
<1> DEFINE r == a % d
           k == a \div d
<1>1. k \in Nat /\ r \in 0..(d - 1) /\ a = d * k + r
  BY Remainder
<1> HIDE DEF r, k
<1>2. a - r = d * k /\ d * k \in Nat
  BY <1>1
<1>3. a - r \in 0..a
  BY <1>1, <1>2
<1>4. (a - r) % d = 0
  BY <1>1, <1>2, <1>3, WholeSteps
<1>5. ASSUME NEW b \in 0..a, b % d = 0, a - r < b PROVE FALSE
  <2>1. (a - r) + d <= b
    BY <1>3, <1>4, <1>5, NextStep
  <2> QED BY <2>1, <1>1
<1> QED BY <1>3, <1>4, <1>5 DEF r

LEMMA RoundUp ==
  ASSUME NEW a \in Nat, NEW d \in Nat \ {0}, a % d # 0
  PROVE  /\ a + (d - (a % d)) \in Nat /\ (a + (d - (a % d))) % d = 0
         /\ \A b \in Nat : a <= b /\ b % d = 0 => a + (d - (a % d)) <= b
<1> DEFINE r == a % d
           k == a \div d
           up == a + (d - r)
<1>1. k \in Nat /\ r \in 0..(d - 1) /\ a = d * k + r /\ r # 0
  BY Remainder
<1> HIDE DEF r, k
<1>2. up = d * (k + 1) /\ up \in Nat /\ up - d = d * k
  BY <1>1
<1>3. up % d = 0
  BY <1>1, <1>2, WholeSteps
<1>4. up - d \in Nat /\ (up - d) % d = 0
  BY <1>1, <1>2, WholeSteps
<1>5. ASSUME NEW b \in Nat, a <= b, b % d = 0 PROVE up <= b
  <2>1. up - d < b
    BY <1>1, <1>5
  <2>2. (up - d) + d <= b
    BY <1>4, <1>5, <2>1, NextStep
  <2> QED BY <2>2, <1>2
<1> QED BY <1>2, <1>3, <1>5 DEF r

-----------------------------------------------------------------------------
(* Lap selectors                                                           *)

\* What load() makes of a block's arguments.
Selectors ==
  {w \in [first : 1..MaxLap, last : 1..MaxLap, every : 1..MaxLap, keep_time : BOOLEAN,
          negate : BOOLEAN] : w.first <= w.last}

LEMMA SmallerOf == ASSUME NEW a \in Int, NEW b \in Int PROVE Min({a, b}) = IF a <= b THEN a ELSE b
  BY DEF Min

LEMMA LargerOf == ASSUME NEW a \in Int, NEW b \in Int PROVE Max({a, b}) = IF a >= b THEN a ELSE b
  BY DEF Max

LEMMA FirstOf ==
  ASSUME NEW S, NEW n \in S, S \subseteq Nat, \A m \in S : n <= m
  PROVE  Least(S) = n
<1>1. Min(S) \in S /\ \A m \in S : Min(S) <= m
  BY Zenon DEF Min
<1>2. Min(S) = n
  <2>1. Min(S) \in Nat /\ n \in Nat /\ Min(S) <= n /\ n <= Min(S)
    BY <1>1, Zenon
  <2> QED BY <2>1
<1>3. S # {}
  OBVIOUS
<1> QED BY <1>2, <1>3, Zenon DEF Least

LEMMA LastOf ==
  ASSUME NEW S, NEW n \in S, S \subseteq Nat, \A m \in S : m <= n
  PROVE  Max(S) = n
<1>1. n >= n /\ \A m \in S : n >= m
  OBVIOUS
<1>2. Max(S) \in S /\ \A m \in S : Max(S) >= m
  BY <1>1, Zenon DEF Max
<1>3. Max(S) \in Nat /\ n \in Nat
  BY <1>2, Zenon
<1>4. Max(S) >= n /\ Max(S) <= n
  BY <1>2, Zenon
<1> QED BY <1>3, <1>4

LEMMA SelectorType ==
  ASSUME NEW w \in Selectors
  PROVE  /\ w.first \in Nat /\ w.last \in Nat /\ w.every \in Nat \ {0} /\ w.negate \in BOOLEAN
         /\ 1 <= w.first /\ w.first <= w.last /\ w.last <= MaxLap
  BY LapsAssumption DEF Selectors

\* Matches() without subtraction below zero.
LEMMA MatchesAt ==
  ASSUME NEW w \in Selectors, NEW lap \in Nat
  PROVE  Matches(w, lap) <=>
           /\ lap >= w.first /\ lap <= w.last
           /\ lap - w.first \in Nat /\ (lap - w.first) % w.every = 0
  BY SelectorType DEF Matches

LEMMA RunsWhen ==
  ASSUME NEW w \in Selectors, NEW lap \in Nat
  PROVE  /\ ~w.negate => (RunsOn(w, lap) <=> lap >= 1 /\ Matches(w, lap))
         /\ w.negate => (RunsOn(w, lap) <=> lap >= 1 /\ ~Matches(w, lap))
<1>1. Matches(w, lap) \in BOOLEAN
  BY DEF Matches
<1>2. w.negate = TRUE \/ w.negate = FALSE
  BY SelectorType
<1>3. Matches(w, lap) = TRUE \/ Matches(w, lap) = FALSE
  BY <1>1
<1> QED BY <1>2, <1>3 DEF RunsOn

\* The last lap of a selector before another lap.
LEMMA LastBefore ==
  ASSUME NEW w \in Selectors, NEW lap \in 1..MaxLap, ~w.negate
  PROVE  LET S == {l \in 1..(lap - 1) : RunsOn(w, l)}
         IN  LastRunBefore(w, lap) = IF S = {} THEN 0 ELSE Max(S)
<1> DEFINE S == {l \in 1..(lap - 1) : RunsOn(w, l)}
           top == lap - 1
           capped == Min({top, w.last})
           n == capped - ((capped - w.first) % w.every)
<1>1. /\ w.first \in Nat /\ w.last \in Nat /\ w.every \in Nat \ {0} /\ lap \in Nat /\ MaxLap \in Nat
      /\ 1 <= w.first /\ w.first <= w.last /\ w.last <= MaxLap /\ 1 <= lap
  BY SelectorType, LapsAssumption
<1>2. \A l \in Nat : RunsOn(w, l) <=> /\ l >= w.first /\ l <= w.last
                                      /\ l - w.first \in Nat /\ (l - w.first) % w.every = 0
  BY <1>1, MatchesAt, RunsWhen
<1>3. CASE lap <= 1 \/ top < w.first
  <2>1. S = {}
    BY <1>1, <1>2, <1>3
  <2>2. LastRunBefore(w, lap) = 0
    BY <1>1, <1>3 DEF LastRunBefore
  <2> QED BY <2>1, <2>2
<1>4. CASE lap > 1 /\ top >= w.first
  <2>1. capped \in Nat /\ capped >= w.first /\ capped <= top /\ capped <= w.last
        /\ (capped = top \/ capped = w.last)
    BY <1>1, <1>4, SmallerOf
  <2>2. LastRunBefore(w, lap) = n
    BY <1>1, <1>4 DEF LastRunBefore
  <2> DEFINE a == capped - w.first
  <2>3. a \in Nat /\ n = w.first + (a - (a % w.every))
    <3> HIDE DEF capped
    <3>1. a \in Nat
      BY <1>1, <2>1
    <3>2. a % w.every \in Int
      <4> DEFINE d == w.every
      <4>1. d \in Nat \ {0}
        BY <1>1
      <4> HIDE DEF a, d
      <4>2. a % d \in 0..(d - 1)
        BY <3>1, <4>1, Remainder
      <4>3. a % d \in Int
        BY <4>1, <4>2
      <4> QED BY <4>3 DEF d
    <3> DEFINE r == a % w.every
    <3>3. n = capped - r /\ r \in Int
      BY <3>2
    <3> HIDE DEF n, r
    <3>4. n = w.first + (a - r)
      BY <3>3, <1>1, <2>1
    <3> QED BY <3>1, <3>4 DEF r
  <2> HIDE DEF a, capped, n
  <2>4. /\ a - (a % w.every) \in 0..a /\ (a - (a % w.every)) % w.every = 0
        /\ \A b \in 0..a : b % w.every = 0 => b <= a - (a % w.every)
    BY <1>1, <2>3, RoundDown
  <2> DEFINE c == a - (a % w.every)
  <2>5. c \in 0..a /\ c % w.every = 0 /\ (\A b \in 0..a : b % w.every = 0 => b <= c) /\ n = w.first + c
    BY <2>3, <2>4
  <2> HIDE DEF c
  <2>6. n \in Nat /\ n - w.first = c /\ n >= w.first /\ n <= capped
    BY <2>5, <2>1, <2>3, <1>1 DEF a
  <2>7. n \in S
    BY <2>6, <2>5, <2>1, <1>1, <1>2
  <2>8. ASSUME NEW m \in S PROVE m <= n
    <3>1. m \in Nat /\ m <= top /\ m >= w.first /\ m <= w.last /\ (m - w.first) % w.every = 0
      BY <1>1, <1>2
    <3>2. m - w.first \in 0..a
      BY <3>1, <2>1, <1>1 DEF a
    <3>3. m - w.first <= c
      BY <3>1, <3>2, <2>5
    <3> QED BY <3>1, <3>3, <2>5, <1>1
  <2>9. S \subseteq Nat
    BY <1>1
  <2> HIDE DEF S
  <2>10. Max(S) = n
    BY <2>7, <2>8, <2>9, LastOf
  <2> QED BY <2>2, <2>7, <2>10 DEF S
<1> QED BY <1>1, <1>3, <1>4

\* With @else the laps between those of the selector count: next to a lap the selector
\* matches is one it does not match, unless it matches every lap of its range.
LEMMA GapAfterMatch ==
  ASSUME NEW w \in Selectors, NEW lap \in Nat, Matches(w, lap), w.every > 1
  PROVE  ~Matches(w, lap + 1) /\ (lap >= 1 => ~Matches(w, lap - 1))
<1> DEFINE a == lap - w.first
           d == w.every
<1>1. d \in Nat \ {0} /\ d > 1 /\ w.first \in Nat
  BY SelectorType
<1>2. a \in Nat /\ a % d = 0
  BY MatchesAt
<1>3. ASSUME Matches(w, lap + 1) PROVE FALSE
  <2>1. (lap + 1) - w.first \in Nat /\ ((lap + 1) - w.first) % d = 0
    BY <1>3, MatchesAt
  <2>2. (lap + 1) - w.first = a + 1
    BY <1>1
  <2> HIDE DEF a, d
  <2>3. a + 1 \in Nat /\ (a + 1) % d = 0
    BY <2>1, <2>2
  <2>4. a + d <= a + 1
    BY <1>1, <1>2, <2>3, NextStep
  <2> QED BY <1>1, <1>2, <2>4
<1>4. ASSUME lap >= 1, Matches(w, lap - 1) PROVE FALSE
  <2> DEFINE b == (lap - 1) - w.first
  <2>1. lap - 1 \in Nat
    BY <1>4
  <2>2. b \in Nat /\ b % d = 0
    BY <1>4, <2>1, MatchesAt
  <2>3. a = b + 1
    BY <1>1
  <2> HIDE DEF a, b, d
  <2>4. b + d <= a
    BY <1>1, <1>2, <2>2, <2>3, NextStep
  <2> QED BY <1>1, <2>2, <2>3, <2>4
<1> QED BY <1>3, <1>4

LEMMA EveryLapMatches ==
  ASSUME NEW w \in Selectors, NEW lap \in Nat, w.every = 1
  PROVE  Matches(w, lap) <=> w.first <= lap /\ lap <= w.last
<1>1. w.first \in Nat /\ w.last \in Nat
  BY SelectorType
<1>2. ASSUME NEW a \in Nat PROVE a % 1 = 0
  OBVIOUS
<1>3. w.first <= lap => lap - w.first \in Nat
  BY <1>1
<1> QED BY <1>1, <1>2, <1>3, MatchesAt

LEMMA LastBeforeElse ==
  ASSUME NEW w \in Selectors, NEW lap \in 1..MaxLap, w.negate
  PROVE  LET S == {l \in 1..(lap - 1) : RunsOn(w, l)}
         IN  LastRunBefore(w, lap) = IF S = {} THEN 0 ELSE Max(S)
<1> DEFINE S == {l \in 1..(lap - 1) : RunsOn(w, l)}
           top == lap - 1
<1>1. /\ w.first \in Nat /\ w.last \in Nat /\ w.every \in Nat \ {0} /\ lap \in Nat /\ MaxLap \in Nat
      /\ 1 <= w.first /\ w.first <= w.last /\ w.last <= MaxLap /\ 1 <= lap /\ top \in Nat
  BY SelectorType, LapsAssumption
<1>2. S = {l \in 1..top : ~Matches(w, l)} /\ S \subseteq Nat
  <2>1. \A l \in 1..top : l \in Nat /\ l >= 1
    BY <1>1
  <2>2. \A l \in 1..top : RunsOn(w, l) <=> ~Matches(w, l)
    BY <2>1, RunsWhen
  <2> QED BY <2>1, <2>2
<1>3. CASE lap <= 1
  <2>1. S = {}
    BY <1>1, <1>2, <1>3
  <2>2. LastRunBefore(w, lap) = 0
    BY <1>1, <1>3 DEF LastRunBefore
  <2> QED BY <2>1, <2>2
<1> HIDE DEF S
<1>4. CASE lap > 1 /\ ~Matches(w, top)
  <2>1. top \in S
    BY <1>1, <1>2, <1>4
  <2>2. \A m \in S : m <= top
    BY <1>1, <1>2
  <2>3. Max(S) = top
    BY <1>2, <2>1, <2>2, LastOf
  <2>4. LastRunBefore(w, lap) = top
    BY <1>1, <1>4 DEF LastRunBefore
  <2> QED BY <2>1, <2>3, <2>4 DEF S
<1>5. CASE lap > 1 /\ Matches(w, top) /\ w.every > 1
  <2>1. LastRunBefore(w, lap) = top - 1
    BY <1>1, <1>5 DEF LastRunBefore
  <2>2. ~Matches(w, top - 1)
    BY <1>1, <1>5, GapAfterMatch
  <2>3. top \notin S
    BY <1>2, <1>5
  <2>4. \A m \in S : m <= top - 1
    BY <1>1, <1>2, <2>3
  <2>5. CASE top = 1
    <3>1. S = {}
      BY <1>1, <1>2, <2>3, <2>5
    <3> QED BY <2>1, <2>5, <3>1 DEF S
  <2>6. CASE top # 1
    <3>1. top - 1 \in S
      BY <1>1, <1>2, <1>5, <2>2, <2>6
    <3>2. Max(S) = top - 1
      BY <1>2, <2>4, <3>1, LastOf
    <3> QED BY <2>1, <3>1, <3>2 DEF S
  <2> QED BY <2>5, <2>6
<1>6. CASE lap > 1 /\ Matches(w, top) /\ w.every = 1
  <2>1. LastRunBefore(w, lap) = w.first - 1
    BY <1>1, <1>6 DEF LastRunBefore
  <2>2. \A l \in Nat : Matches(w, l) <=> w.first <= l /\ l <= w.last
    BY <1>6, EveryLapMatches
  <2>3. w.first <= top /\ top <= w.last
    BY <1>1, <1>6, <2>2
  <2>4. \A m \in S : m <= w.first - 1
    <3> SUFFICES ASSUME NEW m \in 1..top, ~Matches(w, m) PROVE m <= w.first - 1
      BY <1>2
    <3>1. m \in Nat /\ m <= top
      BY <1>1
    <3>2. ~(w.first <= m /\ m <= w.last)
      BY <2>2, <3>1
    <3> QED BY <1>1, <2>3, <3>1, <3>2
  <2>5. CASE w.first = 1
    <3>1. S = {}
      BY <1>1, <1>2, <2>4, <2>5
    <3> QED BY <2>1, <2>5, <3>1 DEF S
  <2>6. CASE w.first # 1
    <3>1. w.first - 1 \in Nat /\ w.first - 1 \in 1..top
      BY <1>1, <2>3, <2>6
    <3>2. ~Matches(w, w.first - 1)
      BY <1>1, <2>2, <3>1
    <3>3. w.first - 1 \in S
      BY <1>2, <3>1, <3>2
    <3>4. Max(S) = w.first - 1
      BY <1>2, <2>4, <3>3, LastOf
    <3> QED BY <2>1, <3>3, <3>4 DEF S
  <2> QED BY <2>5, <2>6
<1> QED BY <1>1, <1>3, <1>4, <1>5, <1>6 DEF S

\* The first lap of a selector from a lap on.
LEMMA FirstFrom ==
  ASSUME NEW w \in Selectors, NEW lap \in 1..MaxLap, ~w.negate
  PROVE  NextRunFrom(w, lap) = Least({l \in lap..MaxLap : RunsOn(w, l)})
<1> DEFINE S == {l \in lap..MaxLap : RunsOn(w, l)}
           d == w.every
<1>1. /\ w.first \in Nat /\ w.last \in Nat /\ d \in Nat \ {0} /\ lap \in Nat /\ MaxLap \in Nat
      /\ 1 <= w.first /\ w.first <= w.last /\ w.last <= MaxLap /\ 1 <= lap
  BY SelectorType, LapsAssumption
<1>2. Max({lap, 1}) = lap
  BY <1>1, LargerOf
<1>3. /\ S \subseteq Nat
      /\ \A l \in Nat : l \in S <=> /\ lap <= l /\ l >= w.first /\ l <= w.last
                                    /\ l - w.first \in Nat /\ (l - w.first) % d = 0
  <2>1. S \subseteq Nat
    BY <1>1
  <2>2. \A l \in Nat : RunsOn(w, l) <=> /\ l >= 1 /\ l >= w.first /\ l <= w.last
                                        /\ l - w.first \in Nat /\ (l - w.first) % d = 0
    BY MatchesAt, RunsWhen
  <2> HIDE DEF d
  <2> QED BY <1>1, <2>1, <2>2
<1>4. CASE lap > w.last
  <2>1. NextRunFrom(w, lap) = 0
    BY <1>1, <1>2, <1>4 DEF NextRunFrom
  <2>2. S = {}
    <3> HIDE DEF S, d
    <3> QED BY <1>1, <1>3, <1>4
  <2> QED BY <2>1, <2>2 DEF Least
<1>5. CASE lap <= w.last /\ lap <= w.first
  <2>1. NextRunFrom(w, lap) = w.first
    BY <1>1, <1>2, <1>5 DEF NextRunFrom
  <2>2. w.first \in S /\ \A m \in S : w.first <= m
    <3>1. w.first - w.first = 0 /\ 0 % d = 0
      <4> HIDE DEF d
      <4>1. 0 = d * 0
        BY <1>1
      <4> QED BY <1>1, <4>1, WholeSteps
    <3> HIDE DEF S, d
    <3> QED BY <1>1, <1>3, <1>5, <3>1
  <2> HIDE DEF S
  <2>3. Least(S) = w.first
    BY <1>3, <2>2, FirstOf
  <2> QED BY <2>1, <2>3 DEF S
<1>6. CASE lap <= w.last /\ lap > w.first
  <2> DEFINE a == lap - w.first
             r == a % d
  <2>1. a \in Nat /\ lap = w.first + a
    BY <1>1, <1>6
  <2>2. /\ r \in 0..(d - 1) /\ r \in Nat /\ r < d
    <3> HIDE DEF a, d
    <3>1. a % d \in 0..(d - 1)
      BY <1>1, <2>1, Remainder
    <3> QED BY <1>1, <3>1
  <2>3. NextRunFrom(w, lap) = IF r = 0 THEN lap
                              ELSE IF d - r > w.last - lap THEN 0 ELSE lap + d - r
    BY <1>1, <1>2, <1>6 DEF NextRunFrom
  <2>4. CASE r = 0
    <3>1. lap \in S /\ \A m \in S : lap <= m
      <4> HIDE DEF S, d
      <4> QED BY <1>1, <1>3, <1>6, <2>1, <2>4
    <3> HIDE DEF S
    <3>2. Least(S) = lap
      BY <1>3, <3>1, FirstOf
    <3> QED BY <2>3, <2>4, <3>2 DEF S
  <2>5. CASE r # 0
    <3> DEFINE up == a + (d - r)
    <3>1. /\ up \in Nat /\ up % d = 0
          /\ \A b \in Nat : a <= b /\ b % d = 0 => up <= b
      <4> HIDE DEF a, d
      <4> QED BY <1>1, <2>1, <2>5, RoundUp
    <3>2. up = a + (d - r)
      OBVIOUS
    <3> HIDE DEF a, d, r, up
    <3>3. ASSUME NEW m \in S PROVE w.first + up <= m
      <4>1. /\ m \in Nat /\ lap <= m /\ m <= w.last
            /\ m - w.first \in Nat /\ (m - w.first) % d = 0
        BY <1>3
      <4>2. a <= m - w.first
        BY <1>1, <2>1, <4>1
      <4>3. up <= m - w.first
        BY <3>1, <4>1, <4>2
      <4> QED BY <1>1, <3>1, <4>1, <4>3
    <3>4. lap + d - r = w.first + up
      BY <1>1, <2>1, <2>2, <3>2
    <3>5. d - r > w.last - lap <=> w.first + up > w.last
      BY <1>1, <2>1, <2>2, <3>1, <3>2
    <3> HIDE DEF S
    <3>6. CASE w.first + up > w.last
      <4>1. S = {}
        <5> SUFFICES ASSUME NEW m \in S PROVE FALSE
          OBVIOUS
        <5>1. m \in Nat /\ m <= w.last
          BY <1>3
        <5> QED BY <1>1, <3>1, <3>3, <3>6, <5>1
      <4> QED BY <2>3, <2>5, <3>5, <3>6, <4>1 DEF Least, S
    <3>7. CASE ~(w.first + up > w.last)
      <4>1. w.first + up \in S
        <5>1. (w.first + up) - w.first = up /\ w.first + up \in Nat
          BY <1>1, <3>1
        <5>2. lap <= w.first + up
          BY <1>1, <2>1, <2>2, <3>1, <3>2
        <5> QED BY <1>1, <1>3, <3>1, <3>7, <5>1, <5>2
      <4>2. Least(S) = w.first + up
        BY <1>3, <3>3, <4>1, FirstOf
      <4> QED BY <2>3, <2>5, <3>4, <3>5, <3>7, <4>2 DEF S
    <3> QED BY <3>6, <3>7
  <2> QED BY <2>4, <2>5
<1> QED BY <1>1, <1>4, <1>5, <1>6

LEMMA FirstFromElse ==
  ASSUME NEW w \in Selectors, NEW lap \in 1..MaxLap, w.negate
  PROVE  NextRunFrom(w, lap) = Least({l \in lap..MaxLap : RunsOn(w, l)})
<1> DEFINE S == {l \in lap..MaxLap : RunsOn(w, l)}
           edge == IF w.every > 1 THEN lap ELSE w.last
<1>1. /\ w.first \in Nat /\ w.last \in Nat /\ w.every \in Nat \ {0} /\ lap \in Nat /\ MaxLap \in Nat
      /\ 1 <= w.first /\ w.first <= w.last /\ w.last <= MaxLap /\ 1 <= lap /\ lap <= MaxLap
  BY SelectorType, LapsAssumption
<1>2. Max({lap, 1}) = lap
  BY <1>1, LargerOf
<1>3. S \subseteq Nat /\ \A l \in Nat : l \in S <=> lap <= l /\ l <= MaxLap /\ ~Matches(w, l)
  <2>1. S \subseteq Nat
    BY <1>1
  <2>2. \A l \in Nat : RunsOn(w, l) <=> l >= 1 /\ ~Matches(w, l)
    BY RunsWhen
  <2> QED BY <1>1, <2>1, <2>2
<1> HIDE DEF S
<1>4. CASE ~Matches(w, lap)
  <2>1. NextRunFrom(w, lap) = lap
    BY <1>2, <1>4, Zenon DEF NextRunFrom
  <2>2. lap \in S /\ \A m \in S : lap <= m
    BY <1>1, <1>3, <1>4
  <2>3. Least(S) = lap
    BY <1>3, <2>2, FirstOf
  <2> QED BY <2>1, <2>3 DEF S
<1>5. CASE Matches(w, lap)
  <2>1. NextRunFrom(w, lap) = IF edge = MaxLap THEN 0 ELSE edge + 1
    BY <1>2, <1>5, Zenon DEF NextRunFrom
  <2>2. /\ edge \in Nat /\ lap <= edge /\ edge <= MaxLap
        /\ \A l \in Nat : lap <= l /\ l <= edge => Matches(w, l)
        /\ edge + 1 <= MaxLap => ~Matches(w, edge + 1)
    <3>1. CASE w.every > 1
      BY <1>1, <1>5, <3>1, GapAfterMatch
    <3>2. CASE w.every = 1
      <4>1. \A l \in Nat : Matches(w, l) <=> w.first <= l /\ l <= w.last
        BY <3>2, EveryLapMatches
      <4>2. edge = w.last
        BY <3>2
      <4> HIDE DEF edge
      <4> QED BY <1>1, <1>5, <4>1, <4>2
    <3> QED BY <1>1, <3>1, <3>2
  <2> HIDE DEF edge
  <2>3. \A m \in S : edge + 1 <= m
    BY <1>1, <1>3, <2>2
  <2>4. CASE edge = MaxLap
    <3>1. S = {}
      BY <1>1, <1>3, <2>2, <2>4
    <3> QED BY <2>1, <2>4, <3>1 DEF S, Least
  <2>5. CASE edge # MaxLap
    <3>1. edge + 1 \in S
      BY <1>1, <1>3, <2>2, <2>5
    <3>2. Least(S) = edge + 1
      BY <1>3, <2>3, <3>1, FirstOf
    <3> QED BY <2>1, <2>5, <3>2 DEF S
  <2> QED BY <2>4, <2>5
<1> QED BY <1>4, <1>5

\* LapSelector's arithmetic, for every selector and every lap.
LEMMA LapArithmetic ==
  ASSUME NEW w \in Selectors, NEW lap \in 1..MaxLap
  PROVE  /\ LastRunBefore(w, lap) =
              LET S == {l \in 1..(lap - 1) : RunsOn(w, l)} IN IF S = {} THEN 0 ELSE Max(S)
         /\ NextRunFrom(w, lap) = Least({l \in lap..MaxLap : RunsOn(w, l)})
  BY LastBefore, LastBeforeElse, FirstFrom, FirstFromElse, Zenon

-----------------------------------------------------------------------------
(* What load() makes of blocks                                             *)

\* A list of segments, each of which runs on the laps of a selector.
IsSegment(s) == DOMAIN s = {"begin", "end", "when", "lead", "duration"} /\ s.when \in Selectors

\* A table of segments: a sequence of them, whatever its length.
IsSegments(segments) ==
  /\ \E n \in Nat : segments = [i \in 1..n |-> segments[i]]
  /\ \A i \in DOMAIN segments : IsSegment(segments[i])

\* load() half way.
IsReader(r) ==
  /\ DOMAIN r = {"rows", "segments", "errors", "stopped", "seen_row", "screen", "coords",
                 "in_block", "seen_else", "block", "block_line", "done"}
  /\ IsSegments(r.segments) /\ r.block \in Selectors

LEMMA SegmentAdded ==
  ASSUME NEW segments, IsSegments(segments), NEW s, IsSegment(s)
  PROVE  IsSegments(Append(segments, s))
<1>1. PICK n \in Nat : segments = [i \in 1..n |-> segments[i]]
  BY Zenon DEF IsSegments
<1> DEFINE S == {segments[i] : i \in 1..n} \union {s}
           new == Append(segments, s)
<1>2. segments \in Seq(S) /\ s \in S /\ Len(segments) = n
  <2>1. [i \in 1..n |-> segments[i]] \in [1..n -> S]
    OBVIOUS
  <2>2. segments \in [1..n -> S]
    BY <1>1, <2>1, Zenon
  <2> HIDE DEF S
  <2>3. segments \in Seq(S) /\ Len(segments) = n
    BY <2>2
  <2> QED BY <2>3 DEF S
<1>3. /\ new = [i \in 1..(n + 1) |-> new[i]]
      /\ \A i \in 1..(n + 1) : new[i] = IF i <= n THEN segments[i] ELSE s
  <2> HIDE DEF S
  <2>1. new \in Seq(S) /\ Len(new) = n + 1
    BY <1>2
  <2>2. new \in [1..(n + 1) -> S]
    <3> HIDE DEF new
    <3> QED BY <2>1
  <2>3. \A i \in 1..(n + 1) : new[i] = IF i <= n THEN segments[i] ELSE s
    BY <1>2
  <2> QED BY <2>2, <2>3
<1>4. n + 1 \in Nat /\ \A i \in 1..(n + 1) : i <= n => i \in 1..n
  OBVIOUS
<1> HIDE DEF new
<1>5. DOMAIN segments = 1..n /\ DOMAIN new = 1..(n + 1)
  <2>1. DOMAIN [i \in 1..n |-> segments[i]] = 1..n /\ DOMAIN [i \in 1..(n + 1) |-> new[i]] = 1..(n + 1)
    OBVIOUS
  <2> QED BY <1>1, <1>3, <2>1, Zenon
<1>6. ASSUME NEW i \in DOMAIN new PROVE IsSegment(new[i])
  <2>1. CASE i <= n
    <3>1. i \in DOMAIN segments /\ new[i] = segments[i]
      BY <1>3, <1>4, <1>5, <2>1
    <3> QED BY <3>1, Zenon DEF IsSegments
  <2>2. CASE ~(i <= n)
    <3>1. new[i] = s
      BY <1>3, <1>5, <2>2
    <3> QED BY <3>1, Zenon
  <2> QED BY <2>1, <2>2
<1> QED BY <1>3, <1>4, <1>6, Zenon DEF IsSegments, new

LEMMA SegmentChanged ==
  ASSUME NEW segments, IsSegments(segments), NEW k, NEW s, IsSegment(s)
  PROVE  IsSegments([segments EXCEPT ![k] = s])
<1> DEFINE new == [segments EXCEPT ![k] = s]
<1>1. PICK n \in Nat : segments = [i \in 1..n |-> segments[i]]
  BY Zenon DEF IsSegments
<1>2. DOMAIN segments = 1..n
  <2>1. DOMAIN [i \in 1..n |-> segments[i]] = 1..n
    OBVIOUS
  <2> QED BY <1>1, <2>1, Zenon
<1>3. new = [i \in 1..n |-> new[i]] /\ \A i \in 1..n : new[i] = s \/ new[i] = segments[i]
  BY <1>2
<1>4. \A i \in 1..n : IsSegment(segments[i])
  BY <1>2, Zenon DEF IsSegments
<1>5. DOMAIN new = 1..n
  BY <1>2
<1> HIDE DEF new
<1> QED BY <1>3, <1>4, <1>5, Zenon DEF IsSegments, new

LEMMA FreshIsSegment ==
  ASSUME NEW when \in Selectors, NEW begin PROVE IsSegment(Fresh(when, begin))
  BY DEF IsSegment, Fresh

LEMMA SegmentOpened ==
  ASSUME NEW r, IsReader(r), NEW when \in Selectors
  PROVE  IsReader(OpenSegment(r, when))
<1>1. IsSegments(Append(r.segments, Fresh(when, Len(r.rows) + 1)))
  BY FreshIsSegment, SegmentAdded, Zenon DEF IsReader
<1> DEFINE new == Append(r.segments, Fresh(when, Len(r.rows) + 1))
<1> HIDE DEF new
<1>2. OpenSegment(r, when) = [r EXCEPT !.segments = new]
  BY DEF OpenSegment, new
<1> QED BY <1>1, <1>2 DEF IsReader, new

LEMMA Failed == ASSUME NEW r, IsReader(r), NEW number PROVE IsReader(Fail(r, number))
<1>1. CASE Len(r.errors) < MaxErrors
  <2> DEFINE new == Append(r.errors, number)
  <2> HIDE DEF new
  <2>1. Fail(r, number) = [r EXCEPT !.errors = new]
    BY <1>1 DEF Fail, new
  <2> QED BY <2>1 DEF IsReader
<1>2. CASE ~(Len(r.errors) < MaxErrors)
  <2>1. Fail(r, number) = [r EXCEPT !.stopped = TRUE]
    BY <1>2 DEF Fail
  <2> QED BY <2>1 DEF IsReader
<1> QED BY <1>1, <1>2

LEMMA TimeAdded ==
  ASSUME NEW segments, IsSegments(segments), NEW k, NEW duration, NEW lead, NEW end
  PROVE  /\ IsSegments([segments EXCEPT ![k].duration = duration])
         /\ IsSegments([segments EXCEPT ![k].lead = lead])
         /\ IsSegments([segments EXCEPT ![k].end = end])
<1> DEFINE a == [segments[k] EXCEPT !.duration = duration]
           b == [segments[k] EXCEPT !.lead = lead]
           c == [segments[k] EXCEPT !.end = end]
<1>1. CASE k \in DOMAIN segments
  <2>1. IsSegment(segments[k])
    BY <1>1, Zenon DEF IsSegments
  <2>2. IsSegment(a) /\ IsSegment(b) /\ IsSegment(c)
    BY <2>1 DEF IsSegment
  <2> HIDE DEF a, b, c
  <2>3. /\ IsSegments([segments EXCEPT ![k] = a]) /\ IsSegments([segments EXCEPT ![k] = b])
        /\ IsSegments([segments EXCEPT ![k] = c])
    BY <2>2, SegmentChanged, Zenon
  <2> QED BY <2>3 DEF a, b, c
<1>2. CASE k \notin DOMAIN segments
  <2>1. /\ [segments EXCEPT ![k].duration = duration] = segments
        /\ [segments EXCEPT ![k].lead = lead] = segments
        /\ [segments EXCEPT ![k].end = end] = segments
    <3>1. PICK n \in Nat : segments = [i \in 1..n |-> segments[i]]
      BY Zenon DEF IsSegments
    <3>2. DOMAIN segments = 1..n
      <4>1. DOMAIN [i \in 1..n |-> segments[i]] = 1..n
        OBVIOUS
      <4> QED BY <3>1, <4>1, Zenon
    <3> QED BY <1>2, <3>1, <3>2
  <2> QED BY <2>1, Zenon
<1> QED BY <1>1, <1>2

LEMMA SegmentsPut ==
  ASSUME NEW r, IsReader(r), NEW segments, IsSegments(segments)
  PROVE  IsReader([r EXCEPT !.segments = segments])
  BY DEF IsReader

LEMMA WaitAdded == ASSUME NEW r, IsReader(r), NEW wait PROVE IsReader(AddWait(r, wait))
<1> DEFINE last == Len(r.segments)
           one == [r.segments EXCEPT ![last].duration = r.segments[last].duration + wait]
           timed == [r EXCEPT !.segments[last].duration = @ + wait]
           two == [one EXCEPT ![last].lead = one[last].lead + wait]
           table == [timed.rows EXCEPT ![Len(r.rows)].wait = timed.rows[Len(r.rows)].wait + wait]
<1>1. timed = [r EXCEPT !.segments = one]
  OBVIOUS
<1>2. IsSegments(one) /\ IsSegments(two)
  <2>1. IsSegments(one)
    BY TimeAdded, Zenon DEF IsReader
  <2> HIDE DEF one
  <2> QED BY <2>1, TimeAdded, Zenon
<1>3. IsReader(timed) /\ timed.segments = one
  <2> HIDE DEF one, timed
  <2>1. IsReader(timed)
    BY <1>1, <1>2, SegmentsPut, Zenon
  <2> QED BY <1>1, <2>1 DEF IsReader
<1>4. AddWait(r, wait) = IF ~HasRows(r.segments[last]) THEN [timed EXCEPT !.segments[last].lead = @ + wait]
                         ELSE [timed EXCEPT !.rows[Len(r.rows)].wait = @ + wait]
  BY Zenon DEF AddWait
<1>5. /\ [timed EXCEPT !.segments[last].lead = @ + wait] = [timed EXCEPT !.segments = two]
      /\ [timed EXCEPT !.rows[Len(r.rows)].wait = @ + wait] = [timed EXCEPT !.rows = table]
  <2>1. [timed EXCEPT !.segments[last].lead = @ + wait]
          = [timed EXCEPT !.segments = [timed.segments EXCEPT ![last].lead = timed.segments[last].lead + wait]]
    <3> HIDE DEF timed, last
    <3> QED OBVIOUS
  <2>2. [timed EXCEPT !.rows[Len(r.rows)].wait = @ + wait] = [timed EXCEPT !.rows = table]
    <3> HIDE DEF timed
    <3> QED OBVIOUS
  <2> QED BY <1>3, <2>1, <2>2, Zenon
<1>6. IsReader([timed EXCEPT !.segments = two]) /\ IsReader([timed EXCEPT !.rows = table])
  <2> HIDE DEF timed, two, table
  <2>1. IsReader([timed EXCEPT !.segments = two])
    BY <1>2, <1>3, SegmentsPut, Zenon
  <2>2. IsReader([timed EXCEPT !.rows = table])
    BY <1>3 DEF IsReader
  <2> QED BY <2>1, <2>2
<1> QED BY <1>4, <1>5, <1>6, Zenon

LEMMA RowAdded == ASSUME NEW r, IsReader(r), NEW line PROVE IsReader(AddRow(r, line))
<1> DEFINE last == Len(r.segments)
           table == Append(r.rows, [payload |-> line.payload, wait |-> line.wait])
           one == [r.segments EXCEPT ![last].end = Len(r.rows) + 2]
           two == [one EXCEPT ![last].duration = one[last].duration + line.wait]
<1>1. IsSegments(two)
  <2>1. IsSegments(one)
    BY TimeAdded, Zenon DEF IsReader
  <2> HIDE DEF one
  <2> QED BY <2>1, TimeAdded, Zenon
<1>2. IsReader([r EXCEPT !.rows = table]) /\ [r EXCEPT !.rows = table].segments = r.segments
  <2> HIDE DEF table
  <2> QED BY DEF IsReader
<1>3. AddRow(r, line) = [[r EXCEPT !.rows = table] EXCEPT !.segments = two]
  <2> DEFINE put == [r EXCEPT !.rows = table]
  <2>1. AddRow(r, line) = [[put EXCEPT !.segments[last].end = Len(r.rows) + 2] EXCEPT !.segments[last].duration = @ + line.wait]
    BY DEF AddRow
  <2> HIDE DEF put, table
  <2>2. [put EXCEPT !.segments[last].end = Len(r.rows) + 2] = [put EXCEPT !.segments = one]
    BY <1>2 DEF put
  <2> DEFINE half == [put EXCEPT !.segments = one]
  <2>3. half.segments = one
    BY <1>2 DEF put, IsReader
  <2> HIDE DEF half, one
  <2>4. [half EXCEPT !.segments[last].duration = @ + line.wait]
          = [half EXCEPT !.segments = [half.segments EXCEPT ![last].duration = half.segments[last].duration + line.wait]]
    <3> HIDE DEF last
    <3> QED OBVIOUS
  <2>5. [half EXCEPT !.segments = two] = [put EXCEPT !.segments = two]
    <3> HIDE DEF two
    <3> QED BY DEF half
  <2> QED BY <2>1, <2>2, <2>3, <2>4, <2>5, Zenon DEF half, put
<1> DEFINE put == [r EXCEPT !.rows = table]
<1>4. IsReader(put) /\ AddRow(r, line) = [put EXCEPT !.segments = two]
  BY <1>2, <1>3, Zenon
<1> HIDE DEF two, put
<1>5. IsReader([put EXCEPT !.segments = two])
  BY <1>1, <1>4, SegmentsPut, Zenon
<1> QED BY <1>4, <1>5, Zenon

LEMMA RowRead ==
  ASSUME NEW r, IsReader(r), NEW line, NEW number PROVE IsReader(ReadRow(r, line, number))
<1>1. IsReader([r EXCEPT !.seen_row = TRUE])
  BY DEF IsReader
<1> QED BY <1>1, WaitAdded, RowAdded, Failed, Zenon DEF ReadRow

\* The head of a block gives a selector, or none.
IsHead(line) ==
  /\ IsLapNumber(line.from) /\ IsLapNumber(line.to) /\ line.keep_time \in BOOLEAN
  /\ line.kind = "every" => IsLapNumber(line.every)

LEMMA HeadsAreSelectors ==
  ASSUME NEW line, line.kind \in {"lap", "every"}, IsHead(line)
  PROVE  Block(line) = None \/ (Block(line) # None /\ Block(line)[1] \in Selectors)
<1> DEFINE keep == line.keep_time
<1>1. /\ line.from \in Int /\ line.from <= MaxLap /\ line.to \in Int /\ line.to <= MaxLap
      /\ line.from >= -1 /\ line.to >= -1 /\ keep \in BOOLEAN /\ MaxLap \in Nat /\ MaxLap >= 1
      /\ line.to < 0 => line.to = Malformed
      /\ line.from < 0 => line.from = Malformed
  BY LapsAssumption DEF IsHead, IsLapNumber, Malformed
<1>2. ASSUME NEW first \in 1..MaxLap, NEW last \in 1..MaxLap, NEW every \in 1..MaxLap, first <= last
      PROVE  Laps(first, last, every, keep) \in Selectors
  <2>1. [first |-> first, last |-> last, every |-> every, keep_time |-> keep, negate |-> FALSE]
          \in [first : 1..MaxLap, last : 1..MaxLap, every : 1..MaxLap, keep_time : BOOLEAN, negate : BOOLEAN]
    BY <1>1, <1>2
  <2> QED BY <1>2, <2>1 DEF Laps, Selectors
<1> DEFINE last == IF line.to = 0 THEN MaxLap ELSE line.to
<1>3. ASSUME NEW x PROVE <<x>> # None /\ <<x>>[1] = x
  BY DEF None
<1>4. CASE line.kind = "lap"
  <2>1. Block(line) = LapBlock(line)
    BY <1>4, Zenon DEF Block
  <2>2. CASE line.from <= 0 \/ line.to = Malformed \/ last < line.from
    BY <2>1, <2>2, Zenon DEF LapBlock
  <2>3. CASE ~(line.from <= 0 \/ line.to = Malformed \/ last < line.from)
    <3>1. LapBlock(line) = <<Laps(line.from, last, 1, keep)>>
      BY <2>3, Zenon DEF LapBlock
    <3>2. line.from \in 1..MaxLap /\ last \in 1..MaxLap /\ 1 \in 1..MaxLap /\ line.from <= last
      BY <1>1, <2>3
    <3>3. Laps(line.from, last, 1, keep) \in Selectors
      <4> HIDE DEF keep, last
      <4> QED BY <1>2, <3>2
    <3> QED BY <1>3, <2>1, <3>1, <3>3, Zenon
  <2> QED BY <2>2, <2>3
<1>5. CASE line.kind = "every"
  <2> DEFINE first == IF line.from = 0 THEN line.every ELSE line.from
  <2>1. Block(line) = EveryBlock(line)
    <3>1. line.kind # "lap"
      BY <1>5
    <3> QED BY <3>1, Zenon DEF Block
  <2>2. CASE line.every <= 0 \/ Malformed \in {line.from, line.to} \/ last < first
    BY <2>1, <2>2, Zenon DEF EveryBlock
  <2>3. CASE ~(line.every <= 0 \/ Malformed \in {line.from, line.to} \/ last < first)
    <3>1. EveryBlock(line) = <<Laps(first, last, line.every, keep)>>
      BY <2>3, Zenon DEF EveryBlock
    <3>2. line.every \in 1..MaxLap
      BY <1>5, <1>1, <2>3 DEF IsHead, IsLapNumber, Malformed
    <3>3. first \in 1..MaxLap /\ last \in 1..MaxLap /\ first <= last
      BY <1>1, <2>3, <3>2
    <3>4. Laps(first, last, line.every, keep) \in Selectors
      <4> HIDE DEF keep, last, first
      <4> QED BY <1>2, <3>2, <3>3
    <3> QED BY <1>3, <2>1, <3>1, <3>4, Zenon
  <2> QED BY <2>2, <2>3
<1> QED BY <1>4, <1>5

LEMMA AlwaysIsSelector == Always \in Selectors
<1>1. 1 \in 1..MaxLap /\ MaxLap \in 1..MaxLap /\ 1 <= MaxLap
  BY LapsAssumption
<1>2. [first |-> 1, last |-> MaxLap, every |-> 1, keep_time |-> FALSE, negate |-> FALSE]
        \in [first : 1..MaxLap, last : 1..MaxLap, every : 1..MaxLap, keep_time : BOOLEAN, negate : BOOLEAN]
  BY <1>1
<1> QED BY <1>1, <1>2 DEF Always, Laps, Selectors

LEMMA BlockRead ==
  ASSUME NEW r, IsReader(r), NEW line, line.kind \in {"lap", "every"}, IsHead(line), NEW number
  PROVE  IsReader(ReadBlock(r, line, number))
<1> DEFINE when == Block(line)
           block == IF when = None THEN Always ELSE when[1]
           opened == [r EXCEPT !.in_block = TRUE, !.seen_else = FALSE, !.block_line = number,
                               !.block = block]
<1>1. block \in Selectors
  <2>1. when = None \/ (when # None /\ when[1] \in Selectors)
    <3> HIDE DEF block, opened
    <3> QED BY HeadsAreSelectors
  <2> HIDE DEF when
  <2> QED BY <2>1, AlwaysIsSelector, Zenon
<1> HIDE DEF block
<1>2. IsReader(opened) /\ opened.block = block
  BY <1>1 DEF IsReader
<1>3. ReadBlock(r, line, number) =
        IF r.in_block THEN Fail(r, number)
        ELSE OpenSegment(IF when = None THEN Fail(opened, number) ELSE opened, opened.block)
  BY Zenon DEF ReadBlock, block
<1> HIDE DEF opened, when
<1>4. IsReader(IF when = None THEN Fail(opened, number) ELSE opened)
  BY <1>2, Failed, Zenon
<1> QED BY <1>1, <1>2, <1>3, <1>4, Failed, SegmentOpened, Zenon

LEMMA ElseRead == ASSUME NEW r, IsReader(r), NEW number PROVE IsReader(ReadElse(r, number))
<1> DEFINE else == [r.block EXCEPT !.negate = TRUE]
           seen == [r EXCEPT !.seen_else = TRUE]
<1>1. else \in Selectors
  BY DEF IsReader, Selectors
<1>2. IsReader(seen)
  BY DEF IsReader
<1>3. ReadElse(r, number) = IF ~r.in_block \/ r.seen_else \/ r.block.keep_time THEN Fail(r, number)
                            ELSE OpenSegment(seen, else)
  BY Zenon DEF ReadElse
<1> HIDE DEF else, seen
<1> QED BY <1>1, <1>2, <1>3, Failed, SegmentOpened, Zenon

LEMMA EndRead == ASSUME NEW r, IsReader(r), NEW number PROVE IsReader(ReadEnd(r, number))
<1> DEFINE out == [r EXCEPT !.in_block = FALSE]
<1>1. IsReader(out)
  BY DEF IsReader
<1>2. ReadEnd(r, number) = IF r.in_block THEN OpenSegment(out, Always) ELSE Fail(r, number)
  BY Zenon DEF ReadEnd
<1> HIDE DEF out
<1> QED BY <1>1, <1>2, AlwaysIsSelector, Failed, SegmentOpened, Zenon

LEMMA DirectiveRead ==
  ASSUME NEW r, IsReader(r), NEW line, NEW number
  PROVE  /\ IsReader(ReadScreen(r, line, number)) /\ IsReader(ReadCoords(r, line, number))
         /\ IsReader(ReadFormat(r, line, number))
<1>1. IsReader([r EXCEPT !.screen = TRUE]) /\ IsReader([r EXCEPT !.coords = line.coords])
  BY DEF IsReader
<1>2. IsReader(Fail(r, number))
  BY Failed, Zenon
<1>3. IsReader(ReadScreen(r, line, number))
  BY <1>1, <1>2, Zenon DEF ReadScreen
<1>4. IsReader(ReadCoords(r, line, number))
  BY <1>1, <1>2, Zenon DEF ReadCoords
<1>5. IsReader(ReadFormat(r, line, number))
  BY <1>2, Zenon DEF ReadFormat
<1> QED BY <1>3, <1>4, <1>5

LEMMA LineRead ==
  ASSUME NEW r, IsReader(r), NEW line, line.kind \in {"lap", "every"} => IsHead(line), NEW number
  PROVE  IsReader(ReadLine(r, line, number))
<1> DEFINE read == ReadLine(r, line, number)
<1>1. \/ read = r
      \/ read = ReadRow(r, line, number)
      \/ line.kind \in {"lap", "every"} /\ read = ReadBlock(r, line, number)
      \/ read = ReadElse(r, number)
      \/ read = ReadEnd(r, number)
      \/ read = ReadScreen(r, line, number)
      \/ read = ReadCoords(r, line, number)
      \/ read = ReadFormat(r, line, number)
      \/ read = Fail(r, number)
  BY DEF ReadLine
<1> HIDE DEF read
<1>2. /\ IsReader(ReadRow(r, line, number)) /\ IsReader(ReadElse(r, number))
      /\ IsReader(ReadEnd(r, number)) /\ IsReader(Fail(r, number))
  BY RowRead, ElseRead, EndRead, Failed, Zenon
<1>3. line.kind \in {"lap", "every"} => IsReader(ReadBlock(r, line, number))
  BY BlockRead
<1>4. IsReader(read)
  BY <1>1, <1>2, <1>3, DirectiveRead, Zenon
<1> QED BY <1>4 DEF read

-----------------------------------------------------------------------------
(* The segments that are kept                                              *)

\* Finish keeps a segment that has rows or takes time.
KeptWith(segments, kept, n) ==
  IF HasRows(segments[n]) \/ segments[n].duration # 0 THEN Append(kept, segments[n]) ELSE kept

LEMMA KeptIs ==
  ASSUME NEW segments, NEW n \in Nat, Len(segments) = n, NEW w, w[0] = <<>>,
         \A i \in 1..n : w[i] = KeptWith(segments, w[i - 1], i)
  PROVE  NotEmpty(segments) = w[n]
<1> DEFINE Reads(f) == f = [i \in 0..n |-> IF i = 0 THEN <<>> ELSE KeptWith(segments, f[i - 1], i)]
           f == [i \in 0..n |-> w[i]]
           r == CHOOSE g : Reads(g)
<1>1. Reads(f)
  <2>1. ASSUME NEW i \in 0..n
        PROVE  f[i] = IF i = 0 THEN <<>> ELSE KeptWith(segments, f[i - 1], i)
    <3>1. f[i] = w[i]
      OBVIOUS
    <3>2. CASE i # 0
      <4>1. i \in 1..n /\ i - 1 \in 0..n
        BY <3>2
      <4>2. f[i - 1] = w[i - 1]
        BY <4>1
      <4>3. w[i] = KeptWith(segments, w[i - 1], i)
        BY <4>1, Zenon
      <4> HIDE DEF f
      <4> QED BY <3>1, <3>2, <4>2, <4>3, Zenon
    <3> HIDE DEF f
    <3> QED BY <3>1, <3>2, Zenon
  <2> QED BY <2>1, Zenon
<1>2. Reads(r)
  <2> HIDE DEF f, Reads
  <2> QED BY <1>1, Zenon
<1>3. NotEmpty(segments) = r[n]
  BY DEF NotEmpty, KeptWith
<1> HIDE DEF r, f
<1>4. \A i \in 0..n : r[i] = IF i = 0 THEN <<>> ELSE KeptWith(segments, r[i - 1], i)
  BY <1>2, Zenon
<1>5. StepAlike(r, w, n)
  <2>1. r[0] = w[0]
    <3>1. 0 \in 0..n
      OBVIOUS
    <3> QED BY <1>4, <3>1, Zenon
  <2>2. ASSUME NEW i \in 1..n, r[i - 1] = w[i - 1] PROVE r[i] = w[i]
    <3>1. i \in 0..n /\ i # 0
      OBVIOUS
    <3>2. r[i] = KeptWith(segments, r[i - 1], i)
      BY <1>4, <3>1, Zenon
    <3> QED BY <2>2, <3>2, Zenon
  <2> QED BY <2>1, <2>2, Zenon DEF StepAlike
<1>6. n \in 0..n
  OBVIOUS
<1> QED BY <1>3, <1>5, <1>6, StepsAgree, Zenon

\* The segments that are kept, found one by one.
KeptOneByOne(segments, w, n) ==
  /\ w[0] = <<>> /\ \A i \in 1..n : w[i] = KeptWith(segments, w[i - 1], i)
  /\ NotEmpty(segments) = w[n]

LEMMA KeptSteps ==
  ASSUME NEW segments, IsSegments(segments)
  PROVE  LET n == Len(segments)
             S == {segments[i] : i \in 1..n}
         IN  /\ n \in Nat /\ DOMAIN segments = 1..n /\ \A i \in 1..n : IsSegment(segments[i])
             /\ \E w \in [0..n -> Seq(S)] : KeptOneByOne(segments, w, n)
<1>0. PICK n \in Nat : segments = [i \in 1..n |-> segments[i]]
  BY Zenon DEF IsSegments
<1> DEFINE S == {segments[i] : i \in 1..n}
<1>2. DOMAIN segments = 1..n /\ Len(segments) = n /\ \A i \in 1..n : segments[i] \in S
  <2>1. DOMAIN segments = 1..n
    <3>1. DOMAIN [i \in 1..n |-> segments[i]] = 1..n
      OBVIOUS
    <3> QED BY <1>0, <3>1, Zenon
  <2>2. \A i \in 1..n : segments[i] \in S
    OBVIOUS
  <2> HIDE DEF S
  <2>3. segments \in Seq(S)
    <3>1. [i \in 1..n |-> segments[i]] \in [1..n -> S]
      BY <2>2
    <3>2. segments \in [1..n -> S]
      BY <1>0, <3>1, Zenon
    <3> QED BY <3>2
  <2>4. Len(segments) = n
    BY <2>1, <2>3
  <2> QED BY <2>1, <2>2, <2>4
<1>3. \A i \in 1..n : IsSegment(segments[i])
  BY <1>2, Zenon DEF IsSegments
<1> HIDE DEF S
<1> DEFINE step == [i \in 1..n |-> [kept \in Seq(S) |-> KeptWith(segments, kept, i)]]
<1>4. step \in [1..n -> [Seq(S) -> Seq(S)]]
  <2>1. \A i \in 1..n, kept \in Seq(S) : KeptWith(segments, kept, i) \in Seq(S)
    BY <1>2 DEF KeptWith
  <2> QED BY <2>1
<1>5. <<>> \in Seq(S)
  OBVIOUS
<1> HIDE DEF step
<1>6. PICK w \in [0..n -> Seq(S)] : Follows(w, n, <<>>, step)
  BY <1>4, <1>5, StepsExist, Zenon
<1>7. w[0] = <<>> /\ \A i \in 1..n : w[i] = KeptWith(segments, w[i - 1], i)
  <2>1. \A i \in 1..n : w[i - 1] \in Seq(S) /\ i - 1 \in 0..n
    OBVIOUS
  <2>2. \A i \in 1..n : step[i][w[i - 1]] = KeptWith(segments, w[i - 1], i)
    <3> SUFFICES ASSUME NEW i \in 1..n PROVE step[i][w[i - 1]] = KeptWith(segments, w[i - 1], i)
      OBVIOUS
    <3>1. step[i] = [kept \in Seq(S) |-> KeptWith(segments, kept, i)]
      BY DEF step
    <3> QED BY <2>1, <3>1
  <2> QED BY <1>6, <2>2, Zenon DEF Follows
<1>8. NotEmpty(segments) = w[n]
  BY <1>2, <1>7, KeptIs, Zenon
<1> QED BY <1>2, <1>3, <1>7, <1>8, Zenon DEF KeptOneByOne, S

LEMMA KeptAreSegments ==
  ASSUME NEW segments, IsSegments(segments) PROVE IsSegments(NotEmpty(segments))
<1> DEFINE n == Len(segments)
           S == {segments[i] : i \in 1..n}
<1>1. PICK w \in [0..n -> Seq(S)] : KeptOneByOne(segments, w, n)
  BY KeptSteps, Zenon
<1>2. n \in Nat /\ \A s \in S : IsSegment(s)
  BY KeptSteps, Zenon
<1> DEFINE kept == w[n]
<1> HIDE DEF n, S
<1>3. kept \in Seq(S)
  <2>1. n \in 0..n
    BY <1>2
  <2> QED BY <1>1, <2>1
<1> HIDE DEF kept
<1>4. /\ \E m \in Nat : kept = [i \in 1..m |-> kept[i]]
      /\ \A i \in DOMAIN kept : kept[i] \in S
  <2>1. kept \in [1..Len(kept) -> S] /\ Len(kept) \in Nat
    BY <1>3
  <2> QED BY <2>1
<1>5. IsSegments(kept)
  BY <1>2, <1>4, Zenon DEF IsSegments
<1> QED BY <1>1, <1>5, Zenon DEF kept, KeptOneByOne

LEMMA FileEnded == ASSUME NEW r, IsReader(r), NEW number PROVE IsReader(Finish(r, number))
<1> DEFINE closed == IF r.in_block /\ ~r.stopped THEN Fail(r, r.block_line) ELSE r
           segments == NotEmpty(closed.segments)
           whole == [closed EXCEPT !.segments = segments, !.done = TRUE]
<1>1. IsReader(closed)
  BY Failed, Zenon
<1>2. IsSegments(segments)
  <2> HIDE DEF closed
  <2>1. IsSegments(closed.segments)
    BY <1>1, Zenon DEF IsReader
  <2> QED BY <2>1, KeptAreSegments, Zenon
<1>3. Finish(r, number) = IF whole.errors = <<>> /\ whole.rows = <<>> THEN Fail(whole, number) ELSE whole
  BY Zenon DEF Finish
<1>4. IsReader(whole)
  <2> HIDE DEF closed, segments
  <2> QED BY <1>1, <1>2 DEF IsReader
<1> HIDE DEF whole
<1> QED BY <1>3, <1>4, Failed, Zenon

-----------------------------------------------------------------------------
(* The theorem                                                             *)

LEMMA BlankIsReader == IsReader(Blank)
<1> DEFINE first == Fresh(Always, 1)
<1>1. IsSegment(first)
  BY AlwaysIsSelector, FreshIsSegment, Zenon
<1> HIDE DEF first
<1>2. IsSegments(<<first>>)
  <2>1. <<first>> = [i \in 1..1 |-> <<first>>[i]] /\ DOMAIN <<first>> = 1..1 /\ <<first>>[1] = first
    OBVIOUS
  <2>2. \A i \in 1..1 : i = 1
    OBVIOUS
  <2>3. 1 \in Nat
    OBVIOUS
  <2> QED BY <1>1, <2>1, <2>2, <2>3, Zenon DEF IsSegments
<1>3. Blank.segments = <<first>> /\ Blank.block = Always
  BY DEF Blank, first
<1>4. DOMAIN Blank = {"rows", "segments", "errors", "stopped", "seen_row", "screen", "coords",
                      "in_block", "seen_else", "block", "block_line", "done"}
  BY DEF Blank
<1> QED BY <1>2, <1>3, <1>4, AlwaysIsSelector, Zenon DEF IsReader

\* load() reads one of the alphabets, and what it keeps has its type.
ReaderInv == alphabet \in DOMAIN Alphabets /\ IsReader(reader)

LEMMA ReaderInvInit == Init => ReaderInv
  BY BlankIsReader, Zenon DEF Init, ReaderInit, ReaderInv

LEMMA ReaderInvStep == ReaderInv /\ [Next]_vars => ReaderInv'
<1> SUFFICES ASSUME ReaderInv, [Next]_vars PROVE ReaderInv'
  OBVIOUS
<1>1. CASE EndOfFile
  <2>1. alphabet' = alphabet /\ reader' = Finish(reader, Len(lines))
    BY <1>1, Zenon DEF EndOfFile
  <2> QED BY <2>1, FileEnded, Zenon DEF ReaderInv
<1>2. ASSUME NEW line \in Alphabets[alphabet], Read(line) PROVE ReaderInv'
  <2>1. alphabet' = alphabet /\ reader' = ReadLine(reader, line, Len(lines'))
    BY <1>2, Zenon DEF Read
  <2>2. line.kind \in {"lap", "every"} => IsHead(line)
    BY ReaderAssumption, Zenon DEF ReaderInv, IsHead
  <2> QED BY <2>1, <2>2, LineRead, Zenon DEF ReaderInv
<1>3. CASE UNCHANGED readerVars
  BY <1>3, Zenon DEF ReaderInv, readerVars
<1>4. UNCHANGED vars => UNCHANGED readerVars
  BY DEF vars
<1> QED BY <1>1, <1>2, <1>3, <1>4, Zenon DEF Next, ReaderNext

LEMMA ReadersSearchIsExact == ReaderInv => LapSearchIsExact
<1> SUFFICES ASSUME ReaderInv, NEW s \in Range(reader.segments), NEW lap \in 1..MaxLap
             PROVE  /\ LastRunBefore(s.when, lap) =
                         LET S == {l \in 1..(lap - 1) : RunsOn(s.when, l)} IN IF S = {} THEN 0 ELSE Max(S)
                    /\ NextRunFrom(s.when, lap) = Least({l \in lap..MaxLap : RunsOn(s.when, l)})
  BY Zenon DEF LapSearchIsExact
<1>1. s.when \in Selectors
  BY Zenon DEF ReaderInv, IsReader, IsSegments, IsSegment, Range
<1> QED BY <1>1, LapArithmetic, Zenon

\* LapSelector::last_run_before() and next_run_from(), of every block of every file
\* that was accepted: a search over all laps finds what their arithmetic gives, at the
\* largest lap too.
THEOREM LapArithmeticIsExact == Spec => []LapSearchIsExact
  BY ReaderInvInit, ReaderInvStep, ReadersSearchIsExact, PTL DEF Spec

-----------------------------------------------------------------------------
(* What load() accepts: one line                                           *)

\* load() half way, with the types of what it counts.
Numbered(r) == IsReader(r) /\ r.errors \in Seq(Nat) /\ r.block_line \in Nat

\* What load() asks of a line, by what it has noted of those before.
Accepts(r, line) ==
  /\ line.kind \notin {"screen_comment", "unknown"}
  /\ line.kind = "row" => RowFits(r, line)
  /\ line.kind = "wait" => line.wait # Malformed
  /\ line.kind \in {"lap", "every"} => ~r.in_block /\ Block(line) # None
  /\ line.kind = "else" => r.in_block /\ ~r.seen_else /\ ~r.block.keep_time
  /\ line.kind = "end" => r.in_block
  /\ line.kind \in {"format", "screen", "coords"} => ~r.seen_row
  /\ line.kind \in {"format", "screen"} => line.shape
  /\ line.kind = "screen" => ~r.screen /\ r.coords # "normalized"
  /\ line.kind = "coords" =>
       /\ r.coords = "none" /\ line.coords \in {"normalized", "integer"}
       /\ line.coords = "normalized" => ~r.screen

\* What load() notes of a line it accepts.
Notes(r, read, line) ==
  /\ read.stopped = r.stopped /\ read.done = r.done
  /\ read.seen_row <=> r.seen_row \/ line.kind \in {"row", "wait"}
  /\ read.screen <=> r.screen \/ line.kind = "screen"
  /\ read.coords = IF line.kind = "coords" THEN line.coords ELSE r.coords
  /\ read.in_block <=> line.kind \in {"lap", "every"} \/ (r.in_block /\ line.kind # "end")
  /\ read.seen_else <=> line.kind \notin {"lap", "every"} /\ (r.seen_else \/ line.kind = "else")
  /\ read.block = IF line.kind \in {"lap", "every"} THEN Block(line)[1] ELSE r.block

LEMMA Failing ==
  ASSUME NEW r, Numbered(r), NEW number \in Nat
  PROVE  Numbered(Fail(r, number)) /\ Fail(r, number).errors # <<>>
<1>1. IsReader(Fail(r, number))
  BY Failed, Zenon DEF Numbered
<1>2. MaxErrors \in Nat \ {0}
  BY ReaderAssumption
<1>3. CASE Len(r.errors) < MaxErrors
  <2> DEFINE new == Append(r.errors, number)
  <2>1. new \in Seq(Nat) /\ new # <<>>
    BY DEF Numbered
  <2> HIDE DEF new
  <2>2. Fail(r, number) = [r EXCEPT !.errors = new]
    BY <1>3 DEF Fail, new
  <2>3. Fail(r, number).errors = new /\ Fail(r, number).block_line = r.block_line
    BY <2>2 DEF Numbered, IsReader
  <2> QED BY <1>1, <2>1, <2>3 DEF Numbered
<1>4. CASE ~(Len(r.errors) < MaxErrors)
  <2>1. Fail(r, number) = [r EXCEPT !.stopped = TRUE]
    BY <1>4 DEF Fail
  <2>2. Fail(r, number).errors = r.errors /\ Fail(r, number).block_line = r.block_line
    BY <2>1 DEF Numbered, IsReader
  <2>3. r.errors # <<>>
    BY <1>2, <1>4 DEF Numbered
  <2> QED BY <1>1, <2>2, <2>3 DEF Numbered
<1> QED BY <1>3, <1>4

LEMMA WaitNoted ==
  ASSUME NEW r, Numbered(r), NEW wait
  PROVE  LET s == AddWait(r, wait)
         IN  /\ s.errors = r.errors /\ s.block_line = r.block_line /\ s.stopped = r.stopped
             /\ s.done = r.done /\ s.seen_row = r.seen_row /\ s.screen = r.screen
             /\ s.coords = r.coords /\ s.in_block = r.in_block /\ s.seen_else = r.seen_else
             /\ s.block = r.block
  BY DEF AddWait, Numbered, IsReader

LEMMA RowNoted ==
  ASSUME NEW r, Numbered(r), NEW line
  PROVE  LET s == AddRow(r, line)
         IN  /\ s.errors = r.errors /\ s.block_line = r.block_line /\ s.stopped = r.stopped
             /\ s.done = r.done /\ s.seen_row = r.seen_row /\ s.screen = r.screen
             /\ s.coords = r.coords /\ s.in_block = r.in_block /\ s.seen_else = r.seen_else
             /\ s.block = r.block
  BY DEF AddRow, Numbered, IsReader

LEMMA SegmentNoted ==
  ASSUME NEW r, Numbered(r), NEW when \in Selectors
  PROVE  LET s == OpenSegment(r, when)
         IN  /\ s.errors = r.errors /\ s.block_line = r.block_line /\ s.stopped = r.stopped
             /\ s.done = r.done /\ s.seen_row = r.seen_row /\ s.screen = r.screen
             /\ s.coords = r.coords /\ s.in_block = r.in_block /\ s.seen_else = r.seen_else
             /\ s.block = r.block
  BY DEF OpenSegment, Numbered, IsReader

\* A line that does not fit makes an error, one that does makes none; and what is noted.
Judged(r, line, read) ==
  /\ Numbered(read)
  /\ ~Accepts(r, line) => read.errors # <<>>
  /\ Accepts(r, line) => read.errors = r.errors /\ Notes(r, read, line)

LEMMA DataJudged ==
  ASSUME NEW r, Numbered(r), NEW line, line.kind \in {"row", "wait"}, NEW number \in Nat
  PROVE  Judged(r, line, ReadRow(r, line, number))
<1> DEFINE seen == [r EXCEPT !.seen_row = TRUE]
           read == ReadRow(r, line, number)
<1>1. /\ Numbered(seen) /\ seen.errors = r.errors /\ seen.block_line = r.block_line
      /\ seen.stopped = r.stopped /\ seen.done = r.done /\ seen.seen_row = TRUE
      /\ seen.screen = r.screen /\ seen.coords = r.coords /\ seen.in_block = r.in_block
      /\ seen.seen_else = r.seen_else /\ seen.block = r.block
  BY DEF Numbered, IsReader
<1> HIDE DEF seen
<1>2. read = IF line.kind = "wait"
             THEN IF line.wait = Malformed THEN Fail(seen, number) ELSE AddWait(seen, line.wait)
             ELSE IF RowFits(r, line) THEN AddRow(seen, line) ELSE Fail(seen, number)
  <2>1. RowFits(seen, line) <=> RowFits(r, line)
    BY <1>1, Zenon DEF RowFits
  <2> QED BY <2>1, Zenon DEF ReadRow, seen
<1>3. Numbered(Fail(seen, number)) /\ Fail(seen, number).errors # <<>>
  BY <1>1, Failing
<1>4. Accepts(r, line) <=> IF line.kind = "wait" THEN line.wait # Malformed ELSE RowFits(r, line)
  BY DEF Accepts
<1>5. ASSUME line.kind = "wait", line.wait # Malformed PROVE Judged(r, line, read)
  <2> DEFINE s == AddWait(seen, line.wait)
  <2>1. read = s /\ IsReader(s)
    BY <1>1, <1>2, <1>5, WaitAdded, Zenon DEF Numbered
  <2>2. /\ s.errors = seen.errors /\ s.block_line = seen.block_line /\ s.stopped = seen.stopped
        /\ s.done = seen.done /\ s.seen_row = seen.seen_row /\ s.screen = seen.screen
        /\ s.coords = seen.coords /\ s.in_block = seen.in_block /\ s.seen_else = seen.seen_else
        /\ s.block = seen.block
    BY <1>1, WaitNoted, Zenon
  <2> HIDE DEF s, read
  <2>3. Numbered(read)
    BY <1>1, <2>1, <2>2, Zenon DEF Numbered
  <2>4. Notes(r, read, line)
    BY <1>1, <1>5, <2>1, <2>2 DEF Notes
  <2> QED BY <1>1, <1>4, <1>5, <2>1, <2>2, <2>3, <2>4, Zenon DEF Judged
<1>6. ASSUME line.kind = "row", RowFits(r, line) PROVE Judged(r, line, read)
  <2> DEFINE s == AddRow(seen, line)
  <2>1. read = s /\ IsReader(s)
    <3>1. line.kind # "wait"
      BY <1>6
    <3> QED BY <1>1, <1>2, <1>6, <3>1, RowAdded, Zenon DEF Numbered
  <2>2. /\ s.errors = seen.errors /\ s.block_line = seen.block_line /\ s.stopped = seen.stopped
        /\ s.done = seen.done /\ s.seen_row = seen.seen_row /\ s.screen = seen.screen
        /\ s.coords = seen.coords /\ s.in_block = seen.in_block /\ s.seen_else = seen.seen_else
        /\ s.block = seen.block
    BY <1>1, RowNoted, Zenon
  <2> HIDE DEF s, read
  <2>3. Numbered(read)
    BY <1>1, <2>1, <2>2, Zenon DEF Numbered
  <2>4. Notes(r, read, line)
    BY <1>1, <1>6, <2>1, <2>2 DEF Notes
  <2>5. line.kind # "wait"
    BY <1>6
  <2> QED BY <1>1, <1>4, <1>6, <2>1, <2>2, <2>3, <2>4, <2>5, Zenon DEF Judged
<1>7. ASSUME ~Accepts(r, line) PROVE Judged(r, line, read)
  <2>1. read = Fail(seen, number)
    <3> HIDE DEF read
    <3> QED BY <1>2, <1>4, <1>7, Zenon
  <2> HIDE DEF read
  <2> QED BY <1>3, <1>7, <2>1, Zenon DEF Judged
<1>8. line.kind = "wait" \/ (line.kind = "row" /\ line.kind # "wait")
  OBVIOUS
<1> HIDE DEF read
<1>9. Judged(r, line, read)
  BY <1>4, <1>5, <1>6, <1>7, <1>8, Zenon
<1> QED BY <1>9 DEF read

LEMMA BlockJudged ==
  ASSUME NEW r, Numbered(r), NEW line, line.kind \in {"lap", "every"}, IsHead(line),
         NEW number \in Nat
  PROVE  Judged(r, line, ReadBlock(r, line, number))
<1> DEFINE when == Block(line)
           block == IF when = None THEN Always ELSE when[1]
           opened == [r EXCEPT !.in_block = TRUE, !.seen_else = FALSE, !.block_line = number,
                               !.block = block]
           read == ReadBlock(r, line, number)
<1>1. block \in Selectors
  <2>1. when = None \/ (when # None /\ when[1] \in Selectors)
    <3> HIDE DEF block, opened, read
    <3> QED BY HeadsAreSelectors
  <2> HIDE DEF when
  <2> QED BY <2>1, AlwaysIsSelector, Zenon
<1> HIDE DEF block
<1>2. /\ Numbered(opened) /\ opened.errors = r.errors
      /\ opened.stopped = r.stopped /\ opened.done = r.done /\ opened.seen_row = r.seen_row
      /\ opened.screen = r.screen /\ opened.coords = r.coords /\ opened.in_block = TRUE
      /\ opened.seen_else = FALSE /\ opened.block = block
  BY <1>1 DEF Numbered, IsReader
<1>3. read = IF r.in_block THEN Fail(r, number)
             ELSE OpenSegment(IF when = None THEN Fail(opened, number) ELSE opened, opened.block)
  BY Zenon DEF ReadBlock, block
<1> HIDE DEF opened, when, read
<1>4. Accepts(r, line) <=> ~r.in_block /\ when # None
  BY DEF Accepts, when
<1>5. ASSUME r.in_block PROVE Judged(r, line, read)
  BY <1>3, <1>4, <1>5, Failing, Zenon DEF Judged
<1>6. ASSUME ~r.in_block, when = None PROVE Judged(r, line, read)
  <2>1. read = OpenSegment(Fail(opened, number), opened.block)
    BY <1>3, <1>6, Zenon
  <2>2. Numbered(Fail(opened, number)) /\ Fail(opened, number).errors # <<>>
    BY <1>2, Failing
  <2>3. /\ read.errors = Fail(opened, number).errors
        /\ read.block_line = Fail(opened, number).block_line
        /\ IsReader(read)
    BY <1>1, <1>2, <2>1, <2>2, SegmentNoted, SegmentOpened, Zenon DEF Numbered
  <2> QED BY <1>4, <1>6, <2>2, <2>3, Zenon DEF Judged, Numbered
<1>7. ASSUME ~r.in_block, when # None PROVE Judged(r, line, read)
  <2>1. read = OpenSegment(opened, opened.block)
    BY <1>3, <1>7, Zenon
  <2>2. /\ read.errors = opened.errors /\ read.block_line = opened.block_line
        /\ read.stopped = opened.stopped /\ read.done = opened.done
        /\ read.seen_row = opened.seen_row /\ read.screen = opened.screen
        /\ read.coords = opened.coords /\ read.in_block = opened.in_block
        /\ read.seen_else = opened.seen_else /\ read.block = opened.block
        /\ IsReader(read)
    BY <1>1, <1>2, <2>1, SegmentNoted, SegmentOpened, Zenon DEF Numbered
  <2>3. Numbered(read)
    BY <1>2, <2>2, Zenon DEF Numbered
  <2>4. block = Block(line)[1]
    BY <1>7, Zenon DEF block, when
  <2>5. Notes(r, read, line)
    BY <1>2, <2>2, <2>4 DEF Notes
  <2> QED BY <1>2, <1>4, <1>7, <2>2, <2>3, <2>5, Zenon DEF Judged
<1> QED BY <1>5, <1>6, <1>7, Zenon DEF read

LEMMA ElseJudged ==
  ASSUME NEW r, Numbered(r), NEW line, line.kind = "else", NEW number \in Nat
  PROVE  Judged(r, line, ReadElse(r, number))
<1> DEFINE else == [r.block EXCEPT !.negate = TRUE]
           seen == [r EXCEPT !.seen_else = TRUE]
           read == ReadElse(r, number)
<1>1. else \in Selectors
  BY DEF Numbered, IsReader, Selectors
<1>2. /\ Numbered(seen) /\ seen.errors = r.errors
      /\ seen.stopped = r.stopped /\ seen.done = r.done /\ seen.seen_row = r.seen_row
      /\ seen.screen = r.screen /\ seen.coords = r.coords /\ seen.in_block = r.in_block
      /\ seen.seen_else = TRUE /\ seen.block = r.block
  BY DEF Numbered, IsReader
<1>3. read = IF ~r.in_block \/ r.seen_else \/ r.block.keep_time THEN Fail(r, number)
             ELSE OpenSegment(seen, else)
  BY Zenon DEF ReadElse
<1> HIDE DEF else, seen, read
<1>4. Accepts(r, line) <=> r.in_block /\ ~r.seen_else /\ ~r.block.keep_time
  BY DEF Accepts
<1>5. ASSUME ~Accepts(r, line) PROVE Judged(r, line, read)
  BY <1>3, <1>4, <1>5, Failing, Zenon DEF Judged
<1>6. ASSUME Accepts(r, line) PROVE Judged(r, line, read)
  <2>1. read = OpenSegment(seen, else)
    BY <1>3, <1>4, <1>6, Zenon
  <2>2. /\ read.errors = seen.errors /\ read.block_line = seen.block_line
        /\ read.stopped = seen.stopped /\ read.done = seen.done
        /\ read.seen_row = seen.seen_row /\ read.screen = seen.screen
        /\ read.coords = seen.coords /\ read.in_block = seen.in_block
        /\ read.seen_else = seen.seen_else /\ read.block = seen.block
        /\ IsReader(read)
    BY <1>1, <1>2, <2>1, SegmentNoted, SegmentOpened, Zenon DEF Numbered
  <2>3. Numbered(read)
    BY <1>2, <2>2, Zenon DEF Numbered
  <2>4. Notes(r, read, line)
    BY <1>2, <1>4, <1>6, <2>2 DEF Notes
  <2> QED BY <1>2, <1>6, <2>2, <2>3, <2>4, Zenon DEF Judged
<1>7. Judged(r, line, read)
  BY <1>5, <1>6, Zenon
<1> QED BY <1>7 DEF read

LEMMA EndJudged ==
  ASSUME NEW r, Numbered(r), NEW line, line.kind = "end", NEW number \in Nat
  PROVE  Judged(r, line, ReadEnd(r, number))
<1> DEFINE out == [r EXCEPT !.in_block = FALSE]
           read == ReadEnd(r, number)
<1>1. /\ Numbered(out) /\ out.errors = r.errors
      /\ out.stopped = r.stopped /\ out.done = r.done /\ out.seen_row = r.seen_row
      /\ out.screen = r.screen /\ out.coords = r.coords /\ out.in_block = FALSE
      /\ out.seen_else = r.seen_else /\ out.block = r.block
  BY DEF Numbered, IsReader
<1>2. read = IF r.in_block THEN OpenSegment(out, Always) ELSE Fail(r, number)
  BY Zenon DEF ReadEnd
<1> HIDE DEF out, read
<1>3. Accepts(r, line) <=> r.in_block
  BY DEF Accepts
<1>4. ASSUME ~Accepts(r, line) PROVE Judged(r, line, read)
  BY <1>2, <1>3, <1>4, Failing, Zenon DEF Judged
<1>5. ASSUME Accepts(r, line) PROVE Judged(r, line, read)
  <2>1. read = OpenSegment(out, Always)
    BY <1>2, <1>3, <1>5, Zenon
  <2>2. /\ read.errors = out.errors /\ read.block_line = out.block_line
        /\ read.stopped = out.stopped /\ read.done = out.done
        /\ read.seen_row = out.seen_row /\ read.screen = out.screen
        /\ read.coords = out.coords /\ read.in_block = out.in_block
        /\ read.seen_else = out.seen_else /\ read.block = out.block
        /\ IsReader(read)
    BY <1>1, <2>1, AlwaysIsSelector, SegmentNoted, SegmentOpened, Zenon DEF Numbered
  <2>3. Numbered(read)
    BY <1>1, <2>2, Zenon DEF Numbered
  <2>4. Notes(r, read, line)
    BY <1>1, <2>2 DEF Notes
  <2> QED BY <1>1, <1>5, <2>2, <2>3, <2>4, Zenon DEF Judged
<1>6. Judged(r, line, read)
  BY <1>4, <1>5, Zenon
<1> QED BY <1>6 DEF read

LEMMA DirectiveJudged ==
  ASSUME NEW r, Numbered(r), NEW line, NEW number \in Nat
  PROVE  /\ line.kind = "screen" => Judged(r, line, ReadScreen(r, line, number))
         /\ line.kind = "coords" => Judged(r, line, ReadCoords(r, line, number))
         /\ line.kind = "format" => Judged(r, line, ReadFormat(r, line, number))
         /\ line.kind = "blank" => Judged(r, line, r)
         /\ line.kind \in {"screen_comment", "unknown"} => Judged(r, line, Fail(r, number))
<1>1. Numbered(Fail(r, number)) /\ Fail(r, number).errors # <<>>
  BY Failing
<1>2. ASSUME line.kind = "screen" PROVE Judged(r, line, ReadScreen(r, line, number))
  <2> DEFINE read == [r EXCEPT !.screen = TRUE]
  <2>1. Accepts(r, line) <=> ~(r.seen_row \/ r.screen \/ r.coords = "normalized" \/ ~line.shape)
    <3>1. Accepts(r, line) <=> ~r.seen_row /\ line.shape /\ ~r.screen /\ r.coords # "normalized"
      BY <1>2 DEF Accepts
    <3> QED BY <3>1, Zenon
  <2>2. Numbered(read) /\ read.errors = r.errors
    BY DEF Numbered, IsReader
  <2>3. Notes(r, read, line)
    BY <1>2 DEF Notes, Numbered, IsReader
  <2> HIDE DEF read
  <2>4. ReadScreen(r, line, number) = IF Accepts(r, line) THEN read ELSE Fail(r, number)
    BY <2>1, Zenon DEF ReadScreen, read
  <2> QED BY <1>1, <2>2, <2>3, <2>4, Zenon DEF Judged
<1>3. ASSUME line.kind = "coords" PROVE Judged(r, line, ReadCoords(r, line, number))
  <2> DEFINE read == [r EXCEPT !.coords = line.coords]
  <2>1. Accepts(r, line) <=>
          ~(\/ r.seen_row \/ r.coords # "none" \/ line.coords \notin {"normalized", "integer"}
            \/ line.coords = "normalized" /\ r.screen)
    <3>1. Accepts(r, line) <=> /\ ~r.seen_row /\ r.coords = "none"
                               /\ line.coords \in {"normalized", "integer"}
                               /\ line.coords = "normalized" => ~r.screen
      BY <1>3 DEF Accepts
    <3> QED BY <3>1, Zenon
  <2>2. Numbered(read) /\ read.errors = r.errors
    BY DEF Numbered, IsReader
  <2>3. Notes(r, read, line)
    BY <1>3 DEF Notes, Numbered, IsReader
  <2> HIDE DEF read
  <2>4. ReadCoords(r, line, number) = IF Accepts(r, line) THEN read ELSE Fail(r, number)
    BY <2>1, Zenon DEF ReadCoords, read
  <2> QED BY <1>1, <2>2, <2>3, <2>4, Zenon DEF Judged
<1>4. ASSUME line.kind = "format" PROVE Judged(r, line, ReadFormat(r, line, number))
  <2>1. Accepts(r, line) <=> ~(r.seen_row \/ ~line.shape)
    <3>1. Accepts(r, line) <=> ~r.seen_row /\ line.shape
      BY <1>4 DEF Accepts
    <3> QED BY <3>1, Zenon
  <2>2. Notes(r, r, line)
    BY <1>4 DEF Notes, Numbered, IsReader
  <2>3. ReadFormat(r, line, number) = IF Accepts(r, line) THEN r ELSE Fail(r, number)
    BY <2>1, Zenon DEF ReadFormat
  <2> QED BY <1>1, <2>2, <2>3, Zenon DEF Judged
<1>5. ASSUME line.kind = "blank" PROVE Judged(r, line, r)
  <2>1. Accepts(r, line) /\ Notes(r, r, line)
    BY <1>5 DEF Accepts, Notes, Numbered, IsReader
  <2> QED BY <2>1, Zenon DEF Judged
<1>6. ASSUME line.kind \in {"screen_comment", "unknown"} PROVE Judged(r, line, Fail(r, number))
  <2>1. ~Accepts(r, line)
    BY <1>6 DEF Accepts
  <2> QED BY <1>1, <2>1, Zenon DEF Judged
<1> QED BY <1>2, <1>3, <1>4, <1>5, <1>6, Zenon

\* A line of the file, as far as load() depends on it.
IsLine(line) ==
  /\ line.kind \in LineKinds
  /\ line.kind \in {"row", "wait"} => line.wait \in Nat \union {Malformed}
  /\ line.kind \in {"lap", "every"} => IsHead(line)

LEMMA LineJudged ==
  ASSUME NEW r, Numbered(r), NEW line, IsLine(line), NEW number \in Nat
  PROVE  Judged(r, line, ReadLine(r, line, number))
<1>1. CASE line.kind \in {"row", "wait"}
  <2>1. ReadLine(r, line, number) = ReadRow(r, line, number)
    BY <1>1 DEF ReadLine
  <2>2. Judged(r, line, ReadRow(r, line, number))
    BY <1>1, DataJudged
  <2> QED BY <2>1, <2>2, Zenon
<1>2. CASE line.kind \in {"lap", "every"}
  <2>1. ReadLine(r, line, number) = ReadBlock(r, line, number)
    BY <1>2 DEF ReadLine
  <2>2. IsHead(line)
    BY <1>2 DEF IsLine
  <2>3. Judged(r, line, ReadBlock(r, line, number))
    BY <1>2, <2>2, BlockJudged
  <2> QED BY <2>1, <2>3, Zenon
<1>3. CASE line.kind = "else"
  <2>1. ReadLine(r, line, number) = ReadElse(r, number)
    BY <1>3 DEF ReadLine
  <2> QED BY <1>3, <2>1, ElseJudged, Zenon
<1>4. CASE line.kind = "end"
  <2>1. ReadLine(r, line, number) = ReadEnd(r, number)
    BY <1>4 DEF ReadLine
  <2> QED BY <1>4, <2>1, EndJudged, Zenon
<1>5. CASE line.kind = "screen"
  <2>1. ReadLine(r, line, number) = ReadScreen(r, line, number)
    BY <1>5 DEF ReadLine
  <2> QED BY <1>5, <2>1, DirectiveJudged, Zenon
<1>6. CASE line.kind = "coords"
  <2>1. ReadLine(r, line, number) = ReadCoords(r, line, number)
    BY <1>6 DEF ReadLine
  <2> QED BY <1>6, <2>1, DirectiveJudged, Zenon
<1>7. CASE line.kind = "format"
  <2>1. ReadLine(r, line, number) = ReadFormat(r, line, number)
    BY <1>7 DEF ReadLine
  <2> QED BY <1>7, <2>1, DirectiveJudged, Zenon
<1>8. CASE line.kind = "blank"
  <2>1. ReadLine(r, line, number) = r
    BY <1>8 DEF ReadLine
  <2> QED BY <1>8, <2>1, DirectiveJudged, Zenon
<1>9. CASE line.kind \in {"screen_comment", "unknown"}
  <2>1. ReadLine(r, line, number) = Fail(r, number)
    BY <1>9 DEF ReadLine
  <2> QED BY <1>9, <2>1, DirectiveJudged, Zenon
<1> QED BY <1>1, <1>2, <1>3, <1>4, <1>5, <1>6, <1>7, <1>8, <1>9 DEF IsLine, LineKinds

-----------------------------------------------------------------------------
(* What the format asks of the file, and of one more line                  *)

\* Every line of every alphabet.
AllLines == UNION {Alphabets[a] : a \in DOMAIN Alphabets}

LEMMA LinesAreLines == \A line \in AllLines : IsLine(line)
<1> SUFFICES ASSUME NEW a \in DOMAIN Alphabets, NEW line \in Alphabets[a] PROVE IsLine(line)
  BY Zenon DEF AllLines
<1> QED BY ReaderAssumption, Zenon DEF IsLine, IsHead

\* One line more.
Grows(line) == lines \in Seq(AllLines) /\ line \in AllLines /\ lines' = Append(lines, line)

\* Its number.
Number == Len(lines) + 1

LEMMA LinesGrow ==
  ASSUME NEW line, Grows(line)
  PROVE  /\ Number \in Nat /\ Number >= 1 /\ Number' = Number + 1
         /\ DOMAIN lines = 1..(Number - 1) /\ DOMAIN lines' = 1..Number
         /\ lines'[Number] = line /\ \A i \in 1..(Number - 1) : lines'[i] = lines[i]
         /\ lines' \in Seq(AllLines)
  BY DEF Grows, Number

LEMMA KindsGrow ==
  ASSUME NEW line, Grows(line), NEW kinds
  PROVE  /\ Kinds(kinds) \subseteq 1..(Number - 1)
         /\ Kinds(kinds)' = Kinds(kinds) \union (IF line.kind \in kinds THEN {Number} ELSE {})
<1>1. Kinds(kinds)' = {i \in 1..Number : lines'[i].kind \in kinds}
  BY LinesGrow, Zenon DEF Kinds
<1>2. Kinds(kinds) = {i \in 1..(Number - 1) : lines[i].kind \in kinds}
  BY LinesGrow, Zenon DEF Kinds
<1>3. Number \in Nat /\ Number >= 1 /\ lines'[Number] = line /\ \A i \in 1..(Number - 1) : lines'[i] = lines[i]
  BY LinesGrow
<1>4. \A i : i \in 1..Number <=> i \in 1..(Number - 1) \/ i = Number
  BY <1>3
<1>5. \A i : i \in Kinds(kinds)' <=> (i \in Kinds(kinds) \/ (i = Number /\ line.kind \in kinds))
  <2> TAKE i
  <2>1. CASE i = Number
    <3>1. i \notin 1..(Number - 1) /\ i \in 1..Number
      BY <2>1, <1>3
    <3> QED BY <1>1, <1>2, <1>3, <2>1, <3>1, Zenon
  <2>2. CASE i # Number
    BY <1>1, <1>2, <1>3, <1>4, <2>2, Zenon
  <2> QED BY <2>1, <2>2
<1>6. Kinds(kinds)' = Kinds(kinds) \union (IF line.kind \in kinds THEN {Number} ELSE {})
  <2> SUFFICES ASSUME NEW i
               PROVE  i \in Kinds(kinds)' <=>
                        i \in Kinds(kinds) \union (IF line.kind \in kinds THEN {Number} ELSE {})
    BY Zenon
  <2> QED BY <1>5, Zenon
<1> QED BY <1>2, <1>6, Zenon

\* The heads of the blocks a line may be in.
Heads(i) ==
  {j \in Kinds({"lap", "every"}) : j < i /\ {k \in Kinds({"end"}) : j < k /\ k < i} = {}}

LEMMA OpenerIs ==
  ASSUME lines \in Seq(AllLines), NEW i
  PROVE  /\ OpenerOf(i) = 0 <=> Heads(i) = {}
         /\ OpenerOf(i) # 0 => OpenerOf(i) \in Heads(i) /\ \A j \in Heads(i) : OpenerOf(i) <= j
         /\ OpenerOf(i) \in Nat
<1>1. OpenerOf(i) = Least(Heads(i))
  BY DEF OpenerOf, Heads
<1>2. \A j \in Heads(i) : j \in Nat /\ j # 0
  BY DEF Heads, Kinds
<1>3. CASE Heads(i) = {}
  BY <1>1, <1>3 DEF Least
<1>4. CASE Heads(i) # {}
  <2>1. Heads(i) \subseteq Nat
    BY <1>2
  <2>2. Min(Heads(i)) \in Heads(i) /\ \A j \in Heads(i) : Min(Heads(i)) <= j
    BY <1>4, <2>1, LeastNumber, Zenon
  <2>3. OpenerOf(i) = Min(Heads(i))
    BY <1>1, <1>4, Zenon DEF Least
  <2> QED BY <1>2, <1>4, <2>2, <2>3, Zenon
<1> QED BY <1>3, <1>4

\* The block that the next line would be in.
Open == OpenerOf(Number)

LEMMA OpenersGrow ==
  ASSUME NEW line, Grows(line), NEW n, n = Number
  PROVE  /\ \A i \in 1..n : Heads(i)' = Heads(i) /\ OpenerOf(i)' = OpenerOf(i)
         /\ line.kind = "end" => Open' = 0
         /\ line.kind \in {"lap", "every"} /\ Open = 0 => Open' = n
         /\ line.kind \notin {"lap", "every", "end"} => Open' = Open
<1>1. /\ n \in Nat /\ n >= 1 /\ Number' = n + 1
      /\ lines \in Seq(AllLines) /\ lines' \in Seq(AllLines)
  BY LinesGrow DEF Grows
<1>2. /\ Kinds({"lap", "every"}) \subseteq 1..(n - 1) /\ Kinds({"end"}) \subseteq 1..(n - 1)
      /\ Kinds({"lap", "every"})' =
           Kinds({"lap", "every"}) \union (IF line.kind \in {"lap", "every"} THEN {n} ELSE {})
      /\ Kinds({"end"})' = Kinds({"end"}) \union (IF line.kind \in {"end"} THEN {n} ELSE {})
  BY KindsGrow, Zenon
<1>3. ASSUME NEW i \in 1..n PROVE Heads(i)' = Heads(i) /\ OpenerOf(i)' = OpenerOf(i)
  <2>1. Heads(i)' = Heads(i)
    BY <1>1, <1>2 DEF Heads
  <2>2. OpenerOf(i) = Least(Heads(i)) /\ OpenerOf(i)' = Least(Heads(i)')
    BY DEF OpenerOf, Heads
  <2> QED BY <2>1, <2>2
<1>4. Open = Least(Heads(n)) /\ Open' = Least(Heads(n + 1)')
  <2>1. Open = OpenerOf(n) /\ Open' = OpenerOf(n + 1)'
    BY <1>1 DEF Open
  <2> QED BY <2>1 DEF OpenerOf, Heads
<1>5. CASE line.kind = "end"
  <2>1. Heads(n + 1)' = {}
    <3>1. /\ Kinds({"end"})' = Kinds({"end"}) \union {n}
          /\ Kinds({"lap", "every"})' = Kinds({"lap", "every"})
      BY <1>2, <1>5
    <3>2. ASSUME NEW j \in Kinds({"lap", "every"})' PROVE j < n /\ n < n + 1 /\ n \in Kinds({"end"})'
      BY <1>1, <1>2, <3>1
    <3> QED BY <3>2, Zenon DEF Heads
  <2>2. Open' = 0
    BY <1>4, <2>1 DEF Least
  <2> QED BY <1>3, <1>5, <2>2
<1>6. CASE line.kind \in {"lap", "every"}
  <2>1. Heads(n + 1)' = Heads(n) \union {n}
    <3>1. line.kind \notin {"end"}
      BY <1>6
    <3> QED BY <1>1, <1>2, <1>6, <3>1 DEF Heads
  <2>2. ASSUME Open = 0 PROVE Open' = n
    <3>1. Heads(n) = {}
      BY <1>1, <2>2, OpenerIs DEF Open
    <3>2. Heads(n + 1)' = {n} /\ Min({n}) = n /\ {n} # {}
      BY <1>1, <2>1, <3>1, LeastNumber
    <3> QED BY <1>4, <3>2, Zenon DEF Least
  <2> QED BY <1>3, <1>6, <2>2
<1>7. CASE line.kind \notin {"lap", "every", "end"}
  <2>1. Heads(n + 1)' = Heads(n)
    BY <1>1, <1>2, <1>7 DEF Heads
  <2> QED BY <1>3, <1>4, <1>7, <2>1
<1> QED BY <1>5, <1>6, <1>7

\* The format, part by part.
Known == Kinds({"unknown", "screen_comment"}) = {}

\* The format's conditions on the rows and the waits.
DataFits ==
  /\ \A i \in Kinds({"row"}) : lines[i].shape
  /\ \A i \in Kinds({"row", "wait"}) : lines[i].wait # Malformed

\* A @lap or @every line stands outside every block, and its numbers make sense.
HeadsFit == \A i \in Kinds({"lap", "every"}) : OpenerOf(i) = 0 /\ Block(lines[i]) # None

\* A line that ends or turns a block stands in one.
InBlocks == \A i \in Kinds({"end", "else"}) : OpenerOf(i) # 0

\* An @else turns a block without keep-time, and only once.
ElsesFit ==
  \A i \in Kinds({"else"}) :
    /\ ~lines[OpenerOf(i)].keep_time
    /\ \A k \in Kinds({"else"}) \ {i} : OpenerOf(k) # OpenerOf(i)

\* The lines that ask for normalized coordinates.
Fraction == {i \in Kinds({"coords"}) : lines[i].coords = "normalized"}

\* The coordinates the rows of the file must have.
CoordsHere == IF Fraction # {} THEN "fraction" ELSE "integer"

\* What holds of the beginning of a file: all but that its blocks end.
Prefix == Known /\ DataFits /\ HeadsFit /\ InBlocks /\ ElsesFit /\ DirectivesComeOnce

LEMMA KnownGrows ==
  ASSUME NEW line, Grows(line)
  PROVE  Known' <=> Known /\ line.kind \notin {"screen_comment", "unknown"}
<1>1. Kinds({"unknown", "screen_comment"})' =
        Kinds({"unknown", "screen_comment"})
          \union (IF line.kind \in {"unknown", "screen_comment"} THEN {Number} ELSE {})
  BY KindsGrow, Zenon
<1> QED BY <1>1 DEF Known

LEMMA DataGrows ==
  ASSUME NEW line, Grows(line)
  PROVE  DataFits' <=> /\ DataFits /\ (line.kind = "row" => line.shape)
                       /\ line.kind \in {"row", "wait"} => line.wait # Malformed
<1> PICK n : n = Number
  OBVIOUS
<1>1. /\ Kinds({"row"})' = Kinds({"row"}) \union (IF line.kind \in {"row"} THEN {n} ELSE {})
      /\ Kinds({"row", "wait"})' =
           Kinds({"row", "wait"}) \union (IF line.kind \in {"row", "wait"} THEN {n} ELSE {})
      /\ Kinds({"row"}) \subseteq 1..(n - 1) /\ Kinds({"row", "wait"}) \subseteq 1..(n - 1)
  BY KindsGrow, Zenon
<1>2. lines'[n] = line /\ \A i \in 1..(n - 1) : lines'[i] = lines[i]
  BY LinesGrow, Zenon
<1>3. (\A i \in Kinds({"row"})' : lines'[i].shape)
        <=> (\A i \in Kinds({"row"}) : lines[i].shape) /\ (line.kind \in {"row"} => line.shape)
  BY <1>1, <1>2, Zenon
<1>4. (\A i \in Kinds({"row", "wait"})' : lines'[i].wait # Malformed)
        <=> /\ \A i \in Kinds({"row", "wait"}) : lines[i].wait # Malformed
            /\ line.kind \in {"row", "wait"} => line.wait # Malformed
  BY <1>1, <1>2, Zenon
<1>5. DataFits' <=> /\ \A i \in Kinds({"row"})' : lines'[i].shape
                    /\ \A i \in Kinds({"row", "wait"})' : lines'[i].wait # Malformed
  BY Zenon DEF DataFits
<1>6. line.kind \in {"row"} <=> line.kind = "row"
  OBVIOUS
<1> QED BY <1>3, <1>4, <1>5, <1>6, Zenon DEF DataFits

LEMMA HeadsGrow ==
  ASSUME NEW line, Grows(line)
  PROVE  HeadsFit' <=> /\ HeadsFit
                       /\ line.kind \in {"lap", "every"} => Open = 0 /\ Block(line) # None
<1> PICK n : n = Number
  OBVIOUS
<1> DEFINE K == Kinds({"lap", "every"})
<1>1. K' = K \union (IF line.kind \in {"lap", "every"} THEN {n} ELSE {}) /\ K \subseteq 1..(n - 1)
  BY KindsGrow, Zenon
<1>2. lines'[n] = line /\ \A i \in 1..(n - 1) : lines'[i] = lines[i]
  BY LinesGrow, Zenon
<1>3. \A i \in 1..n : OpenerOf(i)' = OpenerOf(i)
  BY OpenersGrow, Zenon
<1>4. n \in 1..n /\ \A i \in 1..(n - 1) : i \in 1..n
  BY LinesGrow
<1>5. Open = OpenerOf(n)
  BY DEF Open
<1>6. HeadsFit' <=> \A i \in K' : OpenerOf(i)' = 0 /\ Block(lines'[i]) # None
  BY DEF HeadsFit
<1>7. HeadsFit <=> \A i \in K : OpenerOf(i) = 0 /\ Block(lines[i]) # None
  BY Zenon DEF HeadsFit
<1> HIDE DEF K
<1> QED BY <1>1, <1>2, <1>3, <1>4, <1>5, <1>6, <1>7, Zenon

LEMMA BlocksGrow ==
  ASSUME NEW line, Grows(line)
  PROVE  InBlocks' <=> InBlocks /\ (line.kind \in {"end", "else"} => Open # 0)
<1> PICK n : n = Number
  OBVIOUS
<1> DEFINE K == Kinds({"end", "else"})
<1>1. K' = K \union (IF line.kind \in {"end", "else"} THEN {n} ELSE {}) /\ K \subseteq 1..(n - 1)
  BY KindsGrow, Zenon
<1>2. \A i \in 1..n : OpenerOf(i)' = OpenerOf(i)
  BY OpenersGrow, Zenon
<1>3. n \in 1..n /\ \A i \in 1..(n - 1) : i \in 1..n
  BY LinesGrow
<1>4. Open = OpenerOf(n)
  BY DEF Open
<1>5. InBlocks' <=> \A i \in K' : OpenerOf(i)' # 0
  BY DEF InBlocks
<1>6. InBlocks <=> \A i \in K : OpenerOf(i) # 0
  BY Zenon DEF InBlocks
<1> HIDE DEF K
<1> QED BY <1>1, <1>2, <1>3, <1>4, <1>5, <1>6, Zenon

\* A block that is there begins at one of the lines.
LEMMA OpenerThere ==
  ASSUME NEW line, Grows(line), NEW n, n = Number, NEW i \in 1..n, OpenerOf(i) # 0
  PROVE  OpenerOf(i) \in 1..(n - 1) /\ OpenerOf(i) < i /\ lines'[OpenerOf(i)] = lines[OpenerOf(i)]
<1>1. OpenerOf(i) \in Heads(i)
  BY OpenerIs, Zenon DEF Grows
<1>2. OpenerOf(i) \in Kinds({"lap", "every"}) /\ OpenerOf(i) < i
  BY <1>1, Zenon DEF Heads
<1>3. OpenerOf(i) \in 1..(n - 1)
  BY <1>2, KindsGrow, Zenon
<1> QED BY <1>2, <1>3, LinesGrow, Zenon

LEMMA ElsesGrow ==
  ASSUME NEW line, Grows(line), InBlocks, line.kind = "else" => Open # 0
  PROVE  ElsesFit' <=> /\ ElsesFit
                       /\ line.kind = "else" =>
                            /\ ~lines[Open].keep_time
                            /\ \A k \in Kinds({"else"}) : OpenerOf(k) # Open
<1> PICK n : n = Number
  OBVIOUS
<1> DEFINE K == Kinds({"else"})
<1>1. K' = K \union (IF line.kind \in {"else"} THEN {n} ELSE {}) /\ K \subseteq 1..(n - 1)
  BY KindsGrow, Zenon
<1>2. \A i \in 1..n : OpenerOf(i)' = OpenerOf(i)
  BY OpenersGrow, Zenon
<1>3. n \in 1..n /\ \A i \in 1..(n - 1) : i \in 1..n /\ i # n
  BY LinesGrow
<1>4. Open = OpenerOf(n)
  BY DEF Open
<1>5. ElsesFit' <=> \A i \in K' : /\ ~lines'[OpenerOf(i)'].keep_time
                                  /\ \A k \in K' \ {i} : OpenerOf(k)' # OpenerOf(i)'
  BY DEF ElsesFit
<1>6. ElsesFit <=> \A i \in K : /\ ~lines[OpenerOf(i)].keep_time
                                /\ \A k \in K \ {i} : OpenerOf(k) # OpenerOf(i)
  BY Zenon DEF ElsesFit
<1>7. \A i \in K : i \in Kinds({"end", "else"}) /\ OpenerOf(i) # 0
  <2>1. \A i \in K : i \in Kinds({"end", "else"})
    BY DEF Kinds
  <2> QED BY <2>1, Zenon DEF InBlocks
<1>8. \A i \in K : lines'[OpenerOf(i)] = lines[OpenerOf(i)]
  <2> TAKE i \in K
  <2> QED BY <1>1, <1>3, <1>7, OpenerThere, Zenon
<1>9. line.kind = "else" => lines'[Open] = lines[Open]
  BY <1>3, <1>4, OpenerThere, Zenon
<1>10. line.kind \in {"else"} <=> line.kind = "else"
  OBVIOUS
<1> HIDE DEF K
<1>11. CASE line.kind # "else"
  BY <1>1, <1>2, <1>3, <1>5, <1>6, <1>8, <1>10, <1>11, Zenon
<1>12. CASE line.kind = "else"
  <2>1. K' = K \union {n}
    BY <1>1, <1>10, <1>12, Zenon
  <2>2. ASSUME ElsesFit' PROVE ElsesFit /\ ~lines[Open].keep_time /\ \A k \in K : OpenerOf(k) # Open
    BY <1>1, <1>2, <1>3, <1>4, <1>5, <1>6, <1>8, <1>9, <1>12, <2>1, <2>2, Zenon
  <2>3. ASSUME ElsesFit, ~lines[Open].keep_time, \A k \in K : OpenerOf(k) # Open PROVE ElsesFit'
    <3> SUFFICES ASSUME NEW i \in K'
                 PROVE  /\ ~lines'[OpenerOf(i)'].keep_time
                        /\ \A k \in K' \ {i} : OpenerOf(k)' # OpenerOf(i)'
      BY <1>5, Zenon
    <3>1. CASE i = n
      BY <1>1, <1>2, <1>3, <1>4, <1>9, <1>12, <2>1, <2>3, <3>1, Zenon
    <3>2. CASE i # n
      BY <1>1, <1>2, <1>3, <1>4, <1>6, <1>8, <2>1, <2>3, <3>2, Zenon
    <3> QED BY <3>1, <3>2
  <2>4. K = Kinds({"else"})
    BY DEF K
  <2> QED BY <1>12, <2>2, <2>3, <2>4, Zenon
<1> QED BY <1>11, <1>12

\* What DirectivesComeOnce says, one by one.
Before    == \A i \in Kinds({"format", "screen", "coords"}) : \A j \in Kinds({"row", "wait"}) : i < j
Shaped    == \A i \in Kinds({"format", "screen"}) : lines[i].shape
Named     == \A i \in Kinds({"coords"}) : lines[i].coords \in {"normalized", "integer"}
OneScreen == \A i, j \in Kinds({"screen"}) : i = j
OneCoords == \A i, j \in Kinds({"coords"}) : i = j
Agree     == Kinds({"screen"}) = {} \/ Fraction = {}
RowsAgree == \A i \in Kinds({"row"}) : lines[i].coords \in {"any", CoordsHere}

LEMMA DirectivesAre ==
  DirectivesComeOnce <=>
    Before /\ Shaped /\ Named /\ OneScreen /\ OneCoords /\ Agree /\ RowsAgree
<1> DEFINE K == Kinds({"coords"})
           whole == {i \in K : lines[i].coords = "integer"}
<1>1. Named <=> K = Fraction \union whole
  <2>1. Fraction = {i \in K : lines[i].coords = "normalized"}
    BY DEF Fraction
  <2>2. Named <=> \A i \in K : lines[i].coords = "normalized" \/ lines[i].coords = "integer"
    BY DEF Named
  <2> HIDE DEF K
  <2>3. ASSUME Named PROVE K = Fraction \union whole
    BY <2>1, <2>2, <2>3
  <2>4. ASSUME K = Fraction \union whole PROVE Named
    BY <2>1, <2>2, <2>4
  <2> QED BY <2>3, <2>4
<1>2. DirectivesComeOnce <=>
        /\ Before /\ Shaped /\ K = Fraction \union whole /\ OneScreen /\ OneCoords
        /\ Agree /\ RowsAgree
  BY Zenon DEF DirectivesComeOnce, Before, Shaped, OneScreen, OneCoords, Agree, RowsAgree,
               Fraction, CoordsHere
<1> QED BY <1>1, <1>2, Zenon

\* What they ask of one more line.
DirectiveFits(line) ==
  /\ line.kind \in {"format", "screen", "coords"} => Kinds({"row", "wait"}) = {}
  /\ line.kind \in {"format", "screen"} => line.shape
  /\ line.kind = "screen" => Kinds({"screen"}) = {} /\ Fraction = {}
  /\ line.kind = "coords" =>
       /\ Kinds({"coords"}) = {} /\ line.coords \in {"normalized", "integer"}
       /\ line.coords = "normalized" => Kinds({"screen"}) = {}
  /\ line.kind = "row" => line.coords \in {"any", CoordsHere}

LEMMA FractionGrows ==
  ASSUME NEW line, Grows(line)
  PROVE  /\ Fraction' = Fraction \union
              (IF line.kind = "coords" /\ line.coords = "normalized" THEN {Number} ELSE {})
         /\ Fraction \subseteq Kinds({"coords"})
<1> PICK n : n = Number
  OBVIOUS
<1> DEFINE K == Kinds({"coords"})
<1>1. K' = K \union (IF line.kind \in {"coords"} THEN {n} ELSE {}) /\ K \subseteq 1..(n - 1)
  BY KindsGrow, Zenon
<1>2. lines'[n] = line /\ \A i \in 1..(n - 1) : lines'[i] = lines[i]
  BY LinesGrow, Zenon
<1>3. Fraction' = {i \in K' : lines'[i].coords = "normalized"}
  BY DEF Fraction
<1>4. Fraction = {i \in K : lines[i].coords = "normalized"}
  BY DEF Fraction
<1> HIDE DEF K
<1>5. Fraction' = Fraction \union
        (IF line.kind = "coords" /\ line.coords = "normalized" THEN {n} ELSE {})
  <2>1. CASE line.kind = "coords"
    <3>1. K' = K \union {n}
      BY <1>1, <2>1
    <3> QED BY <1>1, <1>2, <1>3, <1>4, <2>1, <3>1
  <2>2. CASE line.kind # "coords"
    <3>1. K' = K
      BY <1>1, <2>2
    <3> QED BY <1>1, <1>2, <1>3, <1>4, <2>2, <3>1
  <2> QED BY <2>1, <2>2
<1> QED BY <1>4, <1>5 DEF K

LEMMA DirectivesGrow ==
  ASSUME NEW line, Grows(line)
  PROVE  DirectivesComeOnce' <=> DirectivesComeOnce /\ DirectiveFits(line)
<1> PICK n : n = Number
  OBVIOUS
<1> DEFINE F == Kinds({"format", "screen", "coords"})
           D == Kinds({"row", "wait"})
           H == Kinds({"format", "screen"})
           S == Kinds({"screen"})
           C == Kinds({"coords"})
           R == Kinds({"row"})
<1>1. /\ F' = F \union (IF line.kind \in {"format", "screen", "coords"} THEN {n} ELSE {})
      /\ D' = D \union (IF line.kind \in {"row", "wait"} THEN {n} ELSE {})
      /\ H' = H \union (IF line.kind \in {"format", "screen"} THEN {n} ELSE {})
      /\ S' = S \union (IF line.kind \in {"screen"} THEN {n} ELSE {})
      /\ C' = C \union (IF line.kind \in {"coords"} THEN {n} ELSE {})
      /\ R' = R \union (IF line.kind \in {"row"} THEN {n} ELSE {})
  BY KindsGrow, Zenon
<1>2. /\ F \subseteq 1..(n - 1) /\ D \subseteq 1..(n - 1) /\ H \subseteq 1..(n - 1)
      /\ S \subseteq 1..(n - 1) /\ C \subseteq 1..(n - 1) /\ R \subseteq 1..(n - 1)
      /\ R \subseteq D
  <2>1. R \subseteq D
    BY DEF Kinds
  <2> QED BY <2>1, KindsGrow, Zenon
<1>3. lines'[n] = line /\ \A i \in 1..(n - 1) : lines'[i] = lines[i]
  BY LinesGrow, Zenon
<1>4. n \in Nat /\ \A i \in 1..(n - 1) : i < n /\ i # n /\ ~(n < i) /\ i \in Nat
  BY LinesGrow
<1>5. /\ Fraction' = Fraction \union
           (IF line.kind = "coords" /\ line.coords = "normalized" THEN {n} ELSE {})
      /\ Fraction \subseteq C
  BY FractionGrows, Zenon
<1>6. /\ DirectivesComeOnce <=>
           Before /\ Shaped /\ Named /\ OneScreen /\ OneCoords /\ Agree /\ RowsAgree
      /\ DirectivesComeOnce' <=>
           Before' /\ Shaped' /\ Named' /\ OneScreen' /\ OneCoords' /\ Agree' /\ RowsAgree'
  BY DirectivesAre, PTL
<1>7. Before' <=> Before /\ (line.kind \in {"format", "screen", "coords"} => D = {})
  <2>1. Before' <=> \A i \in F' : \A j \in D' : i < j
    BY DEF Before
  <2>2. Before <=> \A i \in F : \A j \in D : i < j
    BY DEF Before
  <2> HIDE DEF F, D
  <2>3. line.kind \in {"format", "screen", "coords"} => ~(line.kind \in {"row", "wait"})
    OBVIOUS
  <2>4. CASE line.kind \in {"format", "screen", "coords"}
    BY <1>1, <1>2, <1>4, <2>1, <2>2, <2>3, <2>4, Zenon
  <2>5. CASE ~(line.kind \in {"format", "screen", "coords"})
    BY <1>1, <1>2, <1>4, <2>1, <2>2, <2>5, Zenon
  <2> QED BY <2>4, <2>5
<1>8. Shaped' <=> Shaped /\ (line.kind \in {"format", "screen"} => line.shape)
  <2>1. (Shaped' <=> \A i \in H' : lines'[i].shape) /\ (Shaped <=> \A i \in H : lines[i].shape)
    BY DEF Shaped
  <2> HIDE DEF H
  <2> QED BY <1>1, <1>2, <1>3, <2>1, Zenon
<1>9. Named' <=> Named /\ (line.kind = "coords" => line.coords \in {"normalized", "integer"})
  <2>1. /\ Named' <=> \A i \in C' : lines'[i].coords \in {"normalized", "integer"}
        /\ Named <=> \A i \in C : lines[i].coords \in {"normalized", "integer"}
    BY DEF Named
  <2>2. line.kind \in {"coords"} <=> line.kind = "coords"
    OBVIOUS
  <2> HIDE DEF C
  <2> QED BY <1>1, <1>2, <1>3, <2>1, <2>2, Zenon
<1>10. /\ OneScreen' <=> OneScreen /\ (line.kind = "screen" => S = {})
       /\ OneCoords' <=> OneCoords /\ (line.kind = "coords" => C = {})
  <2>1. /\ (OneScreen' <=> \A i, j \in S' : i = j) /\ (OneScreen <=> \A i, j \in S : i = j)
        /\ (OneCoords' <=> \A i, j \in C' : i = j) /\ (OneCoords <=> \A i, j \in C : i = j)
    BY DEF OneScreen, OneCoords
  <2>2. /\ line.kind \in {"coords"} <=> line.kind = "coords"
        /\ line.kind \in {"screen"} <=> line.kind = "screen"
    OBVIOUS
  <2> HIDE DEF C, S
  <2>3. OneScreen' <=> OneScreen /\ (line.kind = "screen" => S = {})
    BY <1>1, <1>2, <1>4, <2>1, <2>2, Zenon
  <2>4. OneCoords' <=> OneCoords /\ (line.kind = "coords" => C = {})
    BY <1>1, <1>2, <1>4, <2>1, <2>2, Zenon
  <2> QED BY <2>3, <2>4
<1>11. Agree' <=> /\ Agree /\ (line.kind = "screen" => Fraction = {})
                  /\ line.kind = "coords" /\ line.coords = "normalized" => S = {}
  <2>1. (Agree' <=> S' = {} \/ Fraction' = {}) /\ (Agree <=> S = {} \/ Fraction = {})
    BY DEF Agree
  <2>2. line.kind \in {"screen"} <=> line.kind = "screen"
    OBVIOUS
  <2> HIDE DEF S
  <2>3. CASE line.kind = "screen"
    <3>1. S' # {} /\ Fraction' = Fraction
      BY <1>1, <1>5, <2>3
    <3> QED BY <2>1, <2>3, <3>1
  <2>4. CASE line.kind = "coords"
    <3>1. S' = S
      BY <1>1, <2>4
    <3>2. CASE line.coords = "normalized"
      <4>1. Fraction' # {}
        BY <1>5, <2>4, <3>2
      <4> QED BY <2>1, <2>4, <3>1, <3>2, <4>1
    <3>3. CASE line.coords # "normalized"
      <4>1. Fraction' = Fraction
        BY <1>5, <2>4, <3>3
      <4> QED BY <2>1, <2>4, <3>1, <3>3, <4>1
    <3> QED BY <3>2, <3>3
  <2>5. CASE line.kind # "screen" /\ line.kind # "coords"
    <3>1. S' = S /\ Fraction' = Fraction
      BY <1>1, <1>5, <2>5
    <3> QED BY <2>1, <2>5, <3>1
  <2> QED BY <2>3, <2>4, <2>5
<1>12. ASSUME line.kind \in {"format", "screen", "coords"} => D = {}
       PROVE  RowsAgree' <=> RowsAgree /\ (line.kind = "row" => line.coords \in {"any", CoordsHere})
  <2>1. RowsAgree' <=> \A i \in R' : lines'[i].coords \in {"any", CoordsHere'}
    BY DEF RowsAgree
  <2>2. RowsAgree <=> \A i \in R : lines[i].coords \in {"any", CoordsHere}
    BY DEF RowsAgree
  <2>3. CASE line.kind = "coords"
    <3>1. R = {} /\ R' = {}
      <4> HIDE DEF R, D
      <4> QED BY <1>1, <1>2, <1>12, <2>3
    <3> QED BY <2>1, <2>2, <2>3, <3>1
  <2>4. CASE line.kind # "coords"
    <3>1. CoordsHere' = CoordsHere
      <4>1. Fraction' = Fraction
        BY <1>5, <2>4
      <4> QED BY <4>1 DEF CoordsHere
    <3>2. line.kind \in {"row"} <=> line.kind = "row"
      OBVIOUS
    <3> HIDE DEF R
    <3> QED BY <1>1, <1>2, <1>3, <2>1, <2>2, <3>1, <3>2, Zenon
  <2> QED BY <2>3, <2>4
<1>13. line.kind \in {"format", "screen", "coords"} =>
         (line.kind = "coords" \/ line.kind = "screen" \/ line.kind = "format")
  OBVIOUS
<1>14. DirectiveFits(line) <=>
         /\ line.kind \in {"format", "screen", "coords"} => D = {}
         /\ line.kind \in {"format", "screen"} => line.shape
         /\ line.kind = "screen" => S = {} /\ Fraction = {}
         /\ line.kind = "coords" =>
              /\ C = {} /\ line.coords \in {"normalized", "integer"}
              /\ line.coords = "normalized" => S = {}
         /\ line.kind = "row" => line.coords \in {"any", CoordsHere}
  BY Zenon DEF DirectiveFits
<1> HIDE DEF F, D, H, S, C, R
<1> QED BY <1>6, <1>7, <1>8, <1>9, <1>10, <1>11, <1>12, <1>14, Zenon

\* What the format asks of one more line.
Fits(line) ==
  /\ line.kind \notin {"screen_comment", "unknown"}
  /\ line.kind = "row" => line.shape
  /\ line.kind \in {"row", "wait"} => line.wait # Malformed
  /\ line.kind \in {"lap", "every"} => Open = 0 /\ Block(line) # None
  /\ line.kind \in {"end", "else"} => Open # 0
  /\ line.kind = "else" =>
       /\ ~lines[Open].keep_time
       /\ \A k \in Kinds({"else"}) : OpenerOf(k) # Open
  /\ DirectiveFits(line)

LEMMA PrefixGrows ==
  ASSUME NEW line, Grows(line) PROVE Prefix' <=> Prefix /\ Fits(line)
<1>1. Prefix' <=> Known' /\ DataFits' /\ HeadsFit' /\ InBlocks' /\ ElsesFit' /\ DirectivesComeOnce'
  BY DEF Prefix
<1>2. line.kind = "else" => line.kind \in {"end", "else"}
  OBVIOUS
<1>3. ASSUME InBlocks, line.kind \in {"end", "else"} => Open # 0
      PROVE  ElsesFit' <=> /\ ElsesFit
                           /\ line.kind = "else" =>
                                /\ ~lines[Open].keep_time
                                /\ \A k \in Kinds({"else"}) : OpenerOf(k) # Open
  BY <1>2, <1>3, ElsesGrow, Zenon
<1> QED BY <1>1, <1>3, KnownGrows, DataGrows, HeadsGrow, BlocksGrow, DirectivesGrow, Zenon DEF Prefix, Fits

\* What load() remembers of the lines it has accepted.
Remembers ==
  /\ ~reader.stopped
  /\ reader.seen_row <=> Kinds({"row", "wait"}) # {}
  /\ reader.screen <=> Kinds({"screen"}) # {}
  /\ reader.coords = "none" <=> Kinds({"coords"}) = {}
  /\ reader.coords = "normalized" <=> Fraction # {}
  /\ reader.in_block <=> Open # 0
  /\ reader.in_block => reader.block = Block(lines[Open])[1]
  /\ reader.in_block => (reader.seen_else <=> \E k \in Kinds({"else"}) : OpenerOf(k) = Open)

LEMMA BlockKeeps ==
  ASSUME NEW line, line.kind \in {"lap", "every"}, Block(line) # None
  PROVE  Block(line)[1].keep_time = line.keep_time
<1>1. ASSUME NEW a, NEW b, NEW c, Block(line) = <<Laps(a, b, c, line.keep_time)>>
      PROVE  Block(line)[1].keep_time = line.keep_time
  BY <1>1 DEF Laps
<1>2. CASE line.kind = "lap"
  <2>1. Block(line) = LapBlock(line)
    BY <1>2, Zenon DEF Block
  <2> QED BY <1>1, <2>1, Zenon DEF LapBlock
<1>3. CASE line.kind = "every"
  <2>1. line.kind # "lap"
    BY <1>3
  <2>2. Block(line) = EveryBlock(line)
    BY <2>1, Zenon DEF Block
  <2> QED BY <1>1, <2>2, Zenon DEF EveryBlock
<1> QED BY <1>2, <1>3

\* The line that opened the block is a head.
LEMMA OpenIsHead ==
  ASSUME lines \in Seq(AllLines), Prefix, Open # 0
  PROVE  /\ Open \in Kinds({"lap", "every"}) /\ lines[Open].kind \in {"lap", "every"}
         /\ Block(lines[Open]) # None
<1>1. Open \in Heads(Number)
  BY OpenerIs, Zenon DEF Open
<1>2. Open \in Kinds({"lap", "every"})
  BY <1>1, Zenon DEF Heads
<1>3. lines[Open].kind \in {"lap", "every"}
  BY <1>2, Zenon DEF Kinds
<1> QED BY <1>2, <1>3, Zenon DEF Prefix, HeadsFit

LEMMA ReaderJudgesAlike ==
  ASSUME NEW line, IsLine(line), lines \in Seq(AllLines), Prefix, Remembers
  PROVE  Accepts(reader, line) <=> Fits(line)
<1>1. line.kind = "row" => (RowFits(reader, line) <=>
        line.shape /\ line.wait # Malformed /\ line.coords \in {"any", CoordsHere})
  <2>1. CoordsHere = IF reader.coords = "normalized" THEN "fraction" ELSE "integer"
    BY Zenon DEF CoordsHere, Remembers
  <2> QED BY <2>1, Zenon DEF RowFits
<1>2. reader.in_block => reader.block.keep_time = lines[Open].keep_time
  <2>1. ASSUME reader.in_block PROVE reader.block.keep_time = lines[Open].keep_time
    <3>1. Open # 0 /\ reader.block = Block(lines[Open])[1]
      BY <2>1, Zenon DEF Remembers
    <3>2. lines[Open].kind \in {"lap", "every"} /\ Block(lines[Open]) # None
      BY <3>1, OpenIsHead, Zenon
    <3>3. Block(lines[Open])[1].keep_time = lines[Open].keep_time
      BY <3>2, BlockKeeps
    <3> QED BY <3>1, <3>3, Zenon
  <2> QED BY <2>1
<1>3. CASE line.kind = "row"
  <2>1. Accepts(reader, line) <=> RowFits(reader, line)
    BY <1>3 DEF Accepts
  <2>2. Fits(line) <=> line.shape /\ line.wait # Malformed /\ line.coords \in {"any", CoordsHere}
    BY <1>3 DEF Fits, DirectiveFits
  <2> QED BY <1>1, <1>3, <2>1, <2>2, Zenon
<1>4. CASE line.kind = "wait"
  BY <1>4 DEF Fits, DirectiveFits, Accepts
<1>5. CASE line.kind \in {"lap", "every"}
  <2>1. Accepts(reader, line) <=> ~reader.in_block /\ Block(line) # None
    BY <1>5 DEF Accepts
  <2>2. Fits(line) <=> Open = 0 /\ Block(line) # None
    BY <1>5 DEF Fits, DirectiveFits
  <2> QED BY <2>1, <2>2, Zenon DEF Remembers
<1>6. CASE line.kind = "else"
  <2>1. Accepts(reader, line) <=> reader.in_block /\ ~reader.seen_else /\ ~reader.block.keep_time
    BY <1>6 DEF Accepts
  <2>2. Fits(line) <=> /\ Open # 0 /\ ~lines[Open].keep_time
                       /\ \A k \in Kinds({"else"}) : OpenerOf(k) # Open
    BY <1>6 DEF Fits, DirectiveFits
  <2> QED BY <1>2, <2>1, <2>2, Zenon DEF Remembers
<1>7. CASE line.kind = "end"
  <2>1. Accepts(reader, line) <=> reader.in_block
    BY <1>7 DEF Accepts
  <2>2. Fits(line) <=> Open # 0
    BY <1>7 DEF Fits, DirectiveFits
  <2> QED BY <2>1, <2>2, Zenon DEF Remembers
<1>8. CASE line.kind = "screen"
  <2>1. Accepts(reader, line) <=>
          ~reader.seen_row /\ line.shape /\ ~reader.screen /\ reader.coords # "normalized"
    BY <1>8 DEF Accepts
  <2>2. Fits(line) <=> /\ Kinds({"row", "wait"}) = {} /\ line.shape
                       /\ Kinds({"screen"}) = {} /\ Fraction = {}
    BY <1>8 DEF Fits, DirectiveFits
  <2> QED BY <2>1, <2>2, Zenon DEF Remembers
<1>9. CASE line.kind = "coords"
  <2>1. Accepts(reader, line) <=>
          /\ ~reader.seen_row /\ reader.coords = "none"
          /\ line.coords \in {"normalized", "integer"} /\ (line.coords = "normalized" => ~reader.screen)
    BY <1>9 DEF Accepts
  <2>2. Fits(line) <=>
          /\ Kinds({"row", "wait"}) = {} /\ Kinds({"coords"}) = {}
          /\ line.coords \in {"normalized", "integer"}
          /\ line.coords = "normalized" => Kinds({"screen"}) = {}
    BY <1>9 DEF Fits, DirectiveFits
  <2> QED BY <2>1, <2>2, Zenon DEF Remembers
<1>10. CASE line.kind = "format"
  <2>1. Accepts(reader, line) <=> ~reader.seen_row /\ line.shape
    BY <1>10 DEF Accepts
  <2>2. Fits(line) <=> Kinds({"row", "wait"}) = {} /\ line.shape
    BY <1>10 DEF Fits, DirectiveFits
  <2> QED BY <2>1, <2>2, Zenon DEF Remembers
<1>11. CASE line.kind \in {"blank", "screen_comment", "unknown"}
  BY <1>11 DEF Fits, DirectiveFits, Accepts
<1> QED BY <1>3, <1>4, <1>5, <1>6, <1>7, <1>8, <1>9, <1>10, <1>11 DEF IsLine, LineKinds

LEMMA ReaderRemembers ==
  ASSUME NEW line, IsLine(line), Grows(line), Prefix, Remembers, Fits(line),
         Notes(reader, reader', line)
  PROVE  Remembers'
<1> PICK n : n = Number
  OBVIOUS
<1>1. /\ Kinds({"row", "wait"})' =
           Kinds({"row", "wait"}) \union (IF line.kind \in {"row", "wait"} THEN {n} ELSE {})
      /\ Kinds({"screen"})' = Kinds({"screen"}) \union (IF line.kind \in {"screen"} THEN {n} ELSE {})
      /\ Kinds({"coords"})' = Kinds({"coords"}) \union (IF line.kind \in {"coords"} THEN {n} ELSE {})
      /\ Kinds({"else"})' = Kinds({"else"}) \union (IF line.kind \in {"else"} THEN {n} ELSE {})
      /\ Kinds({"else"}) \subseteq 1..(n - 1)
  BY KindsGrow, Zenon
<1>2. /\ Fraction' = Fraction \union
           (IF line.kind = "coords" /\ line.coords = "normalized" THEN {n} ELSE {})
      /\ Fraction \subseteq Kinds({"coords"})
  BY FractionGrows, Zenon
<1>3. /\ reader'.stopped = reader.stopped
      /\ reader'.seen_row <=> reader.seen_row \/ line.kind \in {"row", "wait"}
      /\ reader'.screen <=> reader.screen \/ line.kind = "screen"
      /\ reader'.coords = IF line.kind = "coords" THEN line.coords ELSE reader.coords
      /\ reader'.in_block <=> line.kind \in {"lap", "every"} \/ (reader.in_block /\ line.kind # "end")
      /\ reader'.seen_else <=>
           line.kind \notin {"lap", "every"} /\ (reader.seen_else \/ line.kind = "else")
      /\ reader'.block = IF line.kind \in {"lap", "every"} THEN Block(line)[1] ELSE reader.block
  BY DEF Notes
<1>4. ~reader'.stopped
  BY <1>3, Zenon DEF Remembers
<1>5. reader'.seen_row <=> Kinds({"row", "wait"})' # {}
  BY <1>1, <1>3, Zenon DEF Remembers
<1>6. reader'.screen <=> Kinds({"screen"})' # {}
  <2>1. line.kind \in {"screen"} <=> line.kind = "screen"
    OBVIOUS
  <2> QED BY <1>1, <1>3, <2>1, Zenon DEF Remembers
<1>7. /\ reader'.coords = "none" <=> Kinds({"coords"})' = {}
      /\ reader'.coords = "normalized" <=> Fraction' # {}
  <2>1. CASE line.kind = "coords"
    <3>1. Kinds({"coords"}) = {} /\ line.coords \in {"normalized", "integer"}
      BY <2>1, Zenon DEF Fits, DirectiveFits
    <3>2. Kinds({"coords"})' = {n} /\ Fraction = {} /\ reader'.coords = line.coords
      BY <1>1, <1>2, <1>3, <2>1, <3>1
    <3>3. line.coords # "none" /\ (Fraction' # {} <=> line.coords = "normalized")
      BY <1>2, <2>1, <3>1, <3>2
    <3> QED BY <3>2, <3>3
  <2>2. CASE line.kind # "coords"
    <3>1. Kinds({"coords"})' = Kinds({"coords"}) /\ Fraction' = Fraction /\ reader'.coords = reader.coords
      BY <1>1, <1>2, <1>3, <2>2
    <3> QED BY <3>1, Zenon DEF Remembers
  <2> QED BY <2>1, <2>2
<1>8. /\ n \in Nat /\ n >= 1 /\ n \in 1..n /\ n # 0 /\ \A i \in 1..(n - 1) : i \in 1..n /\ i # n
      /\ lines'[n] = line /\ \A i \in 1..(n - 1) : lines'[i] = lines[i]
  BY LinesGrow
<1>9. Open = OpenerOf(n) /\ \A i \in 1..n : OpenerOf(i)' = OpenerOf(i)
  BY OpenersGrow, Zenon DEF Open
<1>10. Open # 0 => lines'[Open] = lines[Open]
  BY <1>8, <1>9, OpenerThere, Zenon
<1>11. ASSUME NEW k \in Kinds({"else"}) PROVE OpenerOf(k) # 0 /\ OpenerOf(k) # n
  <2>1. OpenerOf(k) # 0
    <3>1. k \in Kinds({"end", "else"})
      BY DEF Kinds
    <3> QED BY <3>1, Zenon DEF Prefix, InBlocks
  <2>2. OpenerOf(k) \in 1..(n - 1)
    BY <1>1, <1>8, <2>1, OpenerThere, Zenon
  <2> QED BY <1>8, <2>1, <2>2, Zenon
<1>12. \A k \in Kinds({"else"}) : OpenerOf(k)' = OpenerOf(k)
  BY <1>1, <1>8, <1>9, Zenon
<1>13. /\ reader'.in_block <=> Open' # 0
       /\ reader'.in_block => reader'.block = Block(lines'[Open'])[1]
       /\ reader'.in_block => (reader'.seen_else <=> \E k \in Kinds({"else"})' : OpenerOf(k)' = Open')
  <2>1. CASE line.kind \in {"lap", "every"}
    <3>1. Open = 0
      BY <2>1, Zenon DEF Fits
    <3>2. Open' = n
      BY <2>1, <3>1, OpenersGrow, Zenon
    <3>3. line.kind \notin {"else"}
      BY <2>1
    <3>4. Kinds({"else"})' = Kinds({"else"})
      BY <1>1, <3>3
    <3> QED BY <1>3, <1>8, <1>11, <1>12, <2>1, <3>2, <3>4, Zenon
  <2>2. CASE line.kind = "end"
    <3>1. Open' = 0
      BY <2>2, OpenersGrow, Zenon
    <3>2. line.kind \notin {"lap", "every"}
      BY <2>2
    <3> QED BY <1>3, <2>2, <3>1, <3>2, Zenon
  <2>3. CASE line.kind = "else"
    <3>1. line.kind \notin {"lap", "every", "end"} /\ line.kind \notin {"lap", "every"} /\ line.kind # "end"
          /\ line.kind \in {"else"} /\ line.kind \in {"end", "else"}
      BY <2>3
    <3>2. Open' = Open /\ Open # 0
      BY <3>1, OpenersGrow, Zenon DEF Fits
    <3>3. n \in Kinds({"else"})' /\ OpenerOf(n)' = Open'
      BY <1>1, <1>8, <1>9, <3>1, <3>2, Zenon
    <3> QED BY <1>3, <1>10, <2>3, <3>1, <3>2, <3>3, Zenon DEF Remembers
  <2>4. CASE line.kind \notin {"lap", "every", "end", "else"}
    <3>1. line.kind \notin {"lap", "every", "end"} /\ line.kind \notin {"lap", "every"} /\ line.kind # "end"
          /\ line.kind \notin {"else"} /\ line.kind # "else"
      BY <2>4
    <3>2. Open' = Open
      BY <3>1, OpenersGrow, Zenon
    <3>3. Kinds({"else"})' = Kinds({"else"})
      BY <1>1, <3>1
    <3> QED BY <1>3, <1>10, <1>12, <3>1, <3>2, <3>3, Zenon DEF Remembers
  <2> QED BY <2>1, <2>2, <2>3, <2>4
<1> QED BY <1>4, <1>5, <1>6, <1>7, <1>13, Zenon DEF Remembers

-----------------------------------------------------------------------------
(* Where load() puts the rows                                              *)

\* A row as load() keeps it.
RowType == [payload : {line.payload : line \in AllLines}, wait : Nat]

\* Segments that differ in nothing but their times.
SameOutline(a, b) ==
  /\ Len(b) = Len(a)
  /\ \A i \in 1..Len(a) :
       b[i].begin = a[i].begin /\ b[i].end = a[i].end /\ b[i].when = a[i].when

\* The same, but for the end of the last.
Extended(a, b, end) ==
  /\ Len(b) = Len(a)
  /\ \A i \in 1..Len(a) :
       b[i].begin = a[i].begin /\ b[i].when = a[i].when /\ b[i].end = IF i = Len(a) THEN end ELSE a[i].end

\* The same rows, but for their waits.
SameRows(a, b) == b \in Seq(RowType) /\ Len(b) = Len(a) /\ \A i \in 1..Len(a) : b[i].payload = a[i].payload

\* Where load() puts a line that it accepts.
Lays(r, read, line) ==
  /\ line.kind = "row" =>
       /\ read.rows = Append(r.rows, [payload |-> line.payload, wait |-> line.wait])
       /\ Extended(r.segments, read.segments, Len(r.rows) + 2)
  /\ line.kind = "wait" => SameRows(r.rows, read.rows) /\ SameOutline(r.segments, read.segments)
  /\ line.kind \in {"lap", "every"} =>
       /\ read.rows = r.rows
       /\ read.segments = Append(r.segments, Fresh(Block(line)[1], Len(r.rows) + 1))
  /\ line.kind = "else" =>
       /\ read.rows = r.rows
       /\ read.segments =
            Append(r.segments, Fresh([r.block EXCEPT !.negate = TRUE], Len(r.rows) + 1))
  /\ line.kind = "end" =>
       read.rows = r.rows /\ read.segments = Append(r.segments, Fresh(Always, Len(r.rows) + 1))
  /\ line.kind \in {"blank", "format", "screen", "coords"} =>
       read.rows = r.rows /\ read.segments = r.segments

LEMMA SegmentsLength ==
  ASSUME NEW segments, IsSegments(segments)
  PROVE  Len(segments) \in Nat /\ DOMAIN segments = 1..Len(segments)
<1>1. PICK n \in Nat : segments = [i \in 1..n |-> segments[i]]
  BY Zenon DEF IsSegments
<1> DEFINE S == {segments[i] : i \in 1..n}
<1>2. DOMAIN segments = 1..n
  <2>1. DOMAIN [i \in 1..n |-> segments[i]] = 1..n
    OBVIOUS
  <2> QED BY <1>1, <2>1, Zenon
<1>3. segments \in Seq(S)
  <2>1. [i \in 1..n |-> segments[i]] \in [1..n -> S]
    OBVIOUS
  <2>2. segments \in [1..n -> S]
    BY <1>1, <2>1, Zenon
  <2> HIDE DEF S
  <2> QED BY <2>2
<1> HIDE DEF S
<1> QED BY <1>3

LEMMA SegmentAppended ==
  ASSUME NEW segments, IsSegments(segments), NEW s
  PROVE  LET L == Len(segments)
             new == Append(segments, s)
         IN  /\ Len(new) = L + 1
             /\ \A i \in 1..(L + 1) : new[i] = IF i = L + 1 THEN s ELSE segments[i]
<1> DEFINE L == Len(segments)
           S == {segments[i] : i \in 1..L} \union {s}
           new == Append(segments, s)
<1>1. L \in Nat /\ DOMAIN segments = 1..L /\ \E n \in Nat : segments = [i \in 1..n |-> segments[i]]
  BY SegmentsLength, Zenon DEF IsSegments
<1>2. segments = [i \in 1..L |-> segments[i]]
  <2>1. PICK n \in Nat : segments = [i \in 1..n |-> segments[i]]
    BY <1>1
  <2>2. DOMAIN [i \in 1..n |-> segments[i]] = 1..n
    OBVIOUS
  <2>3. 1..n = 1..L
    BY <1>1, <2>1, <2>2, Zenon
  <2> HIDE DEF L
  <2> QED BY <2>1, <2>3, Zenon
<1>3. segments \in Seq(S) /\ s \in S
  <2>1. [i \in 1..L |-> segments[i]] \in [1..L -> S]
    OBVIOUS
  <2>2. segments \in [1..L -> S]
    BY <1>2, <2>1, Zenon
  <2> HIDE DEF S
  <2>3. segments \in Seq(S)
    BY <1>1, <2>2
  <2> QED BY <2>3 DEF S
<1> HIDE DEF S
<1>4. Len(new) = L + 1 /\ \A i \in 1..(L + 1) : new[i] = IF i = L + 1 THEN s ELSE segments[i]
  BY <1>1, <1>3
<1> QED BY <1>4

LEMMA RowLaid ==
  ASSUME NEW r, IsReader(r), NEW line, line.kind = "row"
  PROVE  Lays(r, AddRow(r, line), line)
<1> DEFINE L == Len(r.segments)
           read == AddRow(r, line)
           last == [r.segments[L] EXCEPT !.end = Len(r.rows) + 2]
           once == [r.segments EXCEPT ![L] = last]
           new  == [last EXCEPT !.duration = last.duration + line.wait]
           put  == [once EXCEPT ![L].duration = @ + line.wait]
<1>1. L \in Nat /\ DOMAIN r.segments = 1..L /\ \A i \in 1..L : IsSegment(r.segments[i])
  BY SegmentsLength, Zenon DEF IsReader, IsSegments
<1>2. read.rows = Append(r.rows, [payload |-> line.payload, wait |-> line.wait])
  BY DEF AddRow, IsReader
<1>3. read.segments = put
  BY DEF AddRow, IsReader
<1>4. Len(put) = L /\ \A i \in 1..L : put[i] = IF i = L THEN new ELSE r.segments[i]
  <2> HIDE DEF last
  <2>1. DOMAIN put = 1..L
    BY <1>1
  <2> QED BY <1>1, <2>1
<1>5. L \in 1..L =>
        /\ new.begin = r.segments[L].begin /\ new.when = r.segments[L].when
        /\ new.end = Len(r.rows) + 2
  BY <1>1 DEF IsSegment
<1> HIDE DEF L, read, new, put
<1>6. Extended(r.segments, read.segments, Len(r.rows) + 2)
  <2> SUFFICES ASSUME NEW i \in 1..L
               PROVE  /\ put[i].begin = r.segments[i].begin /\ put[i].when = r.segments[i].when
                      /\ put[i].end = IF i = L THEN Len(r.rows) + 2 ELSE r.segments[i].end
    BY <1>3, <1>4, Zenon DEF Extended, L
  <2> QED BY <1>4, <1>5, Zenon
<1>7. Lays(r, read, line)
  BY <1>2, <1>6 DEF Lays
<1> QED BY <1>7 DEF read

LEMMA WaitLaid ==
  ASSUME NEW r, IsReader(r), r.rows \in Seq(RowType), NEW line, line.kind = "wait",
         line.wait \in Nat
  PROVE  Lays(r, AddWait(r, line.wait), line)
<1> DEFINE L == Len(r.segments)
           wait == line.wait
           read == AddWait(r, wait)
           longer == [r.segments EXCEPT ![L].duration = @ + wait]
           later == [longer EXCEPT ![L].lead = @ + wait]
           rows == [r.rows EXCEPT ![Len(r.rows)].wait = @ + wait]
<1>1. L \in Nat /\ DOMAIN r.segments = 1..L /\ \A i \in 1..L : IsSegment(r.segments[i])
  BY SegmentsLength, Zenon DEF IsReader, IsSegments
<1>2. \/ read.segments = later /\ read.rows = r.rows
      \/ read.segments = longer /\ read.rows = rows
  BY DEF AddWait, IsReader
<1>3. SameOutline(r.segments, longer)
  <2>1. DOMAIN longer = 1..L
    BY <1>1
  <2>2. Len(longer) = L
    BY <1>1, <2>1
  <2>3. ASSUME NEW i \in 1..L
        PROVE  /\ longer[i].begin = r.segments[i].begin /\ longer[i].end = r.segments[i].end
               /\ longer[i].when = r.segments[i].when
    <3>1. longer[i] = IF i = L THEN [r.segments[L] EXCEPT !.duration = @ + wait] ELSE r.segments[i]
      BY <1>1
    <3>2. IsSegment(r.segments[i])
      BY <1>1
    <3> QED BY <3>1, <3>2 DEF IsSegment
  <2> QED BY <2>2, <2>3 DEF SameOutline
<1>4. SameOutline(r.segments, later)
  <2>1. DOMAIN later = 1..L
    BY <1>1
  <2>2. Len(later) = L
    BY <1>1, <2>1
  <2>3. ASSUME NEW i \in 1..L
        PROVE  /\ later[i].begin = r.segments[i].begin /\ later[i].end = r.segments[i].end
               /\ later[i].when = r.segments[i].when
    <3>1. longer[i] = IF i = L THEN [r.segments[L] EXCEPT !.duration = @ + wait] ELSE r.segments[i]
      BY <1>1
    <3>2. later[i] = IF i = L THEN [longer[L] EXCEPT !.lead = @ + wait] ELSE longer[i]
      <4>1. DOMAIN longer = 1..L
        BY <1>1
      <4> HIDE DEF longer
      <4> QED BY <4>1
    <3>3. IsSegment(r.segments[i])
      BY <1>1
    <3> HIDE DEF longer, later
    <3> QED BY <3>1, <3>2, <3>3 DEF IsSegment
  <2> QED BY <2>2, <2>3 DEF SameOutline
<1>5. SameRows(r.rows, rows)
  <2>1. rows \in Seq(RowType)
    <3> DEFINE P == {l.payload : l \in AllLines}
               n == Len(r.rows)
    <3>1. n \in Nat /\ r.rows \in [1..n -> RowType] /\ RowType = [payload : P, wait : Nat]
      <4>1. RowType = [payload : P, wait : Nat]
        BY Zenon DEF RowType
      <4>2. n \in Nat /\ r.rows \in [1..n -> RowType]
        OBVIOUS
      <4> QED BY <4>1, <4>2, Zenon
    <3> HIDE DEF P, n
    <3>2. ASSUME NEW i \in 1..n PROVE rows[i] \in RowType
      <4>1. r.rows[i] \in [payload : P, wait : Nat]
        BY <3>1
      <4>2. rows[i] = IF i = n THEN [r.rows[n] EXCEPT !.wait = @ + wait] ELSE r.rows[i]
        BY <3>1 DEF n
      <4>3. [r.rows[i] EXCEPT !.wait = @ + wait] \in [payload : P, wait : Nat]
        BY <4>1
      <4> HIDE DEF rows
      <4> QED BY <3>1, <4>1, <4>2, <4>3
    <3>3. DOMAIN rows = 1..n /\ rows = [i \in 1..n |-> rows[i]]
      BY <3>1 DEF n
    <3> HIDE DEF rows
    <3>4. rows \in [1..n -> RowType]
      BY <3>2, <3>3
    <3> QED BY <3>1, <3>4
  <2>2. Len(rows) = Len(r.rows)
    OBVIOUS
  <2>3. ASSUME NEW i \in 1..Len(r.rows) PROVE rows[i].payload = r.rows[i].payload
    BY DEF RowType
  <2> HIDE DEF rows
  <2> QED BY <2>1, <2>2, <2>3 DEF SameRows
<1>6. SameRows(r.rows, r.rows)
  BY DEF SameRows
<1> HIDE DEF read, longer, later, rows
<1>7. SameRows(r.rows, read.rows) /\ SameOutline(r.segments, read.segments)
  BY <1>2, <1>3, <1>4, <1>5, <1>6, Zenon
<1>8. Lays(r, read, line)
  BY <1>7 DEF Lays
<1> QED BY <1>8 DEF read

LEMMA LineLaid ==
  ASSUME NEW r, Numbered(r), r.rows \in Seq(RowType), NEW line, IsLine(line), NEW number \in Nat,
         Accepts(r, line)
  PROVE  Lays(r, ReadLine(r, line, number), line)
<1> DEFINE read == ReadLine(r, line, number)
<1> IsReader(r)
  BY DEF Numbered
<1>1. CASE line.kind \in {"row", "wait"}
  <2> DEFINE seen == [r EXCEPT !.seen_row = TRUE]
  <2>1. IsReader(seen) /\ seen.rows = r.rows /\ seen.segments = r.segments /\ seen.coords = r.coords
    BY DEF IsReader
  <2> HIDE DEF seen
  <2>2. read = ReadRow(r, line, number)
    BY <1>1 DEF ReadLine
  <2>3. RowFits(seen, line) <=> RowFits(r, line)
    BY <2>1, Zenon DEF RowFits
  <2>4. CASE line.kind = "row"
    <3>1. RowFits(r, line) /\ line.kind # "wait"
      BY <2>4 DEF Accepts
    <3>2. read = AddRow(seen, line)
      BY <2>2, <2>3, <3>1, Zenon DEF ReadRow, seen
    <3>3. Lays(seen, AddRow(seen, line), line)
      BY <2>1, <2>4, RowLaid, Zenon
    <3> HIDE DEF read
    <3>4. Lays(r, read, line)
      BY <2>1, <2>4, <3>2, <3>3 DEF Lays
    <3> QED BY <3>4 DEF read
  <2>5. CASE line.kind = "wait"
    <3>1. line.wait # Malformed /\ line.wait \in Nat
      BY <2>5 DEF Accepts, IsLine
    <3>2. read = AddWait(seen, line.wait)
      BY <2>2, <2>5, <3>1, Zenon DEF ReadRow, seen
    <3>3. Lays(seen, AddWait(seen, line.wait), line)
      BY <2>1, <2>5, <3>1, WaitLaid, Zenon
    <3> HIDE DEF read
    <3>4. Lays(r, read, line)
      BY <2>1, <2>5, <3>2, <3>3 DEF Lays
    <3> QED BY <3>4 DEF read
  <2> QED BY <1>1, <2>4, <2>5
<1>2. CASE line.kind \in {"lap", "every"}
  <2> DEFINE when == Block(line)
             opened == [r EXCEPT !.in_block = TRUE, !.seen_else = FALSE, !.block_line = number,
                                 !.block = IF when = None THEN Always ELSE when[1]]
  <2>1. ~r.in_block /\ when # None
    BY <1>2 DEF Accepts
  <2>2. opened.rows = r.rows /\ opened.segments = r.segments /\ opened.block = when[1] /\ IsReader(r)
        /\ DOMAIN opened = DOMAIN r
    <3> HIDE DEF when
    <3> QED BY <2>1 DEF IsReader
  <2>3. read = ReadBlock(r, line, number)
    BY <1>2 DEF ReadLine
  <2>4. read = OpenSegment(opened, opened.block)
    BY <2>1, <2>3, Zenon DEF ReadBlock
  <2> HIDE DEF when, opened
  <2>5. read.rows = r.rows /\ read.segments = Append(r.segments, Fresh(when[1], Len(r.rows) + 1))
    <3> HIDE DEF read
    <3> QED BY <2>2, <2>4 DEF OpenSegment, IsReader
  <2> HIDE DEF read
  <2>6. Lays(r, read, line)
    BY <1>2, <2>5 DEF Lays, when
  <2> QED BY <2>6 DEF read
<1>3. CASE line.kind = "else"
  <2> DEFINE seen == [r EXCEPT !.seen_else = TRUE]
             else == [r.block EXCEPT !.negate = TRUE]
  <2>1. ~(~r.in_block \/ r.seen_else \/ r.block.keep_time)
    <3>1. r.in_block /\ ~r.seen_else /\ ~r.block.keep_time
      BY <1>3 DEF Accepts
    <3> QED BY <3>1, Zenon
  <2>2. seen.rows = r.rows /\ seen.segments = r.segments /\ DOMAIN seen = DOMAIN r
    BY DEF IsReader
  <2>3. read = ReadElse(r, number)
    BY <1>3 DEF ReadLine
  <2>4. read = OpenSegment(seen, else)
    BY <2>1, <2>3, Zenon DEF ReadElse
  <2> HIDE DEF seen, else
  <2>5. read.rows = r.rows /\ read.segments = Append(r.segments, Fresh(else, Len(r.rows) + 1))
    <3> HIDE DEF read
    <3> QED BY <2>2, <2>4 DEF OpenSegment, IsReader
  <2> HIDE DEF read
  <2>6. Lays(r, read, line)
    BY <1>3, <2>5 DEF Lays, else
  <2> QED BY <2>6 DEF read
<1>4. CASE line.kind = "end"
  <2> DEFINE out == [r EXCEPT !.in_block = FALSE]
  <2>1. r.in_block
    BY <1>4 DEF Accepts
  <2>2. out.rows = r.rows /\ out.segments = r.segments /\ DOMAIN out = DOMAIN r
    BY DEF IsReader
  <2>3. read = ReadEnd(r, number)
    BY <1>4 DEF ReadLine
  <2>4. read = OpenSegment(out, Always)
    BY <2>1, <2>3, Zenon DEF ReadEnd
  <2> HIDE DEF out
  <2>5. read.rows = r.rows /\ read.segments = Append(r.segments, Fresh(Always, Len(r.rows) + 1))
    <3> HIDE DEF read
    <3> QED BY <2>2, <2>4 DEF OpenSegment, IsReader
  <2> HIDE DEF read
  <2>6. Lays(r, read, line)
    BY <1>4, <2>5 DEF Lays
  <2> QED BY <2>6 DEF read
<1>5. CASE line.kind \in {"blank", "format", "screen", "coords"}
  <2>1. /\ line.kind = "screen" => ~(r.seen_row \/ r.screen \/ r.coords = "normalized" \/ ~line.shape)
        /\ line.kind = "format" => ~(r.seen_row \/ ~line.shape)
        /\ line.kind = "coords" =>
             ~(\/ r.seen_row \/ r.coords # "none" \/ line.coords \notin {"normalized", "integer"}
               \/ line.coords = "normalized" /\ r.screen)
    <3>1. /\ line.kind \in {"format", "screen", "coords"} => ~r.seen_row
          /\ line.kind \in {"format", "screen"} => line.shape
          /\ line.kind = "screen" => ~r.screen /\ r.coords # "normalized"
          /\ line.kind = "coords" =>
               /\ r.coords = "none" /\ line.coords \in {"normalized", "integer"}
               /\ line.coords = "normalized" => ~r.screen
      BY Zenon DEF Accepts
    <3>2. /\ line.kind = "screen" => line.kind \in {"format", "screen"} /\ line.kind \in {"format", "screen", "coords"}
          /\ line.kind = "format" => line.kind \in {"format", "screen"} /\ line.kind \in {"format", "screen", "coords"}
          /\ line.kind = "coords" => line.kind \in {"format", "screen", "coords"}
      OBVIOUS
    <3> QED BY <3>1, <3>2, Zenon
  <2>2. \/ line.kind = "blank" /\ read = r
        \/ line.kind = "screen" /\ read = ReadScreen(r, line, number)
        \/ line.kind = "coords" /\ read = ReadCoords(r, line, number)
        \/ line.kind = "format" /\ read = ReadFormat(r, line, number)
    BY <1>5 DEF ReadLine
  <2> HIDE DEF read
  <2>3. \/ read = r
        \/ read = [r EXCEPT !.screen = TRUE]
        \/ read = [r EXCEPT !.coords = line.coords]
    BY <2>1, <2>2, Zenon DEF ReadScreen, ReadCoords, ReadFormat
  <2>4. read.rows = r.rows /\ read.segments = r.segments
    BY <2>3 DEF IsReader
  <2>5. Lays(r, read, line)
    BY <1>5, <2>4 DEF Lays
  <2> QED BY <2>5 DEF read
<1> QED BY <1>1, <1>2, <1>3, <1>4, <1>5 DEF Accepts, IsLine, LineKinds

\* One line more, in the search for the rows.
WithRow(f, upto, i) == IF f[i].kind = "row" THEN Append(upto, i) ELSE upto

\* The numbers of the lines that are rows, in order.
RowLinesOf(f) ==
  LET upto[n \in 0..Len(f)] ==
        IF n = 0 THEN <<>>
        ELSE IF f[n].kind = "row" THEN Append(upto[n - 1], n) ELSE upto[n - 1]
  IN upto[Len(f)]

\* What is collected after each line.
Collects(f, n, w) == w[0] = <<>> /\ \A i \in 1..n : w[i] = WithRow(f, w[i - 1], i)

LEMMA RowLinesAre ==
  ASSUME NEW f, NEW n \in Nat, Len(f) = n, NEW w, Collects(f, n, w)
  PROVE  RowLinesOf(f) = w[n]
<1> USE DEF Collects
<1> DEFINE Reads(g) == g = [i \in 0..n |-> IF i = 0 THEN <<>> ELSE WithRow(f, g[i - 1], i)]
           v == [i \in 0..n |-> w[i]]
           r == CHOOSE g : Reads(g)
<1>1. Reads(v)
  <2>1. ASSUME NEW i \in 0..n
        PROVE  v[i] = IF i = 0 THEN <<>> ELSE WithRow(f, v[i - 1], i)
    <3>1. v[i] = w[i]
      OBVIOUS
    <3>2. CASE i # 0
      <4>1. i \in 1..n /\ i - 1 \in 0..n
        BY <3>2
      <4>2. v[i - 1] = w[i - 1]
        BY <4>1
      <4>3. w[i] = WithRow(f, w[i - 1], i)
        BY <4>1, Zenon
      <4> HIDE DEF v
      <4> QED BY <3>1, <3>2, <4>2, <4>3, Zenon
    <3> HIDE DEF v
    <3> QED BY <3>1, <3>2, Zenon
  <2> QED BY <2>1, Zenon
<1>2. Reads(r)
  <2> HIDE DEF v, Reads
  <2> QED BY <1>1, Zenon
<1>3. RowLinesOf(f) = r[n]
  BY DEF RowLinesOf, WithRow
<1> HIDE DEF r, v
<1>4. \A i \in 0..n : r[i] = IF i = 0 THEN <<>> ELSE WithRow(f, r[i - 1], i)
  BY <1>2, Zenon
<1>5. StepAlike(r, w, n)
  <2>1. r[0] = w[0]
    <3>1. 0 \in 0..n
      OBVIOUS
    <3> QED BY <1>4, <3>1, Zenon
  <2>2. ASSUME NEW i \in 1..n, r[i - 1] = w[i - 1] PROVE r[i] = w[i]
    <3>1. i \in 0..n /\ i # 0
      OBVIOUS
    <3>2. r[i] = WithRow(f, r[i - 1], i)
      BY <1>4, <3>1, Zenon
    <3> QED BY <2>2, <3>2, Zenon
  <2> QED BY <2>1, <2>2, Zenon DEF StepAlike
<1>6. n \in 0..n
  OBVIOUS
<1> QED BY <1>3, <1>5, <1>6, StepsAgree, Zenon

LEMMA RowLinesSteps ==
  ASSUME NEW f, NEW n \in Nat, Len(f) = n
  PROVE  \E w \in [0..n -> Seq(Nat)] : Collects(f, n, w)
<1> DEFINE step == [i \in 1..n |-> [upto \in Seq(Nat) |-> WithRow(f, upto, i)]]
<1>1. step \in [1..n -> [Seq(Nat) -> Seq(Nat)]]
  <2>1. \A i \in 1..n, upto \in Seq(Nat) : WithRow(f, upto, i) \in Seq(Nat)
    BY DEF WithRow
  <2> QED BY <2>1
<1>2. <<>> \in Seq(Nat)
  OBVIOUS
<1> HIDE DEF step
<1>3. PICK w \in [0..n -> Seq(Nat)] : Follows(w, n, <<>>, step)
  BY <1>1, <1>2, StepsExist, Zenon
<1>4. \A i \in 1..n : step[i][w[i - 1]] = WithRow(f, w[i - 1], i)
  <2> SUFFICES ASSUME NEW i \in 1..n PROVE step[i][w[i - 1]] = WithRow(f, w[i - 1], i)
    OBVIOUS
  <2>1. step[i] = [upto \in Seq(Nat) |-> WithRow(f, upto, i)]
    BY DEF step
  <2>2. w[i - 1] \in Seq(Nat)
    OBVIOUS
  <2> QED BY <2>1, <2>2
<1> QED BY <1>3, <1>4, Zenon DEF Follows, Collects

LEMMA RowLinesGrow ==
  ASSUME NEW line, Grows(line)
  PROVE  /\ RowLines \in Seq(Nat)
         /\ RowLines' = IF line.kind = "row" THEN Append(RowLines, Number) ELSE RowLines
<1> PICK n : n = Number
  OBVIOUS
<1>1. /\ n \in Nat /\ n >= 1 /\ Len(lines) = n - 1 /\ Len(lines') = n /\ n - 1 \in Nat
      /\ lines'[n] = line /\ \A i \in 1..(n - 1) : lines'[i] = lines[i]
  BY LinesGrow DEF Grows, Number
<1>2. PICK w \in [0..(n - 1) -> Seq(Nat)] : Collects(lines, n - 1, w)
  BY <1>1, RowLinesSteps, Zenon
<1>3. RowLines = w[n - 1]
  <2>1. RowLinesOf(lines) = w[n - 1]
    BY <1>1, <1>2, RowLinesAre, Zenon
  <2> QED BY <2>1 DEF RowLines, RowLinesOf
<1>4. w[n - 1] \in Seq(Nat)
  BY <1>1, <1>2
<1> DEFINE v == [i \in 0..n |-> IF i = n THEN WithRow(lines', w[n - 1], n) ELSE w[i]]
<1>5. v[0] = <<>>
  BY <1>1, <1>2 DEF Collects
<1>6. ASSUME NEW i \in 1..n PROVE v[i] = WithRow(lines', v[i - 1], i)
  <2>1. i - 1 \in 0..n /\ i \in 0..n /\ i - 1 # n /\ v[i - 1] = w[i - 1]
    BY <1>1
  <2>2. CASE i = n
    BY <2>1, <2>2
  <2>3. CASE i # n
    <3>1. i \in 1..(n - 1) /\ v[i] = w[i]
      BY <1>1, <2>3
    <3>2. w[i] = WithRow(lines, w[i - 1], i) /\ lines'[i] = lines[i]
      BY <1>1, <1>2, <3>1, Zenon DEF Collects
    <3> HIDE DEF v
    <3> QED BY <2>1, <3>1, <3>2, Zenon DEF WithRow
  <2> QED BY <2>2, <2>3
<1>7. v[n] = WithRow(lines', w[n - 1], n)
  BY <1>1
<1> HIDE DEF v
<1>8. RowLines' = WithRow(lines', w[n - 1], n)
  <2>1. Collects(lines', n, v)
    BY <1>5, <1>6, Zenon DEF Collects
  <2>2. RowLinesOf(lines') = v[n]
    BY <1>1, <2>1, RowLinesAre, Zenon
  <2>3. RowLines' = RowLinesOf(lines')
    BY DEF RowLines, RowLinesOf
  <2> QED BY <1>7, <2>2, <2>3, Zenon
<1> QED BY <1>1, <1>3, <1>4, <1>8, Zenon DEF WithRow

\* The @else lines between a block's first line and a line.
ElsesUpTo(i) == {k \in Kinds({"else"}) : OpenerOf(i) < k /\ k < i}

LEMMA WhenIs ==
  ASSUME NEW i
  PROVE  WhenOf(i) = IF OpenerOf(i) = 0 THEN Always
                     ELSE [Block(lines[OpenerOf(i)])[1] EXCEPT !.negate = ElsesUpTo(i) # {}]
  BY Zenon DEF WhenOf, ElsesUpTo

LEMMA WhenGrows ==
  ASSUME NEW line, Grows(line), NEW n, n = Number
  PROVE  /\ \A i \in 1..n : WhenOf(i)' = WhenOf(i)
         /\ line.kind = "end" => WhenOf(Number)' = Always
         /\ line.kind \in {"lap", "every"} /\ Open = 0 /\ Block(line) # None =>
              WhenOf(Number)' = [Block(line)[1] EXCEPT !.negate = FALSE]
         /\ line.kind = "else" /\ Open # 0 =>
              WhenOf(Number)' = [Block(lines[Open])[1] EXCEPT !.negate = TRUE]
         /\ line.kind \notin {"lap", "every", "end", "else"} => WhenOf(Number)' = WhenOf(Number)
<1>1. /\ Kinds({"else"})' = Kinds({"else"}) \union (IF line.kind \in {"else"} THEN {n} ELSE {})
      /\ Kinds({"else"}) \subseteq 1..(n - 1)
  BY KindsGrow, Zenon
<1>2. /\ n \in Nat /\ n >= 1 /\ Number' = n + 1 /\ lines'[n] = line
      /\ \A i \in 1..(n - 1) : lines'[i] = lines[i]
  BY LinesGrow
<1>3. /\ Open = OpenerOf(n) /\ \A i \in 1..n : OpenerOf(i)' = OpenerOf(i)
      /\ lines \in Seq(AllLines)
  BY OpenersGrow, Zenon DEF Open, Grows
<1>4. \A i : OpenerOf(i) \in Nat
  BY <1>3, OpenerIs, Zenon
<1>5. ASSUME NEW i \in 1..n PROVE WhenOf(i)' = WhenOf(i)
  <2>1. ElsesUpTo(i)' = ElsesUpTo(i)
    BY <1>1, <1>2, <1>3 DEF ElsesUpTo
  <2>2. OpenerOf(i) # 0 => lines'[OpenerOf(i)] = lines[OpenerOf(i)]
    BY OpenerThere, Zenon
  <2>3. WhenOf(i)' = IF OpenerOf(i)' = 0 THEN Always
                     ELSE [Block(lines'[OpenerOf(i)'])[1] EXCEPT !.negate = ElsesUpTo(i)' # {}]
    BY Zenon DEF WhenOf, ElsesUpTo
  <2> QED BY <1>3, <2>1, <2>2, <2>3, WhenIs, Zenon
<1>6. WhenOf(Number)' = IF Open' = 0 THEN Always
                        ELSE [Block(lines'[Open'])[1] EXCEPT !.negate = ElsesUpTo(n + 1)' # {}]
  <2>1. Open' = OpenerOf(n + 1)' /\ WhenOf(Number)' = WhenOf(n + 1)'
    BY <1>2 DEF Open
  <2>2. WhenOf(n + 1)' = IF OpenerOf(n + 1)' = 0 THEN Always
                         ELSE [Block(lines'[OpenerOf(n + 1)'])[1] EXCEPT !.negate = ElsesUpTo(n + 1)' # {}]
    BY Zenon DEF WhenOf, ElsesUpTo
  <2> QED BY <2>1, <2>2, Zenon
<1>7. ElsesUpTo(n + 1)' = {k \in Kinds({"else"})' : Open' < k /\ k < n + 1}
  <2>1. Open' = OpenerOf(n + 1)'
    BY <1>2 DEF Open
  <2> QED BY <2>1 DEF ElsesUpTo
<1>8. CASE line.kind = "end"
  <2>1. Open' = 0
    BY <1>8, OpenersGrow, Zenon
  <2>2. line.kind \notin {"lap", "every"} /\ line.kind # "else" /\ ~(line.kind \notin {"lap", "every", "end", "else"})
    BY <1>8
  <2> QED BY <1>5, <1>6, <2>1, <2>2, Zenon
<1>9. CASE line.kind \in {"lap", "every"}
  <2>1. ASSUME Open = 0, Block(line) # None
        PROVE  WhenOf(Number)' = [Block(line)[1] EXCEPT !.negate = FALSE]
    <3>1. Open' = n
      BY <1>9, <2>1, OpenersGrow, Zenon
    <3>2. ElsesUpTo(n + 1)' = {}
      BY <1>1, <1>2, <1>7, <3>1
    <3>3. (ElsesUpTo(n + 1)' # {}) = FALSE /\ n # 0
      BY <1>2, <3>2
    <3> QED BY <1>2, <1>6, <3>1, <3>3, Zenon
  <2>2. line.kind # "end" /\ line.kind # "else" /\ ~(line.kind \notin {"lap", "every", "end", "else"})
    BY <1>9
  <2> QED BY <1>5, <2>1, <2>2, Zenon
<1>10. CASE line.kind = "else"
  <2>1. ASSUME Open # 0 PROVE WhenOf(Number)' = [Block(lines[Open])[1] EXCEPT !.negate = TRUE]
    <3>1. line.kind \notin {"lap", "every", "end"}
      BY <1>10
    <3>2. Open' = Open
      BY <3>1, OpenersGrow, Zenon
    <3>3. n \in 1..n
      BY <1>2
    <3>4. Open \in 1..(n - 1) /\ lines'[Open] = lines[Open]
      BY <1>3, <2>1, <3>3, OpenerThere, Zenon
    <3>5. n \in ElsesUpTo(n + 1)'
      BY <1>1, <1>2, <1>7, <1>10, <3>2, <3>4
    <3>6. (ElsesUpTo(n + 1)' # {}) = TRUE
      BY <3>5
    <3> QED BY <1>6, <2>1, <3>2, <3>4, <3>6, Zenon
  <2>2. line.kind # "end" /\ line.kind \notin {"lap", "every"} /\ ~(line.kind \notin {"lap", "every", "end", "else"})
    BY <1>10
  <2> QED BY <1>5, <2>1, <2>2, Zenon
<1>11. CASE line.kind \notin {"lap", "every", "end", "else"}
  <2>1. line.kind \notin {"lap", "every", "end"} /\ line.kind \notin {"else"} /\ line.kind # "end"
        /\ line.kind # "else" /\ line.kind \notin {"lap", "every"}
    BY <1>11
  <2>2. Open' = Open
    BY <2>1, OpenersGrow, Zenon
  <2>3. ElsesUpTo(n + 1)' = ElsesUpTo(n)
    <3>1. Kinds({"else"})' = Kinds({"else"}) /\ ElsesUpTo(n) = {k \in Kinds({"else"}) : Open < k /\ k < n}
      BY <1>1, <1>3, <2>1 DEF ElsesUpTo
    <3> QED BY <1>1, <1>2, <1>7, <2>2, <3>1
  <2>4. n \in 1..n /\ (Open # 0 => lines'[Open] = lines[Open])
    <3>1. n \in 1..n
      BY <1>2
    <3> QED BY <1>3, <3>1, OpenerThere, Zenon
  <2>5. WhenOf(n) = IF Open = 0 THEN Always
                    ELSE [Block(lines[Open])[1] EXCEPT !.negate = ElsesUpTo(n) # {}]
    BY <1>3, WhenIs, Zenon
  <2> QED BY <1>5, <1>6, <2>1, <2>2, <2>3, <2>4, <2>5, Zenon
<1> QED BY <1>8, <1>9, <1>10, <1>11

\* The rows are those of the file, in its order.
Written ==
  /\ reader.rows \in Seq(RowType) /\ RowLines \in Seq(Nat)
  /\ Len(RowLines) = Len(reader.rows)
  /\ \A i \in 1..Len(reader.rows) :
       RowLines[i] \in Kinds({"row"}) /\ reader.rows[i].payload = lines[RowLines[i]].payload
  /\ reader.rows = <<>> => Kinds({"row"}) = {}

\* A row is in a segment.
InSegment(segments, i, row) == segments[i].begin <= row /\ row < segments[i].end

\* One segment follows the other, the last is still open, and each row is in one for the laps
\* the row was written for.
Ordered(segments, rows) ==
  /\ Len(segments) >= 1
  /\ \A i \in 1..Len(segments) :
       /\ segments[i].begin \in Nat /\ segments[i].end \in Nat
       /\ 1 <= segments[i].begin /\ segments[i].begin <= segments[i].end
  /\ \A i, j \in 1..Len(segments) : i < j => segments[i].end <= segments[j].begin
  /\ segments[Len(segments)].end = rows + 1

\* Each row is in a segment for the laps its line asks for.
Selected(segments, rows) ==
  \A row \in 1..rows : \E i \in 1..Len(segments) :
    /\ InSegment(segments, i, row)
    /\ \A k \in Nat : k = RowLines[row] => segments[i].when = WhenOf(k)

\* What load() has put into segments so far.
Divided ==
  /\ Ordered(reader.segments, Len(reader.rows))
  /\ Selected(reader.segments, Len(reader.rows))
  /\ reader.segments[Len(reader.segments)].when = WhenOf(Number)

LEMMA RowsWritten ==
  ASSUME NEW line, IsLine(line), Grows(line), Numbered(reader), Written, Accepts(reader, line),
         Lays(reader, reader', line)
  PROVE  Written'
<1> PICK n : n = Number
  OBVIOUS
<1>1. /\ n \in Nat /\ n >= 1 /\ lines'[n] = line /\ \A i \in 1..(n - 1) : lines'[i] = lines[i]
  BY LinesGrow
<1>2. /\ Kinds({"row"})' = Kinds({"row"}) \union (IF line.kind \in {"row"} THEN {n} ELSE {})
      /\ Kinds({"row"}) \subseteq 1..(n - 1)
  BY KindsGrow, Zenon
<1>3. RowLines' = IF line.kind = "row" THEN Append(RowLines, n) ELSE RowLines
  BY RowLinesGrow, Zenon
<1> DEFINE m == Len(reader.rows)
<1>4. /\ m \in Nat /\ Len(RowLines) = m
      /\ reader.rows \in Seq(RowType) /\ RowLines \in Seq(Nat)
      /\ \A i \in 1..m : /\ RowLines[i] \in Kinds({"row"})
                         /\ reader.rows[i].payload = lines[RowLines[i]].payload
  BY DEF Written
<1>5. \A i \in 1..m : RowLines[i] \in 1..(n - 1) /\ lines'[RowLines[i]] = lines[RowLines[i]]
  BY <1>1, <1>2, <1>4, Zenon
<1>6. CASE line.kind = "row"
  <2> DEFINE new == [payload |-> line.payload, wait |-> line.wait]
  <2>1. line.wait \in Nat /\ line \in AllLines
    <3>1. RowFits(reader, line)
      BY <1>6, Zenon DEF Accepts
    <3>2. line.wait # Malformed
      BY <3>1, Zenon DEF RowFits
    <3> QED BY <1>6, <3>2 DEF IsLine, Grows
  <2>2. new \in RowType
    <3> DEFINE P == {l.payload : l \in AllLines}
    <3>1. line.payload \in P
      BY <2>1, Zenon
    <3> HIDE DEF P
    <3>2. new \in [payload : P, wait : Nat]
      BY <2>1, <3>1
    <3> QED BY <3>2, Zenon DEF RowType, P
  <2>3. reader'.rows = Append(reader.rows, new) /\ RowLines' = Append(RowLines, n)
    BY <1>3, <1>6 DEF Lays
  <2>4. new.payload = line.payload
    OBVIOUS
  <2> HIDE DEF new
  <2>5. /\ reader'.rows \in Seq(RowType) /\ RowLines' \in Seq(Nat)
        /\ Len(reader'.rows) = m + 1 /\ Len(RowLines') = m + 1 /\ reader'.rows # <<>>
        /\ \A i \in 1..m : reader'.rows[i] = reader.rows[i] /\ RowLines'[i] = RowLines[i]
        /\ reader'.rows[m + 1] = new /\ RowLines'[m + 1] = n
    BY <1>1, <1>4, <2>2, <2>3
  <2>6. n \in Kinds({"row"})' /\ \A i \in Kinds({"row"}) : i \in Kinds({"row"})'
    BY <1>2, <1>6
  <2>7. ASSUME NEW i \in 1..(m + 1)
        PROVE  RowLines'[i] \in Kinds({"row"})' /\ reader'.rows[i].payload = lines'[RowLines'[i]].payload
    <3>1. CASE i = m + 1
      BY <1>1, <2>4, <2>5, <2>6, <3>1, Zenon
    <3>2. CASE i # m + 1
      <4>1. i \in 1..m
        BY <1>4, <3>2
      <4> HIDE DEF m
      <4>2. reader'.rows[i] = reader.rows[i] /\ RowLines'[i] = RowLines[i]
        BY <2>5, <4>1, Zenon
      <4>3. RowLines[i] \in Kinds({"row"}) /\ reader.rows[i].payload = lines[RowLines[i]].payload
        BY <1>4, <4>1, Zenon
      <4>4. lines'[RowLines[i]] = lines[RowLines[i]]
        BY <1>5, <4>1, Zenon
      <4> QED BY <2>6, <4>2, <4>3, <4>4, Zenon
    <3> QED BY <3>1, <3>2
  <2> HIDE DEF m
  <2> QED BY <2>5, <2>7, Zenon DEF Written
<1>7. CASE line.kind # "row"
  <2>1. Kinds({"row"})' = Kinds({"row"}) /\ RowLines' = RowLines
    BY <1>2, <1>3, <1>7
  <2>2. SameRows(reader.rows, reader'.rows)
    <3>1. SameRows(reader.rows, reader.rows)
      BY <1>4 DEF SameRows
    <3> QED BY <1>7, <3>1 DEF Lays, IsLine, LineKinds, Accepts
  <2>3. /\ reader'.rows \in Seq(RowType) /\ Len(reader'.rows) = m
        /\ \A i \in 1..m : reader'.rows[i].payload = reader.rows[i].payload
    BY <2>2 DEF SameRows
  <2>4. reader'.rows = <<>> => reader.rows = <<>>
    BY <1>4, <2>3
  <2> HIDE DEF m
  <2>5. \A i \in 1..m : RowLines'[i] \in Kinds({"row"})' /\ reader'.rows[i].payload = lines'[RowLines'[i]].payload
    BY <1>4, <1>5, <2>1, <2>3, Zenon
  <2> QED BY <1>4, <2>1, <2>3, <2>4, <2>5, Zenon DEF Written
<1> QED BY <1>6, <1>7

\* The segments with one more, that has no row yet.
Opened(segments, rows, when, new) ==
  /\ Ordered(new, rows) /\ new[Len(new)].when = when
  /\ Len(new) = Len(segments) + 1
  /\ \A i \in 1..Len(segments) : new[i] = segments[i]

\* A segment opened after the others, while no row is added.
LEMMA SegmentOpens ==
  ASSUME NEW segments, IsSegments(segments), NEW rows \in Nat, Ordered(segments, rows), NEW when,
         NEW new, new = Append(segments, Fresh(when, rows + 1))
  PROVE  Opened(segments, rows, when, new)
<1> DEFINE L == Len(segments)
           s == Fresh(when, rows + 1)
<1>1. L \in Nat /\ Len(new) = L + 1 /\ \A i \in 1..(L + 1) : new[i] = IF i = L + 1 THEN s ELSE segments[i]
  BY SegmentsLength, SegmentAppended, Zenon
<1>2. s.begin = rows + 1 /\ s.end = rows + 1 /\ s.when = when
  BY DEF Fresh
<1>3. /\ L >= 1 /\ segments[L].end = rows + 1
      /\ \A i \in 1..L : /\ segments[i].begin \in Nat /\ segments[i].end \in Nat
                         /\ 1 <= segments[i].begin /\ segments[i].begin <= segments[i].end
      /\ \A i, j \in 1..L : i < j => segments[i].end <= segments[j].begin
  BY DEF Ordered
<1> HIDE DEF L, s
<1>4. \A i \in 1..L : new[i] = segments[i]
  BY <1>1
<1>5. new[L + 1] = s
  BY <1>1
<1>6. ASSUME NEW i \in 1..(L + 1)
      PROVE  /\ new[i].begin \in Nat /\ new[i].end \in Nat
             /\ 1 <= new[i].begin /\ new[i].begin <= new[i].end
  <2>1. CASE i \in 1..L
    BY <1>3, <1>4, <2>1, Zenon
  <2>2. CASE i = L + 1
    <3>1. new[i].begin = rows + 1 /\ new[i].end = rows + 1
      BY <1>2, <1>5, <2>2, Zenon
    <3>2. rows + 1 \in Nat /\ 1 <= rows + 1 /\ rows + 1 <= rows + 1
      OBVIOUS
    <3> QED BY <3>1, <3>2, Zenon
  <2> QED BY <1>1, <2>1, <2>2
<1>7. ASSUME NEW i \in 1..(L + 1), NEW j \in 1..(L + 1), i < j PROVE new[i].end <= new[j].begin
  <2>1. i \in 1..L
    BY <1>1, <1>7
  <2>2. CASE j \in 1..L
    BY <1>3, <1>4, <1>7, <2>1, <2>2, Zenon
  <2>3. CASE j = L + 1
    <3>1. segments[i].end <= rows + 1
      <4>1. CASE i = L
        BY <1>3, <4>1
      <4>2. CASE i # L
        <5>1. L \in 1..L /\ i < L
          BY <1>1, <1>3, <2>1, <4>2
        <5>2. segments[i].end <= segments[L].begin /\ segments[L].begin <= segments[L].end
          BY <1>3, <2>1, <5>1, Zenon
        <5>3. segments[i].end \in Nat /\ segments[L].begin \in Nat
          BY <1>3, <2>1, <5>1, Zenon
        <5> QED BY <1>3, <5>2, <5>3
      <4> QED BY <4>1, <4>2
    <3> QED BY <1>2, <1>4, <1>5, <2>1, <2>3, <3>1, Zenon
  <2> QED BY <1>1, <2>2, <2>3
<1>8. L + 1 >= 1
  BY <1>1
<1>9. Ordered(new, rows)
  BY <1>1, <1>2, <1>5, <1>6, <1>7, <1>8, Zenon DEF Ordered
<1> QED BY <1>1, <1>2, <1>4, <1>5, <1>9, Zenon DEF L, Opened

\* A row added to the last.
LEMMA SegmentExtends ==
  ASSUME NEW segments, IsSegments(segments), NEW rows \in Nat, Ordered(segments, rows),
         NEW new, Extended(segments, new, rows + 2)
  PROVE  Ordered(new, rows + 1)
<1> DEFINE L == Len(segments)
<1>1. L \in Nat /\ Len(new) = L
  BY SegmentsLength, Zenon DEF Extended
<1>2. \A i \in 1..L : /\ new[i].begin = segments[i].begin
                      /\ new[i].end = IF i = L THEN rows + 2 ELSE segments[i].end
  BY DEF Extended
<1>3. /\ L >= 1 /\ segments[L].end = rows + 1
      /\ \A i \in 1..L : /\ segments[i].begin \in Nat /\ segments[i].end \in Nat
                         /\ 1 <= segments[i].begin /\ segments[i].begin <= segments[i].end
      /\ \A i, j \in 1..L : i < j => segments[i].end <= segments[j].begin
  BY DEF Ordered
<1> HIDE DEF L
<1>4. L \in 1..L
  BY <1>1, <1>3
<1>5. ASSUME NEW i \in 1..L
      PROVE  /\ new[i].begin \in Nat /\ new[i].end \in Nat
             /\ 1 <= new[i].begin /\ new[i].begin <= new[i].end
  <2>1. /\ segments[i].begin \in Nat /\ segments[i].end \in Nat
        /\ 1 <= segments[i].begin /\ segments[i].begin <= segments[i].end
    BY <1>3, Zenon
  <2>2. CASE i = L
    BY <1>2, <1>3, <1>4, <2>1, <2>2
  <2>3. CASE i # L
    BY <1>2, <2>1, <2>3
  <2> QED BY <2>2, <2>3
<1>6. ASSUME NEW i \in 1..L, NEW j \in 1..L, i < j PROVE new[i].end <= new[j].begin
  <2>1. i # L
    BY <1>1, <1>6
  <2>2. segments[i].end <= segments[j].begin
    BY <1>3, <1>6, Zenon
  <2> QED BY <1>2, <2>1, <2>2, Zenon
<1>7. new[L].end = (rows + 1) + 1
  BY <1>2, <1>4
<1> QED BY <1>1, <1>3, <1>5, <1>6, <1>7, Zenon DEF Ordered

\* The selector of a block, before its @else.
LEMMA BlockStartsPlain ==
  ASSUME NEW line, line.kind \in {"lap", "every"}, Block(line) # None
  PROVE  [Block(line)[1] EXCEPT !.negate = FALSE] = Block(line)[1]
<1>1. ASSUME NEW a, NEW b, NEW c, NEW d, Block(line) = <<Laps(a, b, c, d)>>
      PROVE  [Block(line)[1] EXCEPT !.negate = FALSE] = Block(line)[1]
  <2> DEFINE s == [first |-> a, last |-> b, every |-> c, keep_time |-> d, negate |-> FALSE]
  <2>1. Block(line)[1] = s
    <3>1. Laps(a, b, c, d) = s
      BY Zenon DEF Laps
    <3> QED BY <1>1, <3>1
  <2>2. [s EXCEPT !.negate = FALSE] = s
    <3>1. s = [x \in DOMAIN s |-> s[x]] /\ s.negate = FALSE
      OBVIOUS
    <3> HIDE DEF s
    <3>2. [s EXCEPT !.negate = FALSE] = [x \in DOMAIN s |-> IF x = "negate" THEN FALSE ELSE s[x]]
      BY <3>1
    <3> QED BY <3>1, <3>2
  <2> QED BY <2>1, <2>2, Zenon
<1>2. CASE line.kind = "lap"
  <2>1. Block(line) = LapBlock(line)
    BY <1>2, Zenon DEF Block
  <2> QED BY <1>1, <2>1, Zenon DEF LapBlock
<1>3. CASE line.kind = "every"
  <2>1. line.kind # "lap"
    BY <1>3
  <2>2. Block(line) = EveryBlock(line)
    BY <2>1, Zenon DEF Block
  <2> QED BY <1>1, <2>2, Zenon DEF EveryBlock
<1> QED BY <1>2, <1>3

LEMMA SegmentsDivide ==
  ASSUME NEW line, IsLine(line), Grows(line), Numbered(reader), Written, Divided, Prefix,
         Remembers, Fits(line), Accepts(reader, line), Lays(reader, reader', line)
  PROVE  Divided'
<1> PICK n : n = Number
  OBVIOUS
<1> DEFINE m == Len(reader.rows)
           old == reader.segments
           new == reader'.segments
           L == Len(old)
<1>1. /\ IsSegments(old) /\ L \in Nat /\ L >= 1 /\ L \in 1..L /\ Ordered(old, m)
      /\ old[L].when = WhenOf(Number)
      /\ \A row \in 1..m : \E i \in 1..L :
           InSegment(old, i, row) /\ \A k \in Nat : k = RowLines[row] => old[i].when = WhenOf(k)
  <2>1. IsSegments(old) /\ L \in Nat
    BY SegmentsLength, Zenon DEF Numbered, IsReader
  <2>2. Ordered(old, m) /\ L >= 1
    BY Zenon DEF Divided, Ordered
  <2>3. L \in 1..L
    BY <2>1, <2>2
  <2> QED BY <2>1, <2>2, <2>3, Zenon DEF Divided, Selected
<1>2. /\ m \in Nat /\ Len(RowLines) = m /\ RowLines \in Seq(Nat)
      /\ \A i \in 1..m : RowLines[i] \in Kinds({"row"})
  BY DEF Written
<1>3. /\ n \in Nat /\ n >= 1 /\ n \in 1..n /\ \A i \in 1..(n - 1) : i \in 1..n
      /\ Kinds({"row"}) \subseteq 1..(n - 1)
  BY LinesGrow, KindsGrow
<1>4. RowLines' = IF line.kind = "row" THEN Append(RowLines, n) ELSE RowLines
  BY RowLinesGrow, Zenon
<1>5. \A i \in 1..n : WhenOf(i)' = WhenOf(i)
  BY WhenGrows, Zenon
<1>6. /\ \A row \in 1..m : RowLines'[row] = RowLines[row]
      /\ line.kind = "row" => RowLines'[m + 1] = n
  BY <1>2, <1>3, <1>4
<1>7. ASSUME NEW row \in 1..m, NEW k \in Nat, k = RowLines'[row]
      PROVE  k = RowLines[row] /\ WhenOf(k)' = WhenOf(k)
  BY <1>2, <1>3, <1>5, <1>6, <1>7, Zenon
<1> DEFINE Finds(row) == \E i \in 1..Len(new) :
             /\ InSegment(new, i, row)
             /\ \A k \in Nat : k = RowLines'[row] => new[i].when = WhenOf(k)'
<1>8. ASSUME Len(new) \in Nat, Len(new) >= L,
             \A i \in 1..L : /\ new[i].begin = old[i].begin /\ new[i].when = old[i].when
                             /\ new[i].end \in Nat /\ old[i].end <= new[i].end
      PROVE  \A row \in 1..m : Finds(row)
  <2> SUFFICES ASSUME NEW row \in 1..m PROVE Finds(row)
    OBVIOUS
  <2>1. PICK i \in 1..L :
          InSegment(old, i, row) /\ \A k \in Nat : k = RowLines[row] => old[i].when = WhenOf(k)
    BY <1>1, Zenon
  <2>2. /\ i \in 1..Len(new) /\ old[i].begin \in Nat /\ old[i].end \in Nat
        /\ new[i].begin = old[i].begin /\ new[i].when = old[i].when
        /\ new[i].end \in Nat /\ old[i].end <= new[i].end
    <3>1. i \in 1..Len(new)
      BY <1>1, <1>8
    <3>2. old[i].begin \in Nat /\ old[i].end \in Nat
      BY <1>1, <2>1, Zenon DEF Ordered
    <3> QED BY <1>8, <3>1, <3>2, Zenon
  <2>3. InSegment(new, i, row)
    <3>1. row \in Nat /\ old[i].begin <= row /\ row < old[i].end
      BY <1>2, <2>1 DEF InSegment
    <3>2. new[i].begin <= row /\ row < new[i].end
      BY <2>2, <3>1
    <3> QED BY <3>2, Zenon DEF InSegment
  <2>4. \A k \in Nat : k = RowLines'[row] => new[i].when = WhenOf(k)'
    BY <1>7, <2>1, <2>2, Zenon
  <2> QED BY <2>2, <2>3, <2>4, Zenon
<1>9. \A i \in 1..L : old[i].end \in Nat /\ old[i].end <= old[i].end
  <2>1. \A i \in 1..L : old[i].end \in Nat
    BY <1>1, Zenon DEF Ordered
  <2> HIDE DEF L
  <2> QED BY <2>1
<1>10. CASE line.kind = "row"
  <2>1. Len(reader'.rows) = m + 1 /\ Extended(old, new, m + 2)
    <3>1. /\ reader'.rows = Append(reader.rows, [payload |-> line.payload, wait |-> line.wait])
          /\ Extended(old, new, m + 2)
      BY <1>10, Zenon DEF Lays
    <3>2. reader.rows \in Seq(RowType)
      BY Zenon DEF Written
    <3>3. Len(reader'.rows) = m + 1
      BY <3>1, <3>2
    <3> QED BY <3>1, <3>3, Zenon
  <2>2. Ordered(new, m + 1)
    BY <1>1, <1>2, <2>1, SegmentExtends, Zenon
  <2>3. /\ Len(new) = L
        /\ \A i \in 1..L : new[i].begin = old[i].begin /\ new[i].when = old[i].when
        /\ \A i \in 1..L : new[i].end = IF i = L THEN m + 2 ELSE old[i].end
    BY <2>1, Zenon DEF Extended
  <2>4. old[L].end = m + 1 /\ old[L].begin \in Nat /\ old[L].begin <= m + 1
    BY <1>1, Zenon DEF Ordered
  <2> HIDE DEF L, m
  <2>5. \A i \in 1..L : new[i].end \in Nat /\ old[i].end <= new[i].end
    <3> SUFFICES ASSUME NEW i \in 1..L PROVE new[i].end \in Nat /\ old[i].end <= new[i].end
      OBVIOUS
    <3>1. CASE i = L
      BY <1>2, <1>9, <2>3, <2>4, <3>1
    <3>2. CASE i # L
      <4>1. new[i].end = old[i].end
        BY <2>3, <3>2, Zenon
      <4> QED BY <1>9, <4>1, Zenon
    <3> QED BY <3>1, <3>2
  <2>6. Len(new) \in Nat /\ Len(new) >= L
    BY <1>1, <2>3
  <2>7. \A row \in 1..m : Finds(row)
    BY <1>8, <2>3, <2>5, <2>6, Zenon
  <2>8. new[L].when = WhenOf(Number)'
    <3>1. WhenOf(Number)' = WhenOf(Number)
      BY <1>10, WhenGrows, Zenon
    <3> QED BY <1>1, <2>3, <3>1, Zenon
  <2>9. Finds(m + 1)
    <3>1. InSegment(new, L, m + 1)
      <4>1. new[L].begin <= m + 1 /\ m + 1 < new[L].end
        BY <1>1, <1>2, <2>3, <2>4
      <4> QED BY <4>1, Zenon DEF InSegment
    <3>2. \A k \in Nat : k = RowLines'[m + 1] => new[L].when = WhenOf(k)'
      <4> SUFFICES ASSUME NEW k \in Nat, k = RowLines'[m + 1] PROVE new[L].when = WhenOf(k)'
        OBVIOUS
      <4>1. k = n /\ k \in 1..n /\ k = Number
        BY <1>3, <1>6, <1>10, Zenon
      <4>2. WhenOf(k)' = WhenOf(k)
        BY <1>5, <4>1, Zenon
      <4>3. WhenOf(k) = WhenOf(Number)
        BY <4>1, Zenon
      <4> QED BY <1>1, <2>3, <4>2, <4>3, Zenon
    <3> QED BY <1>1, <2>3, <3>1, <3>2, Zenon
  <2>10. \A row \in 1..(m + 1) : Finds(row)
    <3> SUFFICES ASSUME NEW row \in 1..(m + 1) PROVE Finds(row)
      OBVIOUS
    <3>1. row \in 1..m \/ row = m + 1
      BY <1>2
    <3> QED BY <2>7, <2>9, <3>1, Zenon
  <2>11. Selected(reader.segments, Len(reader.rows))'
    BY <2>1, <2>10, Zenon DEF Selected
  <2> QED BY <2>1, <2>2, <2>3, <2>8, <2>11, Zenon DEF Divided
<1>11. CASE line.kind \in {"wait", "blank", "format", "screen", "coords"}
  <2>1. Len(reader'.rows) = m /\ SameOutline(old, new)
    <3>1. CASE line.kind = "wait"
      BY <3>1, Zenon DEF Lays, SameRows
    <3>2. CASE line.kind # "wait"
      <4>1. line.kind \in {"blank", "format", "screen", "coords"}
        BY <1>11, <3>2
      <4>2. reader'.rows = reader.rows /\ new = old
        BY <4>1, Zenon DEF Lays
      <4>3. SameOutline(old, old)
        BY Zenon DEF SameOutline
      <4> QED BY <4>2, <4>3, Zenon
    <3> QED BY <3>1, <3>2
  <2>2. /\ Len(new) = L
        /\ \A i \in 1..L : /\ new[i].begin = old[i].begin /\ new[i].end = old[i].end
                           /\ new[i].when = old[i].when
    BY <2>1, Zenon DEF SameOutline
  <2>3. Ordered(new, m)
    BY <1>1, <2>2, Zenon DEF Ordered
  <2>4. Len(new) \in Nat /\ Len(new) >= L
    BY <1>1, <2>2
  <2>5. \A row \in 1..m : Finds(row)
    BY <1>8, <1>9, <2>2, <2>4, Zenon
  <2>6. new[L].when = WhenOf(Number)'
    <3>1. line.kind \notin {"lap", "every", "end", "else"}
      BY <1>11
    <3>2. WhenOf(Number)' = WhenOf(Number)
      BY <3>1, WhenGrows, Zenon
    <3> QED BY <1>1, <2>2, <3>2, Zenon
  <2>7. Selected(reader.segments, Len(reader.rows))'
    BY <2>1, <2>5, Zenon DEF Selected
  <2> QED BY <2>1, <2>2, <2>3, <2>6, <2>7, Zenon DEF Divided
<1>12. ASSUME NEW when, reader'.rows = reader.rows, new = Append(old, Fresh(when, m + 1)),
              WhenOf(Number)' = when
       PROVE  Divided'
  <2>1. /\ Ordered(new, m) /\ new[Len(new)].when = when /\ Len(new) = L + 1
        /\ \A i \in 1..L : new[i] = old[i]
    <3> HIDE DEF m, old, new
    <3>1. IsSegments(old) /\ m \in Nat /\ Ordered(old, m) /\ new = Append(old, Fresh(when, m + 1))
      BY <1>1, <1>2, <1>12, Zenon
    <3>2. Opened(old, m, when, new)
      BY <3>1, SegmentOpens, Zenon
    <3> QED BY <3>2, Zenon DEF Opened
  <2>2. Len(new) \in Nat /\ Len(new) >= L
    BY <1>1, <2>1
  <2>3. \A row \in 1..m : Finds(row)
    BY <1>8, <1>9, <2>1, <2>2, Zenon
  <2>4. Selected(reader.segments, Len(reader.rows))'
    BY <1>12, <2>3, Zenon DEF Selected
  <2> QED BY <1>12, <2>1, <2>4, Zenon DEF Divided
<1>13. CASE line.kind \in {"lap", "every"}
  <2>1. Open = 0 /\ Block(line) # None
    BY <1>13, Zenon DEF Fits
  <2>2. WhenOf(Number)' = [Block(line)[1] EXCEPT !.negate = FALSE]
    BY <1>13, <2>1, WhenGrows, Zenon
  <2>3. [Block(line)[1] EXCEPT !.negate = FALSE] = Block(line)[1]
    BY <1>13, <2>1, BlockStartsPlain
  <2>4. reader'.rows = reader.rows /\ new = Append(old, Fresh(Block(line)[1], m + 1))
    BY <1>13, Zenon DEF Lays
  <2> QED BY <1>12, <2>2, <2>3, <2>4, Zenon
<1>14. CASE line.kind = "else"
  <2>1. Open # 0
    <3>1. line.kind \in {"end", "else"}
      BY <1>14
    <3> QED BY <3>1, Zenon DEF Fits
  <2>2. WhenOf(Number)' = [Block(lines[Open])[1] EXCEPT !.negate = TRUE]
    BY <1>14, <2>1, WhenGrows, Zenon
  <2>3. reader.block = Block(lines[Open])[1]
    BY <2>1, Zenon DEF Remembers
  <2>4. /\ reader'.rows = reader.rows
        /\ new = Append(old, Fresh([reader.block EXCEPT !.negate = TRUE], m + 1))
    BY <1>14, Zenon DEF Lays
  <2> QED BY <1>12, <2>2, <2>3, <2>4, Zenon
<1>15. CASE line.kind = "end"
  <2>1. WhenOf(Number)' = Always
    BY <1>15, WhenGrows, Zenon
  <2>2. reader'.rows = reader.rows /\ new = Append(old, Fresh(Always, m + 1))
    BY <1>15, Zenon DEF Lays
  <2> QED BY <1>12, <2>1, <2>2, Zenon
<1>16. line.kind \notin {"screen_comment", "unknown"}
  BY Zenon DEF Fits
<1> QED BY <1>10, <1>11, <1>13, <1>14, <1>15, <1>16 DEF IsLine, LineKinds

-----------------------------------------------------------------------------
(* The end of the file                                                     *)

\* What is kept was there, and what has rows is kept.
LEMMA KeptHaveRows ==
  ASSUME NEW segments, IsSegments(segments)
  PROVE  /\ \A s \in Range(NotEmpty(segments)) : \E i \in 1..Len(segments) : s = segments[i]
         /\ \A i \in 1..Len(segments) :
              HasRows(segments[i]) => segments[i] \in Range(NotEmpty(segments))
<1> DEFINE n == Len(segments)
           S == {segments[i] : i \in 1..n}
<1>1. PICK w \in [0..n -> Seq(S)] : KeptOneByOne(segments, w, n)
  BY KeptSteps, Zenon
<1>2. n \in Nat /\ \A i \in 1..n : segments[i] \in S
  BY KeptSteps, Zenon
<1>3. \A s \in S : \E i \in 1..n : s = segments[i]
  OBVIOUS
<1> HIDE DEF n, S
<1> DEFINE T == {i \in 0..n : \A j \in 1..i : HasRows(segments[j]) => segments[j] \in Range(w[i])}
<1>4. 0 \in T
  BY <1>2
<1>5. ASSUME NEW i \in 1..n, i - 1 \in T PROVE i \in T
  <2>1. w[i - 1] \in Seq(S) /\ segments[i] \in S /\ w[i] = KeptWith(segments, w[i - 1], i)
    <3>1. i - 1 \in 0..n
      BY <1>2
    <3> QED BY <1>1, <1>2, <3>1, Zenon DEF KeptOneByOne
  <2>2. Range(w[i - 1]) \subseteq Range(w[i]) /\ (HasRows(segments[i]) => segments[i] \in Range(w[i]))
    <3> DEFINE v == w[i - 1]
               s == segments[i]
    <3>1. CASE w[i] = Append(v, s)
      <4>1. v \in Seq(S) /\ s \in S
        BY <2>1
      <4> HIDE DEF v, s
      <4>2. /\ DOMAIN Append(v, s) = 1..(Len(v) + 1) /\ DOMAIN v = 1..Len(v) /\ Len(v) \in Nat
            /\ Append(v, s)[Len(v) + 1] = s /\ \A j \in 1..Len(v) : Append(v, s)[j] = v[j]
        BY <4>1
      <4>3. Len(v) + 1 \in 1..(Len(v) + 1) /\ \A j \in 1..Len(v) : j \in 1..(Len(v) + 1)
        BY <4>2
      <4> QED BY <3>1, <4>2, <4>3, Zenon DEF Range, v, s
    <3>2. CASE w[i] = v /\ ~HasRows(s)
      BY <3>2, Zenon
    <3> QED BY <2>1, <3>1, <3>2, Zenon DEF KeptWith
  <2>3. ASSUME NEW j \in 1..i, HasRows(segments[j]) PROVE segments[j] \in Range(w[i])
    <3>1. j = i \/ j \in 1..(i - 1)
      BY <1>2
    <3> QED BY <1>5, <2>2, <2>3, <3>1, Zenon
  <2>4. i \in 0..n
    BY <1>2
  <2> QED BY <2>3, <2>4, Zenon
<1>6. n \in T
  <2> HIDE DEF T
  <2>1. 0..n \subseteq T
    BY <1>2, <1>4, <1>5, StepByStep
  <2> QED BY <1>2, <2>1
<1>7. \A i \in 1..n : HasRows(segments[i]) => segments[i] \in Range(NotEmpty(segments))
  BY <1>1, <1>6, Zenon DEF KeptOneByOne
<1>8. \A s \in Range(NotEmpty(segments)) : s \in S
  <2> DEFINE kept == w[n]
  <2>1. kept \in Seq(S)
    <3>1. n \in 0..n
      BY <1>2
    <3> QED BY <1>1, <3>1
  <2>2. \A i \in DOMAIN kept : kept[i] \in S
    <3> HIDE DEF kept
    <3> QED BY <2>1
  <2> QED BY <1>1, <2>2, Zenon DEF KeptOneByOne, Range
<1> QED BY <1>3, <1>7, <1>8, Zenon DEF n

-----------------------------------------------------------------------------
(* What holds while load() reads, and at the end                           *)

\* The invariant: no error so far means that the lines so far follow the format and that their
\* rows are where they belong.
FormatInv ==
  /\ alphabet \in DOMAIN Alphabets /\ lines \in Seq(AllLines) /\ Numbered(reader)
  /\ ~reader.done => (reader.errors = <<>> <=> Prefix)
  /\ ~reader.done /\ reader.errors = <<>> => Remembers /\ Written /\ Divided
  /\ AcceptsTheFormat /\ RowsRunWhereWritten

\* A whole file follows the format when its beginning does, it has a row, and no block is open.
LEMMA WholeFile ==
  lines \in Seq(AllLines) => (WellFormed <=> Prefix /\ Kinds({"row"}) # {} /\ Open = 0)
<1> SUFFICES ASSUME lines \in Seq(AllLines)
             PROVE  WellFormed <=> Prefix /\ Kinds({"row"}) # {} /\ Open = 0
  OBVIOUS
<1> PICK n : n = Number
  OBVIOUS
<1>1. n \in Nat /\ DOMAIN lines = 1..(n - 1)
  BY DEF Number
<1>2. \A kinds : Kinds(kinds) \subseteq 1..(n - 1)
  BY <1>1, Zenon DEF Kinds
<1> DEFINE H == Kinds({"lap", "every"})
           E == Kinds({"end"})
           Ends == \A i \in H : \E k \in E : k > i
<1>3. Open = 0 <=> Ends
  <2>1. Open = 0 <=> Heads(n) = {}
    BY OpenerIs, Zenon DEF Open
  <2>2. Heads(n) = {j \in H : j < n /\ {k \in E : j < k /\ k < n} = {}}
    BY Zenon DEF Heads
  <2>3. H \subseteq 1..(n - 1) /\ E \subseteq 1..(n - 1)
    BY <1>2, Zenon
  <2> HIDE DEF H, E
  <2>4. Heads(n) = {j \in H : {k \in E : j < k} = {}}
    <3>1. \A j \in H : j < n
      BY <1>1, <2>3
    <3>2. ASSUME NEW j \in H PROVE {k \in E : j < k /\ k < n} = {k \in E : j < k}
      <4>1. \A k \in E : k < n
        BY <1>1, <2>3
      <4> QED BY <4>1, Zenon
    <3> QED BY <2>2, <3>1, <3>2, Zenon
  <2>5. Heads(n) = {} <=> Ends
    <3>1. ASSUME NEW j \in H, NEW k \in E PROVE k > j <=> j < k
      BY <1>1, <2>3
    <3> QED BY <2>4, <3>1, Zenon
  <2> QED BY <2>1, <2>5, Zenon
<1>4. BlocksNest <=> HeadsFit /\ Ends /\ InBlocks /\ ElsesFit
  BY Zenon DEF BlocksNest, HeadsFit, InBlocks, ElsesFit
<1> HIDE DEF Ends
<1>5. WellFormed <=> Kinds({"row"}) # {} /\ Known /\ DataFits /\ BlocksNest /\ DirectivesComeOnce
  BY Zenon DEF WellFormed, Known, DataFits
<1> QED BY <1>3, <1>4, <1>5, Zenon DEF Prefix

\* Nothing of it depends on anything but the lines.
LEMMA SameFile ==
  ASSUME lines' = lines
  PROVE  /\ WellFormed' <=> WellFormed
         /\ RowLines' = RowLines
         /\ \A i : WhenOf(i)' = WhenOf(i)
<1>1. \A kinds : Kinds(kinds)' = Kinds(kinds)
  BY Zenon DEF Kinds
<1>2. \A i : OpenerOf(i)' = OpenerOf(i)
  BY <1>1, Zenon DEF OpenerOf
<1>3. RowLines' = RowLines
  BY Zenon DEF RowLines
<1>4. \A i : WhenOf(i)' = WhenOf(i)
  BY <1>1, <1>2, Zenon DEF WhenOf
<1>5. BlocksNest' <=> BlocksNest
  BY <1>1, <1>2, Zenon DEF BlocksNest
<1>6. DirectivesComeOnce' <=> DirectivesComeOnce
  BY <1>1, Zenon DEF DirectivesComeOnce
<1>7. WellFormed' <=> WellFormed
  BY <1>1, <1>5, <1>6, Zenon DEF WellFormed
<1> QED BY <1>3, <1>4, <1>7, Zenon

\* Before the first line nothing is known, and nothing is wrong.
LEMMA FormatInit == Init => FormatInv
<1> SUFFICES ASSUME Init PROVE FormatInv
  OBVIOUS
<1>1. alphabet \in DOMAIN Alphabets /\ lines = <<>> /\ reader = Blank
  BY Zenon DEF Init, ReaderInit
<1>2. /\ Blank.rows = <<>> /\ Blank.segments = <<Fresh(Always, 1)>> /\ Blank.errors = <<>>
      /\ Blank.stopped = FALSE /\ Blank.seen_row = FALSE /\ Blank.screen = FALSE
      /\ Blank.coords = "none" /\ Blank.in_block = FALSE /\ Blank.done = FALSE
      /\ Blank.block_line = 0
  BY DEF Blank
<1>3. lines \in Seq(AllLines) /\ DOMAIN lines = {} /\ Len(lines) = 0 /\ Number = 1
  BY <1>1 DEF Number
<1>4. \A kinds : Kinds(kinds) = {}
  BY <1>3, Zenon DEF Kinds
<1>5. \A i : OpenerOf(i) = 0
  <2>1. \A i : Heads(i) = {}
    BY <1>4, Zenon DEF Heads
  <2> QED BY <1>3, <2>1, OpenerIs, Zenon
<1>6. Numbered(reader)
  <2>1. Blank.errors \in Seq(Nat) /\ Blank.block_line \in Nat
    BY <1>2
  <2> QED BY <1>1, <2>1, BlankIsReader, Zenon DEF Numbered
<1>7. Prefix
  <2>1. DirectivesComeOnce
    <3>1. Fraction = {}
      BY <1>4, Zenon DEF Fraction
    <3> QED BY <1>4, <3>1, DirectivesAre, Zenon
             DEF Before, Shaped, Named, OneScreen, OneCoords, Agree, RowsAgree
  <2> QED BY <1>4, <2>1, Zenon DEF Prefix, Known, DataFits, HeadsFit, InBlocks, ElsesFit
<1>8. Remembers
  <2>1. Fraction = {}
    BY <1>4, Zenon DEF Fraction
  <2>2. Open = 0
    BY <1>5, Zenon DEF Open
  <2>3. "none" # "normalized"
    OBVIOUS
  <2> QED BY <1>1, <1>2, <1>4, <2>1, <2>2, <2>3, Zenon DEF Remembers
<1>9. RowLines = <<>>
  <2>1. PICK w \in [0..0 -> Seq(Nat)] : Collects(lines, 0, w)
    <3>1. 0 \in Nat
      OBVIOUS
    <3> QED BY <1>3, <3>1, RowLinesSteps, Zenon
  <2>2. RowLinesOf(lines) = w[0]
    BY <1>3, <2>1, RowLinesAre
  <2> QED BY <2>1, <2>2, Zenon DEF RowLines, RowLinesOf, Collects
<1>10. Written
  <2>1. Blank.rows \in Seq(RowType) /\ Len(Blank.rows) = 0 /\ RowLines \in Seq(Nat) /\ Len(RowLines) = 0
    BY <1>2, <1>9
  <2>2. \A i \in 1..0 : FALSE
    OBVIOUS
  <2> QED BY <1>1, <1>4, <2>1, <2>2, Zenon DEF Written
<1>11. Divided
  <2> DEFINE first == Fresh(Always, 1)
  <2>1. first.begin = 1 /\ first.end = 1 /\ first.when = Always
    BY DEF Fresh
  <2>2. Blank.segments = <<first>> /\ Len(Blank.rows) = 0
    BY <1>2
  <2> HIDE DEF first
  <2>3. Len(<<first>>) = 1 /\ <<first>>[1] = first
    OBVIOUS
  <2>4. Ordered(<<first>>, 0)
    BY <2>1, <2>3 DEF Ordered
  <2>5. Selected(<<first>>, 0)
    <3>1. \A i \in 1..0 : FALSE
      OBVIOUS
    <3> QED BY <3>1, Zenon DEF Selected
  <2>6. WhenOf(Number) = Always
    BY <1>5, WhenIs, Zenon
  <2> QED BY <1>1, <2>1, <2>2, <2>3, <2>4, <2>5, <2>6, Zenon DEF Divided
<1>12. AcceptsTheFormat /\ RowsRunWhereWritten
  BY <1>1, <1>2, Zenon DEF AcceptsTheFormat, RowsRunWhereWritten, Accepted
<1> QED BY <1>1, <1>2, <1>3, <1>6, <1>7, <1>8, <1>10, <1>11, <1>12, Zenon DEF FormatInv

\* One line more.
LEMMA FormatRead ==
  ASSUME FormatInv, NEW line \in Alphabets[alphabet], Read(line)
  PROVE  FormatInv'
<1>1. /\ ~reader.done /\ alphabet' = alphabet /\ alphabet \in DOMAIN Alphabets
      /\ lines \in Seq(AllLines) /\ lines' = Append(lines, line)
      /\ reader' = ReadLine(reader, line, Len(lines')) /\ Numbered(reader)
  BY Zenon DEF Read, FormatInv
<1>2. line \in AllLines /\ IsLine(line) /\ Grows(line)
  <2>1. line \in AllLines
    BY <1>1, Zenon DEF AllLines
  <2> QED BY <1>1, <2>1, LinesAreLines, Zenon DEF Grows
<1>3. Len(lines') \in Nat /\ lines' \in Seq(AllLines)
  BY <1>1, <1>2
<1>4. Judged(reader, line, reader')
  BY <1>1, <1>2, <1>3, LineJudged, Zenon
<1>5. Numbered(reader')
  BY <1>4, Zenon DEF Judged
<1>6. CASE reader.errors = <<>> /\ Accepts(reader, line)
  <2>1. Prefix /\ Remembers /\ Written /\ Divided
    BY <1>1, <1>6, Zenon DEF FormatInv
  <2>2. Fits(line)
    BY <1>1, <1>2, <1>6, <2>1, ReaderJudgesAlike, Zenon
  <2>3. reader'.errors = <<>> /\ Notes(reader, reader', line)
    BY <1>4, <1>6, Zenon DEF Judged
  <2>4. Lays(reader, reader', line)
    BY <1>1, <1>2, <1>3, <1>6, <2>1, LineLaid, Zenon DEF Written
  <2>5. Prefix'
    BY <1>2, <2>1, <2>2, PrefixGrows, Zenon
  <2>6. Remembers'
    BY <1>2, <2>1, <2>2, <2>3, ReaderRemembers, Zenon
  <2>7. Written'
    BY <1>1, <1>2, <1>6, <2>1, <2>4, RowsWritten, Zenon
  <2>8. Divided'
    BY <1>1, <1>2, <1>6, <2>1, <2>2, <2>4, SegmentsDivide, Zenon
  <2>9. ~reader'.done
    BY <1>1, <2>3, Zenon DEF Notes
  <2>10. AcceptsTheFormat' /\ RowsRunWhereWritten'
    BY <2>9, Zenon DEF AcceptsTheFormat, RowsRunWhereWritten, Accepted
  <2> QED BY <1>1, <1>3, <1>5, <2>3, <2>5, <2>6, <2>7, <2>8, <2>10, Zenon DEF FormatInv
<1>7. CASE ~(reader.errors = <<>> /\ Accepts(reader, line))
  <2>1. reader'.errors # <<>>
    BY <1>4, <1>7, Zenon DEF Judged
  <2>2. ~Prefix'
    <3>1. CASE reader.errors # <<>>
      <4>1. ~Prefix
        BY <1>1, <3>1, Zenon DEF FormatInv
      <4> QED BY <1>2, <4>1, PrefixGrows, Zenon
    <3>2. CASE reader.errors = <<>>
      <4>1. Prefix /\ Remembers /\ ~Accepts(reader, line)
        BY <1>1, <1>7, <3>2, Zenon DEF FormatInv
      <4>2. ~Fits(line)
        BY <1>1, <1>2, <4>1, ReaderJudgesAlike, Zenon
      <4> QED BY <1>2, <4>2, PrefixGrows, Zenon
    <3> QED BY <3>1, <3>2, Zenon
  <2>3. (lines \in Seq(AllLines) => (WellFormed <=> Prefix /\ Kinds({"row"}) # {} /\ Open = 0))'
    BY WholeFile, PTL
  <2>4. ~WellFormed'
    BY <1>3, <2>2, <2>3, Zenon DEF AllLines
  <2>5. AcceptsTheFormat' /\ RowsRunWhereWritten'
    BY <2>1, <2>4, Zenon DEF AcceptsTheFormat, RowsRunWhereWritten, Accepted
  <2> QED BY <1>1, <1>3, <1>5, <2>1, <2>2, <2>5, Zenon DEF FormatInv
<1> QED BY <1>6, <1>7, Zenon

\* What load() makes of the end of the file.
Ended(r, end) ==
  /\ Numbered(end)
  /\ r.errors # <<>> => end.errors # <<>>
  /\ r.errors = <<>> /\ ~r.stopped => (end.errors = <<>> <=> ~r.in_block /\ r.rows # <<>>)
  /\ end.errors = <<>> => end.rows = r.rows /\ end.segments = NotEmpty(r.segments)

LEMMA FileJudged ==
  ASSUME NEW r, Numbered(r), NEW number \in Nat
  PROVE  Ended(r, Finish(r, number))
<1> DEFINE closed == IF r.in_block /\ ~r.stopped THEN Fail(r, r.block_line) ELSE r
           segments == NotEmpty(closed.segments)
           whole == [closed EXCEPT !.segments = segments, !.done = TRUE]
           end == IF whole.errors = <<>> /\ whole.rows = <<>> THEN Fail(whole, number) ELSE whole
<1>1. Finish(r, number) = end
  BY Zenon DEF Finish
<1>2. Numbered(closed) /\ (r.in_block /\ ~r.stopped => closed.errors # <<>>)
  <2>1. r.block_line \in Nat
    BY Zenon DEF Numbered
  <2> QED BY <2>1, Failing, Zenon
<1>3. ~(r.in_block /\ ~r.stopped) => closed = r
  BY Zenon
<1>4. r.errors # <<>> => closed.errors # <<>>
  <2>1. (r.in_block /\ ~r.stopped) \/ ~(r.in_block /\ ~r.stopped)
    BY Zenon
  <2> QED BY <1>2, <1>3, <2>1, Zenon
<1> HIDE DEF closed
<1>5. /\ whole.errors = closed.errors /\ whole.rows = closed.rows /\ whole.segments = segments
      /\ whole.block_line = closed.block_line
  <2> HIDE DEF segments
  <2>1. "segments" \in DOMAIN closed
    BY <1>2 DEF Numbered, IsReader
  <2> QED BY <2>1
<1>6. Numbered(whole)
  <2>1. IsReader(closed)
    BY <1>2, Zenon DEF Numbered
  <2>2. IsSegments(segments)
    <3>1. IsSegments(closed.segments)
      BY <2>1, Zenon DEF IsReader
    <3> QED BY <3>1, KeptAreSegments, Zenon
  <2>3. IsReader(whole)
    <3> HIDE DEF segments
    <3> QED BY <2>1, <2>2 DEF IsReader
  <2> HIDE DEF whole
  <2> QED BY <1>2, <1>5, <2>3, Zenon DEF Numbered
<1> HIDE DEF whole
<1>7. CASE whole.errors = <<>> /\ whole.rows = <<>>
  <2>1. Numbered(end) /\ end.errors # <<>>
    BY <1>6, <1>7, Failing, Zenon
  <2>2. r.errors = <<>> /\ ~r.stopped => ~(~r.in_block /\ r.rows # <<>>)
    BY <1>2, <1>3, <1>5, <1>7, Zenon
  <2> HIDE DEF end
  <2> QED BY <1>1, <2>1, <2>2, Zenon DEF Ended
<1>8. CASE ~(whole.errors = <<>> /\ whole.rows = <<>>)
  <2>1. end = whole
    BY <1>8, Zenon
  <2> HIDE DEF end
  <2>2. r.errors = <<>> /\ ~r.stopped => (end.errors = <<>> <=> ~r.in_block /\ r.rows # <<>>)
    <3>1. CASE r.in_block /\ ~r.stopped
      BY <1>2, <1>5, <2>1, <3>1, Zenon
    <3>2. CASE ~(r.in_block /\ ~r.stopped)
      BY <1>3, <1>5, <1>8, <2>1, <3>2, Zenon
    <3> QED BY <3>1, <3>2, Zenon
  <2>3. end.errors = <<>> => end.rows = r.rows /\ end.segments = NotEmpty(r.segments)
    BY <1>2, <1>3, <1>5, <2>1, Zenon
  <2>4. r.errors # <<>> => end.errors # <<>>
    BY <1>4, <1>5, <2>1, Zenon
  <2> QED BY <1>1, <1>6, <2>1, <2>2, <2>3, <2>4, Zenon DEF Ended
<1> QED BY <1>7, <1>8, Zenon

LEMMA FileIsDone ==
  ASSUME NEW r, Numbered(r), NEW number
  PROVE  Finish(r, number).done
<1> DEFINE closed == IF r.in_block /\ ~r.stopped THEN Fail(r, r.block_line) ELSE r
           segments == NotEmpty(closed.segments)
           whole == [closed EXCEPT !.segments = segments, !.done = TRUE]
<1>1. IsReader(closed)
  BY Failed, Zenon DEF Numbered
<1>2. whole.done /\ DOMAIN whole = DOMAIN closed
  <2> HIDE DEF closed, segments
  <2> QED BY <1>1 DEF IsReader
<1>3. Finish(r, number) = IF whole.errors = <<>> /\ whole.rows = <<>> THEN Fail(whole, number) ELSE whole
  BY Zenon DEF Finish
<1> HIDE DEF whole
<1>4. Fail(whole, number).done
  BY <1>1, <1>2 DEF Fail, IsReader
<1> QED BY <1>2, <1>3, <1>4, Zenon

\* The segments that are kept hold the rows as those of the whole file did.
LEMMA RowsStayInPlace ==
  ASSUME Numbered(reader), Written, Divided,
         NEW segments, segments = NotEmpty(reader.segments)
  PROVE  /\ Len(reader.rows) = Len(RowLines)
         /\ \A row \in DOMAIN reader.rows :
              /\ reader.rows[row].payload = lines[LineOf(row)].payload
              /\ \E s \in Range(segments) :
                   /\ row \in s.begin..(s.end - 1) /\ s.when = WhenOf(LineOf(row))
                   /\ \A t \in Range(segments) \ {s} : row \notin t.begin..(t.end - 1)
<1> DEFINE old == reader.segments
           L == Len(old)
           m == Len(reader.rows)
<1>1. /\ reader.rows \in Seq(RowType) /\ m \in Nat /\ Len(RowLines) = m /\ RowLines \in Seq(Nat)
      /\ DOMAIN reader.rows = 1..m
      /\ \A i \in 1..m : reader.rows[i].payload = lines[RowLines[i]].payload
  <2>1. reader.rows \in Seq(RowType)
    BY Zenon DEF Written
  <2>2. m \in Nat /\ DOMAIN reader.rows = 1..m
    BY <2>1
  <2> QED BY <2>1, <2>2, Zenon DEF Written
<1>2. IsSegments(old) /\ L \in Nat
  BY SegmentsLength, Zenon DEF Numbered, IsReader
<1>3. /\ \A s \in Range(segments) : \E i \in 1..L : s = old[i]
      /\ \A i \in 1..L : HasRows(old[i]) => old[i] \in Range(segments)
  BY <1>2, KeptHaveRows, Zenon
<1>4. /\ \A i \in 1..L : old[i].begin \in Nat /\ old[i].end \in Nat
      /\ \A i, j \in 1..L : i < j => old[i].end <= old[j].begin
  BY Zenon DEF Divided, Ordered
<1>5. \A row \in 1..m : \E i \in 1..L :
        InSegment(old, i, row) /\ \A k \in Nat : k = RowLines[row] => old[i].when = WhenOf(k)
  BY Zenon DEF Divided, Selected
<1>6. ASSUME NEW row \in 1..m, NEW i \in 1..L, NEW j \in 1..L, InSegment(old, i, row),
             InSegment(old, j, row)
      PROVE  i = j
  <2> DEFINE a == old[i].begin
             b == old[i].end
             c == old[j].begin
             d == old[j].end
  <2>1. a \in Nat /\ b \in Nat /\ c \in Nat /\ d \in Nat /\ row \in Nat /\ i \in Nat /\ j \in Nat
    <3>1. a \in Nat /\ b \in Nat /\ c \in Nat /\ d \in Nat
      BY <1>4, Zenon
    <3> QED BY <1>1, <1>2, <3>1
  <2>2. (i < j => b <= c) /\ (j < i => d <= a)
    BY <1>4, Zenon
  <2>3. a <= row /\ row < b /\ c <= row /\ row < d
    BY <1>6, Zenon DEF InSegment
  <2> HIDE DEF a, b, c, d
  <2> QED BY <2>1, <2>2, <2>3
<1>7. ASSUME NEW row \in 1..m
      PROVE  \E s \in Range(segments) :
               /\ row \in s.begin..(s.end - 1) /\ s.when = WhenOf(LineOf(row))
               /\ \A t \in Range(segments) \ {s} : row \notin t.begin..(t.end - 1)
  <2>1. PICK i \in 1..L :
          InSegment(old, i, row) /\ \A k \in Nat : k = RowLines[row] => old[i].when = WhenOf(k)
    BY <1>5, Zenon
  <2>2. \A j \in 1..L : row \in old[j].begin..(old[j].end - 1) <=> InSegment(old, j, row)
    <3> SUFFICES ASSUME NEW j \in 1..L
                 PROVE  row \in old[j].begin..(old[j].end - 1) <=> InSegment(old, j, row)
      OBVIOUS
    <3> DEFINE a == old[j].begin
               b == old[j].end
    <3>1. a \in Nat /\ b \in Nat
      BY <1>4, Zenon
    <3> HIDE DEF a, b
    <3>2. row \in a..(b - 1) <=> a <= row /\ row < b
      BY <1>1, <3>1
    <3> QED BY <3>2, Zenon DEF InSegment, a, b
  <2>3. old[i] \in Range(segments)
    <3>1. old[i].begin # old[i].end
      <4>1. old[i].begin <= row /\ row < old[i].end
        BY <2>1, Zenon DEF InSegment
      <4>2. old[i].begin \in Nat /\ old[i].end \in Nat
        BY <1>4, Zenon
      <4> QED BY <1>1, <4>1, <4>2
    <3> QED BY <1>3, <3>1, Zenon DEF HasRows
  <2>4. old[i].when = WhenOf(LineOf(row))
    <3>1. RowLines[row] \in Nat
      BY <1>1
    <3> QED BY <2>1, <3>1, Zenon DEF LineOf
  <2>5. ASSUME NEW t \in Range(segments) \ {old[i]} PROVE row \notin t.begin..(t.end - 1)
    <3>1. PICK j \in 1..L : t = old[j]
      BY <1>3, Zenon
    <3>2. j # i
      BY <3>1, Zenon
    <3>3. ~InSegment(old, j, row)
      BY <1>6, <2>1, <3>2, Zenon
    <3> QED BY <2>2, <3>1, <3>3, Zenon
  <2> QED BY <2>1, <2>2, <2>3, <2>4, <2>5, Zenon
<1> HIDE DEF m
<1> QED BY <1>1, <1>7, Zenon DEF m, LineOf

\* The end of the file.
LEMMA FormatEnds == ASSUME FormatInv, EndOfFile PROVE FormatInv'
<1>1. /\ ~reader.done /\ alphabet' = alphabet /\ lines' = lines /\ lines \in Seq(AllLines)
      /\ reader' = Finish(reader, Len(lines)) /\ Numbered(reader) /\ alphabet \in DOMAIN Alphabets
      /\ reader.errors = <<>> <=> Prefix
      /\ reader.errors = <<>> => Remembers /\ Written /\ Divided
  BY Zenon DEF EndOfFile, FormatInv
<1>2. Ended(reader, reader')
  <2>1. Len(lines) \in Nat
    BY <1>1
  <2> QED BY <1>1, <2>1, FileJudged, Zenon
<1>3. reader'.done
  BY <1>1, FileIsDone, Zenon
<1>4. /\ WellFormed' <=> WellFormed
      /\ RowLines' = RowLines
      /\ \A i : WhenOf(i)' = WhenOf(i)
  BY <1>1, SameFile, Zenon
<1>5. WellFormed <=> Prefix /\ Kinds({"row"}) # {} /\ Open = 0
  BY <1>1, WholeFile, Zenon
<1>6. reader'.errors = <<>> <=> WellFormed
  <2>1. CASE reader.errors # <<>>
    BY <1>1, <1>2, <1>5, <2>1, Zenon DEF Ended
  <2>2. CASE reader.errors = <<>>
    <3>1. Prefix /\ ~reader.stopped /\ (reader.in_block <=> Open # 0)
      BY <1>1, <2>2, Zenon DEF Remembers
    <3>2. reader.rows = <<>> <=> Kinds({"row"}) = {}
      <4>1. Written
        BY <1>1, <2>2, Zenon
      <4>2. CASE reader.rows # <<>>
        <5>1. reader.rows \in Seq(RowType)
          BY <4>1, Zenon DEF Written
        <5>2. 1 \in 1..Len(reader.rows)
          BY <4>2, <5>1
        <5> QED BY <4>1, <4>2, <5>2, Zenon DEF Written
      <4> QED BY <4>1, <4>2, Zenon DEF Written
    <3> QED BY <1>2, <1>5, <2>2, <3>1, <3>2, Zenon DEF Ended
  <2> QED BY <2>1, <2>2, Zenon
<1>7. AcceptsTheFormat'
  BY <1>3, <1>4, <1>6, Zenon DEF AcceptsTheFormat, Accepted
<1>8. RowsRunWhereWritten'
  <2> SUFFICES ASSUME reader'.errors = <<>> PROVE RowsRunWhereWritten'
    BY Zenon DEF RowsRunWhereWritten, Accepted
  <2>1. reader.errors = <<>>
    BY <1>2, Zenon DEF Ended
  <2>2. Written /\ Divided
    BY <1>1, <2>1, Zenon
  <2>3. reader'.rows = reader.rows /\ reader'.segments = NotEmpty(reader.segments)
    BY <1>2, Zenon DEF Ended
  <2>4. /\ Len(reader.rows) = Len(RowLines)
        /\ \A row \in DOMAIN reader.rows :
             /\ reader.rows[row].payload = lines[LineOf(row)].payload
             /\ \E s \in Range(reader'.segments) :
                  /\ row \in s.begin..(s.end - 1) /\ s.when = WhenOf(LineOf(row))
                  /\ \A t \in Range(reader'.segments) \ {s} : row \notin t.begin..(t.end - 1)
    BY <1>1, <2>2, <2>3, RowsStayInPlace, Zenon
  <2>5. \A row : LineOf(row)' = LineOf(row) /\ WhenOf(LineOf(row))' = WhenOf(LineOf(row))
    BY <1>4, Zenon DEF LineOf
  <2> QED BY <1>1, <1>4, <2>3, <2>4, <2>5, Zenon DEF RowsRunWhereWritten
<1> QED BY <1>1, <1>2, <1>3, <1>7, <1>8, Zenon DEF FormatInv, Ended

\* Until load() starts again, a script stays as it is.
LEMMA FormatStays == ASSUME FormatInv, UNCHANGED readerVars PROVE FormatInv'
<1>1. alphabet' = alphabet /\ lines' = lines /\ reader' = reader
  BY DEF readerVars
<1>2. \A kinds : Kinds(kinds)' = Kinds(kinds)
  BY <1>1, Zenon DEF Kinds
<1>3. \A i : OpenerOf(i)' = OpenerOf(i)
  BY <1>2, Zenon DEF OpenerOf
<1>4. /\ WellFormed' <=> WellFormed
      /\ RowLines' = RowLines
      /\ \A i : WhenOf(i)' = WhenOf(i)
  BY <1>1, SameFile, Zenon
<1>5. Number' = Number /\ Open' = Open /\ Fraction' = Fraction
  <2>1. Number' = Number
    BY <1>1, Zenon DEF Number
  <2>2. Open' = Open
    BY <1>3, <2>1, Zenon DEF Open
  <2> QED BY <1>1, <1>2, <2>1, <2>2, Zenon DEF Fraction
<1>6. Prefix' <=> Prefix
  <2>1. DirectivesComeOnce' <=> DirectivesComeOnce
    BY <1>1, <1>2, Zenon DEF DirectivesComeOnce
  <2>2. Known' <=> Known
    BY <1>2, Zenon DEF Known
  <2>3. DataFits' <=> DataFits
    BY <1>1, <1>2, Zenon DEF DataFits
  <2>4. HeadsFit' <=> HeadsFit
    BY <1>1, <1>2, <1>3, Zenon DEF HeadsFit
  <2>5. InBlocks' <=> InBlocks
    BY <1>2, <1>3, Zenon DEF InBlocks
  <2>6. ElsesFit' <=> ElsesFit
    BY <1>1, <1>2, <1>3, Zenon DEF ElsesFit
  <2> QED BY <2>1, <2>2, <2>3, <2>4, <2>5, <2>6, Zenon DEF Prefix
<1>7. Remembers' <=> Remembers
  BY <1>1, <1>2, <1>3, <1>5, Zenon DEF Remembers
<1>8. Written' <=> Written
  <2>1. RowType' = RowType
    BY <1>1, Zenon DEF RowType, AllLines
  <2> QED BY <1>1, <1>2, <1>4, <2>1, Zenon DEF Written
<1>9. Divided' <=> Divided
  <2>1. Selected(reader.segments, Len(reader.rows))' <=> Selected(reader.segments, Len(reader.rows))
    BY <1>1, <1>4, Zenon DEF Selected
  <2> QED BY <1>1, <1>4, <1>5, <2>1, Zenon DEF Divided
<1>10. AcceptsTheFormat' <=> AcceptsTheFormat
  BY <1>1, <1>4, Zenon DEF AcceptsTheFormat, Accepted
<1>11. RowsRunWhereWritten' <=> RowsRunWhereWritten
  <2>1. \A row : LineOf(row)' = LineOf(row) /\ WhenOf(LineOf(row))' = WhenOf(LineOf(row))
    BY <1>4, Zenon DEF LineOf
  <2> QED BY <1>1, <1>4, <2>1, Zenon DEF RowsRunWhereWritten, Accepted
<1> QED BY <1>1, <1>6, <1>7, <1>8, <1>9, <1>10, <1>11, Zenon DEF FormatInv

LEMMA FormatStep == FormatInv /\ [Next]_vars => FormatInv'
<1> SUFFICES ASSUME FormatInv, [Next]_vars PROVE FormatInv'
  OBVIOUS
<1>1. CASE EndOfFile
  BY <1>1, FormatEnds, Zenon
<1>2. ASSUME NEW line \in Alphabets[alphabet], Read(line) PROVE FormatInv'
  BY <1>2, FormatRead, Zenon
<1>3. CASE UNCHANGED readerVars
  BY <1>3, FormatStays, Zenon
<1>4. UNCHANGED vars => UNCHANGED readerVars
  BY DEF vars
<1> QED BY <1>1, <1>2, <1>3, <1>4, Zenon DEF Next, ReaderNext

\* EventScript::load() accepts a file exactly when the whole of it follows the format: no
\* order of lines, and no error before, makes it miss one.
THEOREM FilesAreJudged == Spec => []AcceptsTheFormat
<1>1. FormatInv => AcceptsTheFormat
  BY Zenon DEF FormatInv
<1> QED BY <1>1, FormatInit, FormatStep, PTL DEF Spec

\* Every row of an accepted file is in one segment, of the block it is written in, and
\* keeps its payload and its place: blocks, alternatives and empty segments lose none.
THEOREM RowsRunOnTheirLaps == Spec => []RowsRunWhereWritten
<1>1. FormatInv => RowsRunWhereWritten
  BY Zenon DEF FormatInv
<1> QED BY <1>1, FormatInit, FormatStep, PTL DEF Spec

-----------------------------------------------------------------------------
(* Sums                                                                    *)

\* One number more of a sum.
Summed(f, first, n, before) == IF n < first THEN 0 ELSE before + f[n]

\* The sums of a sequence's numbers from one on, in a function.
Sums(f, first, L, w) == w[0] = 0 /\ \A n \in 1..L : w[n] = Summed(f, first, n, w[n - 1])

\* The same, as the function that SumOver defines.
SumsAre(f, first, L, w) == w = [n \in 0..L |-> IF n < first THEN 0 ELSE w[n - 1] + f[n]]

LEMMA SumsExist ==
  ASSUME NEW f, NEW first \in Nat \ {0}, NEW L \in Nat, \A n \in first..L : f[n] \in Nat
  PROVE  \E w \in [0..L -> Nat] : Sums(f, first, L, w)
<1> DEFINE step == [n \in 1..L |-> [before \in Nat |-> Summed(f, first, n, before)]]
<1>1. ASSUME NEW n \in 1..L, NEW before \in Nat PROVE Summed(f, first, n, before) \in Nat
  <2>1. CASE n < first
    BY <2>1 DEF Summed
  <2>2. CASE ~(n < first)
    <3>1. f[n] \in Nat
      BY <2>2
    <3> QED BY <2>2, <3>1 DEF Summed
  <2> QED BY <2>1, <2>2
<1>2. step \in [1..L -> [Nat -> Nat]]
  BY <1>1
<1>3. \A n \in 1..L, before \in Nat : step[n][before] = Summed(f, first, n, before)
  OBVIOUS
<1> HIDE DEF step
<1>4. PICK w \in [0..L -> Nat] : Follows(w, L, 0, step)
  BY <1>2, StepsExist
<1>5. ASSUME NEW n \in 1..L PROVE w[n] = Summed(f, first, n, w[n - 1])
  <2>1. w[n - 1] \in Nat
    OBVIOUS
  <2> QED BY <1>3, <1>4, <2>1, Zenon DEF Follows
<1> QED BY <1>4, <1>5, Zenon DEF Follows, Sums

LEMMA SumIs ==
  ASSUME NEW f, NEW first \in Nat \ {0}, NEW L \in Nat, NEW w \in [0..L -> Nat], Sums(f, first, L, w)
  PROVE  SumOver(f, first, L) = w[L]
<1> DEFINE r == CHOOSE g : SumsAre(f, first, L, g)
<1>1. SumsAre(f, first, L, w)
  <2>1. ASSUME NEW n \in 0..L PROVE w[n] = IF n < first THEN 0 ELSE w[n - 1] + f[n]
    <3>1. CASE n = 0
      BY <3>1 DEF Sums
    <3>2. CASE n # 0
      <4>1. n \in 1..L
        BY <3>2
      <4> QED BY <4>1, Zenon DEF Sums, Summed
    <3> QED BY <3>1, <3>2
  <2>2. w = [n \in 0..L |-> w[n]]
    OBVIOUS
  <2>3. [n \in 0..L |-> w[n]] = [n \in 0..L |-> IF n < first THEN 0 ELSE w[n - 1] + f[n]]
    BY <2>1, Zenon
  <2> QED BY <2>2, <2>3, Zenon DEF SumsAre
<1>2. SumsAre(f, first, L, r)
  BY <1>1, Zenon
<1>3. SumOver(f, first, L) = r[L]
  BY DEF SumOver, SumsAre
<1> HIDE DEF r
<1>4. \A n \in 0..L : r[n] = IF n < first THEN 0 ELSE r[n - 1] + f[n]
  BY <1>2, Zenon DEF SumsAre
<1>5. StepAlike(r, w, L)
  <2>1. 0 \in 0..L /\ 0 < first
    OBVIOUS
  <2>2. r[0] = w[0]
    BY <1>4, <2>1, Zenon DEF Sums
  <2>3. ASSUME NEW n \in 1..L, r[n - 1] = w[n - 1] PROVE r[n] = w[n]
    <3>1. n \in 0..L
      OBVIOUS
    <3> QED BY <1>4, <2>3, <3>1, Zenon DEF Sums, Summed
  <2> QED BY <2>2, <2>3, Zenon DEF StepAlike
<1>6. L \in 0..L
  OBVIOUS
<1> QED BY <1>3, <1>5, <1>6, StepsAgree, Zenon

\* A sum is the one before and the last number.
LEMMA SumStep ==
  ASSUME NEW f, NEW first \in Nat \ {0}, NEW L \in Nat, \A n \in first..L : f[n] \in Nat
  PROVE  /\ SumOver(f, first, L) \in Nat
         /\ L < first => SumOver(f, first, L) = 0
         /\ L >= first => SumOver(f, first, L) = SumOver(f, first, L - 1) + f[L]
<1>1. PICK w \in [0..L -> Nat] : Sums(f, first, L, w)
  BY SumsExist
<1>2. SumOver(f, first, L) = w[L] /\ w[L] \in Nat
  <2>1. L \in 0..L
    OBVIOUS
  <2> QED BY <1>1, <2>1, SumIs
<1>3. CASE L < first
  <2>1. w[L] = 0
    <3>1. CASE L = 0
      BY <1>1, <3>1 DEF Sums
    <3>2. CASE L # 0
      <4>1. L \in 1..L
        BY <3>2
      <4> QED BY <1>1, <1>3, <4>1, Zenon DEF Sums, Summed
    <3> QED BY <3>1, <3>2
  <2> QED BY <1>2, <1>3, <2>1
<1>4. CASE L >= first
  <2> DEFINE k == L - 1
             v == [n \in 0..k |-> w[n]]
  <2>1. k \in Nat /\ L \in 1..L /\ \A n \in 0..k : n \in 0..L
    BY <1>4
  <2>2. v \in [0..k -> Nat]
    BY <2>1
  <2>3. \A n \in 0..k : v[n] = w[n]
    OBVIOUS
  <2>4. Sums(f, first, k, v)
    <3>1. v[0] = w[0]
      BY <2>1
    <3>2. ASSUME NEW n \in 1..k PROVE v[n] = Summed(f, first, n, v[n - 1])
      <4>1. n \in 0..k /\ n - 1 \in 0..k /\ n \in 1..L
        BY <2>1
      <4>2. v[n] = w[n] /\ v[n - 1] = w[n - 1]
        BY <2>3, <4>1, Zenon
      <4> HIDE DEF v
      <4> QED BY <1>1, <4>1, <4>2, Zenon DEF Sums
    <3> HIDE DEF v, k
    <3> QED BY <1>1, <3>1, <3>2, Zenon DEF Sums
  <2>5. SumOver(f, first, k) = v[k]
    <3> HIDE DEF v
    <3> QED BY <2>1, <2>2, <2>4, SumIs
  <2>6. v[k] = w[L - 1]
    BY <2>1
  <2>7. w[L] = w[L - 1] + f[L]
    <3>1. ~(L < first)
      BY <1>4
    <3> QED BY <1>1, <2>1, <3>1, Zenon DEF Sums, Summed
  <2>8. ~(L < first)
    BY <1>4
  <2> QED BY <1>2, <2>5, <2>6, <2>7, <2>8, Zenon
<1> QED BY <1>2, <1>3, <1>4

\* Sums of the same numbers are the same.
LEMMA SumsAgree ==
  ASSUME NEW f, NEW g, NEW first \in Nat \ {0}, NEW L \in Nat,
         \A n \in first..L : f[n] \in Nat /\ g[n] = f[n]
  PROVE  SumOver(g, first, L) = SumOver(f, first, L)
<1>1. (\A n \in first..L : f[n] \in Nat) /\ (\A n \in first..L : g[n] \in Nat)
  OBVIOUS
<1>2. PICK w \in [0..L -> Nat] : Sums(f, first, L, w)
  BY <1>1, SumsExist
<1>3. Sums(g, first, L, w)
  <2>1. ASSUME NEW n \in 1..L PROVE w[n] = Summed(g, first, n, w[n - 1])
    <3>1. w[n] = Summed(f, first, n, w[n - 1])
      BY <1>2, Zenon DEF Sums
    <3>2. n < first \/ g[n] = f[n]
      <4>1. n < first \/ n \in first..L
        OBVIOUS
      <4> QED BY <4>1
    <3> QED BY <3>1, <3>2, Zenon DEF Summed
  <2> QED BY <1>2, <2>1, Zenon DEF Sums
<1>4. SumOver(g, first, L) = w[L]
  BY <1>3, SumIs
<1>5. SumOver(f, first, L) = w[L]
  BY <1>2, SumIs
<1> QED BY <1>4, <1>5

\* A sum in two parts.
LEMMA SumSplits ==
  ASSUME NEW f, NEW k \in Nat, NEW L \in Nat, k <= L, \A n \in 1..L : f[n] \in Nat
  PROVE  SumOver(f, 1, L) = SumOver(f, 1, k) + SumOver(f, k + 1, L)
<1> DEFINE T == {n \in 0..L : k <= n => SumOver(f, 1, n) = SumOver(f, 1, k) + SumOver(f, k + 1, n)}
<1>1. SumOver(f, 1, k) \in Nat
  <2>1. 1 \in Nat \ {0} /\ \A n \in 1..k : f[n] \in Nat
    OBVIOUS
  <2> QED BY <2>1, SumStep, Zenon
<1>2. SumOver(f, k + 1, k) = 0
  <2> PICK j : j = k + 1
    OBVIOUS
  <2>1. j \in Nat \ {0} /\ k < j /\ \A n \in j..k : f[n] \in Nat
    OBVIOUS
  <2>2. SumOver(f, j, k) = 0
    BY <2>1, SumStep, Zenon
  <2> QED BY <2>2, Zenon
<1>3. 0 \in T
  BY <1>1, <1>2
<1>4. ASSUME NEW n \in 1..L, n - 1 \in T PROVE n \in T
  <2>1. CASE k <= n - 1
    <3>1. SumOver(f, 1, n - 1) = SumOver(f, 1, k) + SumOver(f, k + 1, n - 1)
      BY <1>4, <2>1
    <3>2. SumOver(f, 1, n) = SumOver(f, 1, n - 1) + f[n]
      <4>1. 1 \in Nat \ {0} /\ n \in Nat /\ n >= 1 /\ \A m \in 1..n : f[m] \in Nat
        OBVIOUS
      <4> QED BY <4>1, SumStep, Zenon
    <3>3. SumOver(f, k + 1, n) = SumOver(f, k + 1, n - 1) + f[n]
      <4>1. n >= k + 1 /\ n \in Nat /\ k + 1 \in Nat \ {0} /\ \A m \in (k + 1)..n : f[m] \in Nat
        BY <2>1
      <4> QED BY <4>1, SumStep
    <3>4. SumOver(f, k + 1, n - 1) \in Nat /\ f[n] \in Nat
      <4>1. n - 1 \in Nat /\ k + 1 \in Nat \ {0} /\ \A m \in (k + 1)..(n - 1) : f[m] \in Nat
        BY <2>1
      <4> QED BY <4>1, SumStep
    <3>5. SumOver(f, 1, n) = SumOver(f, 1, k) + SumOver(f, k + 1, n)
      BY <1>1, <3>1, <3>2, <3>3, <3>4
    <3> QED BY <3>5
  <2>2. CASE n = k
    BY <1>1, <1>2, <2>2
  <2>3. CASE n < k
    BY <2>3
  <2> QED BY <2>1, <2>2, <2>3
<1>5. 0..L \subseteq T
  <2> HIDE DEF T
  <2> QED BY <1>3, <1>4, StepByStep
<1> QED BY <1>5

\* Numbers that are the same but for the last.
LastIsMore(f, g, first, L, more) ==
  \A n \in first..L : f[n] \in Nat /\ g[n] = IF n = L THEN f[n] + more ELSE f[n]

\* When the last number is larger, so is the sum.
LEMMA LastNumberAdds ==
  ASSUME NEW f, NEW g, NEW first \in Nat \ {0}, NEW L \in Nat, first <= L, NEW more \in Nat,
         LastIsMore(f, g, first, L, more)
  PROVE  SumOver(g, first, L) = SumOver(f, first, L) + more
<1>1. /\ \A n \in first..L : f[n] \in Nat
      /\ \A n \in first..L : g[n] \in Nat
      /\ \A n \in first..(L - 1) : f[n] \in Nat /\ g[n] = f[n]
      /\ L - 1 \in Nat /\ L \in first..L /\ g[L] = f[L] + more
  BY DEF LastIsMore
<1>2. SumOver(f, first, L) = SumOver(f, first, L - 1) + f[L]
  BY <1>1, SumStep
<1>3. SumOver(g, first, L) = SumOver(g, first, L - 1) + g[L]
  BY <1>1, SumStep
<1>4. SumOver(g, first, L - 1) = SumOver(f, first, L - 1)
  BY <1>1, SumsAgree
<1>5. SumOver(f, first, L - 1) \in Nat
  <2>1. \A n \in first..(L - 1) : f[n] \in Nat
    BY <1>1
  <2> QED BY <1>1, <2>1, SumStep
<1> QED BY <1>1, <1>2, <1>3, <1>4, <1>5

-----------------------------------------------------------------------------
(* What load() does with a wait                                            *)

\* The last segment has no row yet.
NoRowYet(r) == ~HasRows(r.segments[Len(r.segments)])

\* A wait counts for the last segment, and for its beginning or for the last row.
DurationsPut(a, b, wait) ==
  \A i \in 1..Len(a) : b[i].duration = IF i = Len(a) THEN a[i].duration + wait ELSE a[i].duration

\* A wait before a segment's first row counts for its beginning.
LeadsPut(a, b, wait) ==
  \A i \in 1..Len(a) : b[i].lead = IF i = Len(a) THEN a[i].lead + wait ELSE a[i].lead

\* No segment begins later than it did.
LeadsKept(a, b) == \A i \in 1..Len(a) : b[i].lead = a[i].lead

\* A wait after a row counts for this row.
WaitsPut(a, b, wait) ==
  \A k \in 1..Len(a) : b[k].wait = IF k = Len(a) THEN a[k].wait + wait ELSE a[k].wait

\* No row waits longer than it did.
WaitsKept(a, b) == \A k \in 1..Len(a) : b[k].wait = a[k].wait

\* Where load() adds the wait of a line.
TimesPut(r, read, line) ==
  /\ line.kind \in {"row", "wait"} => DurationsPut(r.segments, read.segments, line.wait)
  /\ line.kind = "row" => LeadsKept(r.segments, read.segments)
  /\ line.kind = "wait" /\ NoRowYet(r) =>
       LeadsPut(r.segments, read.segments, line.wait) /\ WaitsKept(r.rows, read.rows)
  /\ line.kind = "wait" /\ ~NoRowYet(r) =>
       LeadsKept(r.segments, read.segments) /\ WaitsPut(r.rows, read.rows, line.wait)

LEMMA RowTimed ==
  ASSUME NEW r, IsReader(r), NEW line, line.kind = "row"
  PROVE  TimesPut(r, AddRow(r, line), line)
<1> DEFINE L == Len(r.segments)
           read == AddRow(r, line)
           last == [r.segments[L] EXCEPT !.end = Len(r.rows) + 2]
           once == [r.segments EXCEPT ![L] = last]
           new  == [last EXCEPT !.duration = last.duration + line.wait]
           put  == [once EXCEPT ![L].duration = @ + line.wait]
<1>1. L \in Nat /\ DOMAIN r.segments = 1..L /\ \A i \in 1..L : IsSegment(r.segments[i])
  BY SegmentsLength, Zenon DEF IsReader, IsSegments
<1>2. read.segments = put
  BY DEF AddRow, IsReader
<1>3. \A i \in 1..L : put[i] = IF i = L THEN new ELSE r.segments[i]
  <2> HIDE DEF last
  <2>1. DOMAIN put = 1..L
    BY <1>1
  <2> QED BY <1>1, <2>1
<1>4. L \in 1..L =>
        new.lead = r.segments[L].lead /\ new.duration = r.segments[L].duration + line.wait
  BY <1>1 DEF IsSegment
<1> HIDE DEF L, read, new, put
<1>5. ASSUME NEW i \in 1..L
      PROVE  /\ put[i].lead = r.segments[i].lead
             /\ put[i].duration = IF i = L THEN r.segments[i].duration + line.wait ELSE r.segments[i].duration
  BY <1>3, <1>4, Zenon
<1>6. LeadsKept(r.segments, read.segments) /\ DurationsPut(r.segments, read.segments, line.wait)
  BY <1>2, <1>5, Zenon DEF LeadsKept, DurationsPut, L
<1>7. line.kind # "wait"
  OBVIOUS
<1> QED BY <1>6, <1>7, Zenon DEF TimesPut, read

LEMMA WaitTimed ==
  ASSUME NEW r, IsReader(r), r.rows \in Seq(RowType), NEW line, line.kind = "wait",
         line.wait \in Nat
  PROVE  TimesPut(r, AddWait(r, line.wait), line)
<1> DEFINE L == Len(r.segments)
           wait == line.wait
           read == AddWait(r, wait)
           longer == [r.segments EXCEPT ![L].duration = @ + wait]
           later == [longer EXCEPT ![L].lead = @ + wait]
           rows == [r.rows EXCEPT ![Len(r.rows)].wait = @ + wait]
<1>1. L \in Nat /\ DOMAIN r.segments = 1..L /\ \A i \in 1..L : IsSegment(r.segments[i])
  BY SegmentsLength, Zenon DEF IsReader, IsSegments
<1>2. /\ NoRowYet(r) => read.segments = later /\ read.rows = r.rows
      /\ ~NoRowYet(r) => read.segments = longer /\ read.rows = rows
  BY DEF AddWait, IsReader, NoRowYet
<1>3. ASSUME NEW i \in 1..L
      PROVE  /\ longer[i].lead = r.segments[i].lead
             /\ longer[i].duration = IF i = L THEN r.segments[i].duration + wait ELSE r.segments[i].duration
             /\ later[i].lead = IF i = L THEN r.segments[i].lead + wait ELSE r.segments[i].lead
             /\ later[i].duration = IF i = L THEN r.segments[i].duration + wait ELSE r.segments[i].duration
  <2>1. longer[i] = IF i = L THEN [r.segments[L] EXCEPT !.duration = @ + wait] ELSE r.segments[i]
    BY <1>1
  <2>2. later[i] = IF i = L THEN [longer[L] EXCEPT !.lead = @ + wait] ELSE longer[i]
    <3>1. DOMAIN longer = 1..L
      BY <1>1
    <3> HIDE DEF longer
    <3> QED BY <3>1
  <2>3. IsSegment(r.segments[i])
    BY <1>1
  <2> HIDE DEF longer, later
  <2> QED BY <2>1, <2>2, <2>3 DEF IsSegment
<1>4. DurationsPut(r.segments, longer, wait) /\ DurationsPut(r.segments, later, wait)
  <2> HIDE DEF longer, later
  <2> QED BY <1>3, Zenon DEF DurationsPut
<1>5. LeadsKept(r.segments, longer) /\ LeadsPut(r.segments, later, wait)
  <2> HIDE DEF longer, later
  <2> QED BY <1>3, Zenon DEF LeadsKept, LeadsPut
<1>6. WaitsKept(r.rows, r.rows)
  BY DEF WaitsKept
<1>7. WaitsPut(r.rows, rows, wait)
  <2> SUFFICES ASSUME NEW k \in 1..Len(r.rows)
               PROVE  rows[k].wait = IF k = Len(r.rows) THEN r.rows[k].wait + wait ELSE r.rows[k].wait
    BY DEF WaitsPut
  <2>1. r.rows[k] \in RowType
    OBVIOUS
  <2>2. rows[k] = IF k = Len(r.rows) THEN [r.rows[k] EXCEPT !.wait = @ + wait] ELSE r.rows[k]
    OBVIOUS
  <2> HIDE DEF rows
  <2> QED BY <2>1, <2>2 DEF RowType
<1> HIDE DEF read, longer, later, rows
<1>8. line.kind # "row"
  OBVIOUS
<1>9. TimesPut(r, read, line)
  BY <1>2, <1>4, <1>5, <1>6, <1>7, <1>8, Zenon DEF TimesPut
<1> QED BY <1>9 DEF read

LEMMA LineTimed ==
  ASSUME NEW r, Numbered(r), r.rows \in Seq(RowType), NEW line, IsLine(line), NEW number \in Nat,
         Accepts(r, line)
  PROVE  TimesPut(r, ReadLine(r, line, number), line)
<1> DEFINE read == ReadLine(r, line, number)
           seen == [r EXCEPT !.seen_row = TRUE]
<1>1. IsReader(r)
  BY DEF Numbered
<1>2. IsReader(seen) /\ seen.rows = r.rows /\ seen.segments = r.segments /\ seen.coords = r.coords
  BY <1>1 DEF IsReader
<1> HIDE DEF seen
<1>3. RowFits(seen, line) <=> RowFits(r, line)
  BY <1>2, Zenon DEF RowFits
<1>4. ASSUME NEW s, TimesPut(seen, s, line) PROVE TimesPut(r, s, line)
  <2>1. NoRowYet(seen) <=> NoRowYet(r)
    BY <1>2, Zenon DEF NoRowYet
  <2> QED BY <1>2, <1>4, <2>1, Zenon DEF TimesPut
<1>5. CASE line.kind = "row"
  <2>1. RowFits(r, line) /\ line.kind # "wait"
    BY <1>5 DEF Accepts
  <2>2. read = ReadRow(r, line, number)
    BY <1>5 DEF ReadLine
  <2>3. read = AddRow(seen, line)
    BY <1>3, <2>1, <2>2, Zenon DEF ReadRow, seen
  <2>4. TimesPut(seen, AddRow(seen, line), line)
    BY <1>2, <1>5, RowTimed, Zenon
  <2> HIDE DEF read
  <2>5. TimesPut(r, read, line)
    BY <1>4, <2>3, <2>4, Zenon
  <2> QED BY <2>5 DEF read
<1>6. CASE line.kind = "wait"
  <2>1. line.wait # Malformed /\ line.wait \in Nat
    BY <1>6 DEF Accepts, IsLine
  <2>2. read = ReadRow(r, line, number)
    BY <1>6 DEF ReadLine
  <2>3. read = AddWait(seen, line.wait)
    BY <1>6, <2>1, <2>2, Zenon DEF ReadRow, seen
  <2>4. TimesPut(seen, AddWait(seen, line.wait), line)
    BY <1>2, <1>6, <2>1, WaitTimed, Zenon
  <2> HIDE DEF read
  <2>5. TimesPut(r, read, line)
    BY <1>4, <2>3, <2>4, Zenon
  <2> QED BY <2>5 DEF read
<1>7. CASE line.kind \notin {"row", "wait"}
  BY <1>7 DEF TimesPut
<1> QED BY <1>5, <1>6, <1>7

-----------------------------------------------------------------------------
(* What a file takes                                                       *)

\* What each segment takes on a lap.
LapTimes(segments, lap) == [i \in DOMAIN segments |-> TimeOn(segments[i], lap)]

\* What each row waits.
RowWaits(rows) == [k \in DOMAIN rows |-> rows[k].wait]

\* A wait of a block passes on a lap.
Passes(when, lap) == when.keep_time \/ RunsOn(when, lap)

\* A segment's times are not negative.
TimesTyped(segments) == \A i \in 1..Len(segments) : segments[i].lead \in Nat /\ segments[i].duration \in Nat

\* A segment's time is its lead and its rows' waits.
Full(segments, rows) ==
  \A i \in 1..Len(segments) :
    segments[i].duration =
      segments[i].lead + SumOver(RowWaits(rows), segments[i].begin, segments[i].end - 1)

\* When a row of a segment starts, as LapWalk counts: after the segments before its own, the
\* lead of its own, and the rows of its own before it.
Begins(segments, rows, i, row, lap) ==
  SumOver(LapTimes(segments, lap), 1, i - 1) + segments[i].lead
    + SumOver(RowWaits(rows), segments[i].begin, row - 1)

\* The segments take on a lap what the waits of the first n lines do.
Totals(segments, waits, n, lap) ==
  SumOver(LapTimes(segments, lap), 1, Len(segments)) = SumOver(waits, 1, n)

\* Every row starts when the lines above its own have passed.
Dues(segments, rows, waits, at_line, lap) ==
  \A i \in 1..Len(segments), row \in 1..Len(rows) :
    InSegment(segments, i, row) /\ RunsOn(segments[i].when, lap) =>
      Begins(segments, rows, i, row, lap) = SumOver(waits, 1, at_line[row] - 1)

\* The waits of a file, with one more line.
OneMore(waits, new, n, value) ==
  (\A m \in 1..n : new[m] = waits[m]) /\ new[n + 1] = value

LEMMA LapTimesType ==
  ASSUME NEW segments, IsSegments(segments), TimesTyped(segments), NEW lap
  PROVE  \A i \in 1..Len(segments) :
           /\ LapTimes(segments, lap)[i] \in Nat
           /\ LapTimes(segments, lap)[i] = IF Passes(segments[i].when, lap) THEN segments[i].duration ELSE 0
<1> TAKE i \in 1..Len(segments)
<1>1. DOMAIN segments = 1..Len(segments)
  BY SegmentsLength
<1>2. LapTimes(segments, lap)[i] = IF Passes(segments[i].when, lap) THEN segments[i].duration ELSE 0
  BY <1>1, Zenon DEF LapTimes, TimeOn, Passes
<1>3. segments[i].duration \in Nat
  BY DEF TimesTyped
<1>4. CASE Passes(segments[i].when, lap)
  <2>1. LapTimes(segments, lap)[i] = segments[i].duration
    BY <1>2, <1>4, Zenon
  <2> QED BY <1>2, <1>3, <2>1, Zenon
<1>5. CASE ~Passes(segments[i].when, lap)
  <2>1. LapTimes(segments, lap)[i] = 0
    BY <1>2, <1>5, Zenon
  <2>2. LapTimes(segments, lap)[i] \in Nat
    BY <2>1
  <2> QED BY <1>2, <2>2, Zenon
<1> QED BY <1>4, <1>5, Zenon

LEMMA RowWaitsType ==
  ASSUME NEW rows, rows \in Seq(RowType)
  PROVE  /\ Len(rows) \in Nat /\ DOMAIN rows = 1..Len(rows)
         /\ \A k \in 1..Len(rows) : RowWaits(rows)[k] \in Nat /\ RowWaits(rows)[k] = rows[k].wait
<1>1. Len(rows) \in Nat /\ DOMAIN rows = 1..Len(rows)
  OBVIOUS
<1>2. ASSUME NEW k \in 1..Len(rows) PROVE RowWaits(rows)[k] \in Nat /\ RowWaits(rows)[k] = rows[k].wait
  <2>1. RowWaits(rows)[k] = rows[k].wait
    BY <1>1 DEF RowWaits
  <2>2. rows[k] \in RowType
    BY <1>1
  <2>3. rows[k].wait \in Nat
    BY <2>2 DEF RowType
  <2> QED BY <2>1, <2>3, Zenon
<1> QED BY <1>1, <1>2

\* A sum of no numbers.
LEMMA SumNone ==
  ASSUME NEW f, NEW first \in Nat \ {0}, NEW L \in Nat, L < first
  PROVE  SumOver(f, first, L) = 0
<1>1. \A k \in first..L : f[k] \in Nat
  OBVIOUS
<1> QED BY <1>1, SumStep

\* The first n are numbers.
Numbers(f, n) == \A m \in 1..n : f[m] \in Nat

\* The sums of the first n do not change.
SumsKept(f, g, n) == \A m \in 0..n : SumOver(g, 1, m) = SumOver(f, 1, m)

\* The sum with one more.
SumAdds(f, g, n, value) == SumOver(g, 1, n + 1) = SumOver(f, 1, n) + value

\* One more line.
LEMMA OneMoreAdds ==
  ASSUME NEW waits, NEW new, NEW n \in Nat, NEW value \in Nat, OneMore(waits, new, n, value),
         Numbers(waits, n)
  PROVE  Numbers(new, n + 1) /\ SumAdds(waits, new, n, value) /\ SumsKept(waits, new, n)
<1>1. ASSUME NEW m \in 1..(n + 1) PROVE new[m] \in Nat
  <2>1. CASE m = n + 1
    BY <2>1 DEF OneMore
  <2>2. CASE m # n + 1
    <3>1. m \in 1..n
      BY <2>2
    <3>2. new[m] = waits[m] /\ waits[m] \in Nat
      BY <3>1, Zenon DEF OneMore, Numbers
    <3> QED BY <3>2
  <2> QED BY <2>1, <2>2
<1>2. 1 \in Nat \ {0}
  OBVIOUS
<1>3. ASSUME NEW m \in 0..n PROVE SumOver(new, 1, m) = SumOver(waits, 1, m)
  <2>1. m \in Nat
    OBVIOUS
  <2>2. \A k \in 1..m : waits[k] \in Nat /\ new[k] = waits[k]
    <3>1. \A k \in 1..m : k \in 1..n
      OBVIOUS
    <3> QED BY <3>1, Zenon DEF OneMore, Numbers
  <2> QED BY <1>2, <2>1, <2>2, SumsAgree, Zenon
<1>4. SumOver(new, 1, n + 1) = SumOver(new, 1, n) + value
  <2>1. PICK L \in Nat : L = n + 1
    OBVIOUS
  <2>2. L >= 1 /\ L - 1 = n
    BY <2>1
  <2>3. \A k \in 1..L : new[k] \in Nat
    BY <1>1, <2>1
  <2>4. SumOver(new, 1, L) = SumOver(new, 1, L - 1) + new[L]
    BY <1>2, <2>2, <2>3, SumStep, Zenon
  <2>5. new[L] = value
    BY <2>1, Zenon DEF OneMore
  <2> QED BY <2>1, <2>2, <2>4, <2>5, Zenon
<1>5. SumOver(new, 1, n) = SumOver(waits, 1, n)
  <2>1. n \in 0..n
    OBVIOUS
  <2> QED BY <1>3, <2>1, Zenon
<1> QED BY <1>1, <1>3, <1>4, <1>5, Zenon DEF Numbers, SumAdds, SumsKept

\* Segments for the same laps.
SameWhens(a, b) == \A i \in 1..Len(a) : b[i].when = a[i].when

\* What a wait adds to a lap.
More(when, lap, wait) == IF Passes(when, lap) THEN wait ELSE 0

\* Each segment starts when it did.
PrefixesKept(a, b, lap) ==
  \A i \in 1..Len(a) : SumOver(LapTimes(b, lap), 1, i - 1) = SumOver(LapTimes(a, lap), 1, i - 1)

\* The lap takes so much more.
LapAdds(a, b, lap, more) ==
  SumOver(LapTimes(b, lap), 1, Len(b)) = SumOver(LapTimes(a, lap), 1, Len(a)) + more

\* The last segment takes more time.
LEMMA LastSegmentGrows ==
  ASSUME NEW a, IsSegments(a), TimesTyped(a), NEW b, IsSegments(b), Len(b) = Len(a), Len(a) >= 1,
         SameWhens(a, b), NEW wait \in Nat, DurationsPut(a, b, wait),
         NEW lap, TimesTyped(b)
  PROVE  LapAdds(a, b, lap, More(a[Len(a)].when, lap, wait)) /\ PrefixesKept(a, b, lap)
<1>1. PICK L \in Nat : L = Len(a) /\ L >= 1 /\ Len(b) = L
  BY SegmentsLength
<1>2. PICK more \in Nat : /\ more = IF Passes(a[L].when, lap) THEN wait ELSE 0
                         /\ more = More(a[L].when, lap, wait)
  <2>1. CASE Passes(a[L].when, lap)
    BY <2>1, Zenon DEF More
  <2>2. CASE ~Passes(a[L].when, lap)
    BY <2>2 DEF More
  <2> QED BY <2>1, <2>2
<1> DEFINE f == LapTimes(a, lap)
           g == LapTimes(b, lap)
<1> HIDE DEF f, g
<1>3. \A i \in 1..L : f[i] \in Nat /\ g[i] \in Nat
  BY <1>1, LapTimesType, Zenon DEF f, g
<1>4. ASSUME NEW i \in 1..L
      PROVE  g[i] = IF i = L THEN f[i] + more ELSE f[i]
  <2>1. /\ f[i] = IF Passes(a[i].when, lap) THEN a[i].duration ELSE 0
        /\ g[i] = IF Passes(b[i].when, lap) THEN b[i].duration ELSE 0
    BY <1>1, LapTimesType, Zenon DEF f, g
  <2>2. b[i].when = a[i].when /\ a[i].duration \in Nat
    BY <1>1, Zenon DEF TimesTyped, SameWhens
  <2>3. b[i].duration = IF i = L THEN a[i].duration + wait ELSE a[i].duration
    BY <1>1, Zenon DEF DurationsPut
  <2>4. CASE i # L
    BY <2>1, <2>2, <2>3, <2>4, Zenon
  <2>5. CASE i = L /\ Passes(a[i].when, lap)
    BY <1>2, <2>1, <2>2, <2>3, <2>5, Zenon
  <2>6. CASE i = L /\ ~Passes(a[i].when, lap)
    <3>1. f[i] = 0 /\ g[i] = 0 /\ more = 0
      BY <1>2, <2>1, <2>2, <2>6, Zenon
    <3> QED BY <2>6, <3>1
  <2> QED BY <2>4, <2>5, <2>6, Zenon
<1>5. 1 \in Nat \ {0} /\ 1 <= L
  BY <1>1
<1>6. SumOver(g, 1, L) = SumOver(f, 1, L) + more
  <2>1. LastIsMore(f, g, 1, L, more)
    BY <1>3, <1>4, Zenon DEF LastIsMore
  <2>2. 1 <= L
    BY <1>5
  <2>3. 1 \in Nat \ {0}
    OBVIOUS
  <2>4. more \in Nat /\ L \in Nat
    OBVIOUS
  <2> QED BY <2>1, <2>2, <2>3, <2>4, LastNumberAdds, SMTT(30)
<1>7. ASSUME NEW i \in 1..L PROVE SumOver(g, 1, i - 1) = SumOver(f, 1, i - 1)
  <2>1. PICK m \in Nat : m = i - 1
    OBVIOUS
  <2>2. \A k \in 1..m : f[k] \in Nat /\ g[k] = f[k]
    <3>1. \A k \in 1..m : k \in 1..L /\ k # L
      BY <2>1
    <3> QED BY <1>3, <1>4, <3>1, Zenon
  <2>3. SumOver(g, 1, m) = SumOver(f, 1, m)
    BY <1>5, <2>2, SumsAgree, Zenon
  <2> QED BY <2>1, <2>3
<1> QED BY <1>1, <1>2, <1>6, <1>7, Zenon DEF f, g, LapAdds, PrefixesKept

\* What the sums need to know of the segments, the rows and the waits of the lines.
Shape(segments, rows, waits, n, at_line) ==
  /\ IsSegments(segments) /\ rows \in Seq(RowType) /\ Ordered(segments, Len(rows))
  /\ n \in Nat /\ Numbers(waits, n)
  /\ \A row \in 1..Len(rows) : at_line[row] \in 1..n

\* The segments take on a lap what the lines take, and each row starts when it is written to.
Times(segments, rows, waits, n, at_line, lap) ==
  /\ TimesTyped(segments) /\ Full(segments, rows)
  /\ Totals(segments, waits, n, lap) /\ Dues(segments, rows, waits, at_line, lap)

\* What is written above a row does not change.
LineSumKept(waits, new, at_line, row) ==
  SumOver(new, 1, at_line[row] - 1) = SumOver(waits, 1, at_line[row] - 1)

\* What is written above a row does not change.
LEMMA LineSumStays ==
  ASSUME NEW a, NEW rows, NEW waits, NEW n, NEW at_line, Shape(a, rows, waits, n, at_line),
         NEW new, NEW value \in Nat, OneMore(waits, new, n, value), NEW row \in 1..Len(rows)
  PROVE  LineSumKept(waits, new, at_line, row)
<1>1. n \in Nat /\ Numbers(waits, n) /\ at_line[row] \in 1..n
  BY Zenon DEF Shape
<1>2. PICK m \in 0..n : m = at_line[row] - 1
  BY <1>1
<1>3. SumsKept(waits, new, n)
  BY <1>1, OneMoreAdds, Zenon
<1>4. SumOver(new, 1, m) = SumOver(waits, 1, m)
  BY <1>3, Zenon DEF SumsKept
<1> QED BY <1>2, <1>4 DEF LineSumKept

\* The rows before one wait as they did.
RowWaitsAgree(ra, rb, row) ==
  /\ Len(ra) <= Len(rb)
  /\ \A k \in 1..(row - 1) : rb[k].wait = ra[k].wait

\* The waits of the rows before a row.
LEMMA WaitsBefore ==
  ASSUME NEW ra, NEW rb, ra \in Seq(RowType), rb \in Seq(RowType), NEW begin \in Nat \ {0},
         NEW row \in 1..(Len(ra) + 1), RowWaitsAgree(ra, rb, row)
  PROVE  /\ SumOver(RowWaits(rb), begin, row - 1) = SumOver(RowWaits(ra), begin, row - 1)
         /\ SumOver(RowWaits(ra), begin, row - 1) \in Nat
<1>1. PICK m \in Nat : m = row - 1
  OBVIOUS
<1> DEFINE f == RowWaits(ra)
           g == RowWaits(rb)
<1>2. Len(ra) \in Nat /\ Len(rb) \in Nat /\ Len(ra) <= Len(rb)
  BY DEF RowWaitsAgree
<1>3. \A k \in 1..Len(ra) : f[k] \in Nat /\ f[k] = ra[k].wait
  BY RowWaitsType, Zenon
<1>4. \A k \in 1..Len(rb) : g[k] \in Nat /\ g[k] = rb[k].wait
  BY RowWaitsType, Zenon
<1> HIDE DEF f, g
<1>5. ASSUME NEW k \in begin..m PROVE f[k] \in Nat /\ g[k] = f[k]
  <2>1. k \in 1..(row - 1) /\ k \in 1..Len(ra) /\ k \in 1..Len(rb)
    BY <1>1, <1>2
  <2>2. rb[k].wait = ra[k].wait
    BY <2>1, Zenon DEF RowWaitsAgree
  <2> QED BY <1>3, <1>4, <2>1, <2>2, Zenon
<1>6. \A k \in begin..m : f[k] \in Nat
  BY <1>5, Zenon
<1>7. SumOver(g, begin, m) = SumOver(f, begin, m)
  BY <1>5, SumsAgree, Zenon
<1>8. SumOver(f, begin, m) \in Nat
  BY <1>6, SumStep, Zenon
<1> QED BY <1>1, <1>7, <1>8 DEF f, g

\* What a row's start depends on does not change.
RowStays(a, b, ra, rb, i, row, lap) ==
  /\ b[i].begin = a[i].begin /\ b[i].lead = a[i].lead
  /\ SumOver(LapTimes(b, lap), 1, i - 1) = SumOver(LapTimes(a, lap), 1, i - 1)
  /\ RowWaitsAgree(ra, rb, row)

\* A row starts after the waits above a line.
DueAt(segments, rows, i, row, waits, line, lap) ==
  Begins(segments, rows, i, row, lap) = SumOver(waits, 1, line - 1)

LEMMA OldRowStays ==
  ASSUME NEW a, NEW ra, NEW waits, NEW n, NEW at_line, Shape(a, ra, waits, n, at_line),
         NEW b, NEW rb, rb \in Seq(RowType),
         NEW new, NEW value \in Nat, OneMore(waits, new, n, value),
         NEW lap, Dues(a, ra, waits, at_line, lap),
         NEW i \in 1..Len(a), NEW row \in 1..Len(ra), InSegment(a, i, row), RunsOn(a[i].when, lap),
         RowStays(a, b, ra, rb, i, row, lap)
  PROVE  DueAt(b, rb, i, row, new, at_line[row], lap)
<1>1. Begins(a, ra, i, row, lap) = SumOver(waits, 1, at_line[row] - 1)
  BY Zenon DEF Dues
<1>2. LineSumKept(waits, new, at_line, row)
  BY LineSumStays, Zenon
<1>3. ra \in Seq(RowType) /\ a[i].begin \in Nat \ {0}
  BY DEF Shape, Ordered
<1>4. row \in 1..(Len(ra) + 1)
  BY <1>3
<1>5. SumOver(RowWaits(rb), a[i].begin, row - 1) = SumOver(RowWaits(ra), a[i].begin, row - 1)
  BY <1>3, <1>4, WaitsBefore, Zenon DEF RowStays
<1>6. Begins(b, rb, i, row, lap) = Begins(a, ra, i, row, lap)
  BY <1>5, Zenon DEF Begins, RowStays
<1> QED BY <1>1, <1>2, <1>6, Zenon DEF LineSumKept, DueAt

\* A line that only opens a segment, or nothing.
LEMMA TimesStay ==
  ASSUME NEW a, NEW rows, NEW waits, NEW n, NEW at_line, Shape(a, rows, waits, n, at_line),
         NEW new, OneMore(waits, new, n, 0), NEW lap, Times(a, rows, waits, n, at_line, lap)
  PROVE  Times(a, rows, new, n + 1, at_line, lap)
<1>1. SumAdds(waits, new, n, 0)
  <2>1. n \in Nat /\ 0 \in Nat /\ Numbers(waits, n)
    BY DEF Shape
  <2> QED BY <2>1, OneMoreAdds, Zenon
<1>2. SumOver(waits, 1, n) \in Nat
  <2>1. n \in Nat /\ 1 \in Nat \ {0} /\ \A m \in 1..n : waits[m] \in Nat
    BY DEF Shape, Numbers
  <2> QED BY <2>1, SumStep, Zenon
<1>3. Totals(a, new, n + 1, lap)
  BY <1>1, <1>2 DEF Times, Totals, SumAdds
<1>4. Dues(a, rows, new, at_line, lap)
  <2>1. ASSUME NEW i \in 1..Len(a), NEW row \in 1..Len(rows), InSegment(a, i, row),
               RunsOn(a[i].when, lap)
        PROVE  Begins(a, rows, i, row, lap) = SumOver(new, 1, at_line[row] - 1)
    <3>1. Begins(a, rows, i, row, lap) = SumOver(waits, 1, at_line[row] - 1)
      BY <2>1, Zenon DEF Dues, Times
    <3>2. 0 \in Nat
      OBVIOUS
    <3>3. LineSumKept(waits, new, at_line, row)
      BY <3>2, LineSumStays, Zenon
    <3> QED BY <3>1, <3>3, Zenon DEF LineSumKept
  <2> QED BY <2>1, Zenon DEF Dues
<1> QED BY <1>3, <1>4, Zenon DEF Times

\* A new segment takes no time.
LEMMA OpeningTakesNone ==
  ASSUME NEW a, NEW rows, NEW waits, NEW n, NEW at_line, Shape(a, rows, waits, n, at_line),
         NEW when \in Selectors, NEW b, b = Append(a, Fresh(when, Len(rows) + 1)),
         NEW lap, Times(a, rows, waits, n, at_line, lap)
  PROVE  Times(b, rows, waits, n, at_line, lap)
<1>1. PICK L \in Nat : L = Len(a) /\ L >= 1
  BY SegmentsLength DEF Shape, Ordered
<1>2. PICK R \in Nat : R = Len(rows)
  BY RowWaitsType DEF Shape
<1> DEFINE fresh == Fresh(when, R + 1)
<1>3. IsSegment(fresh) /\ fresh.begin = R + 1 /\ fresh.end = R + 1 /\ fresh.lead = 0 /\ fresh.duration = 0
  <2>1. IsSegment(fresh)
    BY FreshIsSegment, Zenon
  <2>2. fresh.begin = R + 1 /\ fresh.end = R + 1 /\ fresh.lead = 0 /\ fresh.duration = 0
    BY DEF Fresh
  <2> QED BY <2>1, <2>2
<1>4. b = Append(a, fresh)
  BY <1>2
<1> HIDE DEF fresh
<1>5. IsSegments(a) /\ IsSegments(b)
  BY <1>3, <1>4, SegmentAdded, Zenon DEF Shape
<1>6. Len(b) = L + 1 /\ (\A i \in 1..L : b[i] = a[i]) /\ b[L + 1] = fresh
  <2>1. Len(b) = L + 1 /\ \A i \in 1..(L + 1) : b[i] = IF i = L + 1 THEN fresh ELSE a[i]
    BY <1>1, <1>4, <1>5, SegmentAppended
  <2>2. \A i \in 1..L : i \in 1..(L + 1) /\ i # L + 1
    OBVIOUS
  <2>3. L + 1 \in 1..(L + 1)
    OBVIOUS
  <2> QED BY <2>1, <2>2, <2>3, Zenon
<1>7. TimesTyped(b)
  <2>1. TimesTyped(a)
    BY Zenon DEF Times
  <2>2. ASSUME NEW i \in 1..(L + 1) PROVE b[i].lead \in Nat /\ b[i].duration \in Nat
    <3>1. CASE i = L + 1
      BY <1>3, <1>6, <3>1
    <3>2. CASE i # L + 1
      <4>1. i \in 1..L
        BY <3>2
      <4> QED BY <1>1, <1>6, <2>1, <4>1, Zenon DEF TimesTyped
    <3> QED BY <3>1, <3>2
  <2> QED BY <1>6, <2>2 DEF TimesTyped
<1> DEFINE f == LapTimes(a, lap)
           g == LapTimes(b, lap)
<1>8. Numbers(f, L) /\ OneMore(f, g, L, 0)
  <2>1. \A i \in 1..L : f[i] \in Nat /\ f[i] = IF Passes(a[i].when, lap) THEN a[i].duration ELSE 0
    <3>1. TimesTyped(a)
      BY Zenon DEF Times
    <3> QED BY <1>1, <1>5, <3>1, LapTimesType, Zenon
  <2>2. \A i \in 1..(L + 1) : g[i] = IF Passes(b[i].when, lap) THEN b[i].duration ELSE 0
    BY <1>5, <1>6, <1>7, LapTimesType, Zenon
  <2> HIDE DEF f, g
  <2>3. ASSUME NEW i \in 1..L PROVE g[i] = f[i]
    <3>1. i \in 1..(L + 1) /\ b[i] = a[i]
      BY <1>6
    <3> QED BY <2>1, <2>2, <3>1, Zenon
  <2>4. g[L + 1] = 0
    <3>1. L + 1 \in 1..(L + 1) /\ b[L + 1].duration = 0
      BY <1>3, <1>6
    <3> QED BY <2>2, <3>1, Zenon
  <2> QED BY <2>1, <2>3, <2>4, Zenon DEF Numbers, OneMore
<1> HIDE DEF f, g
<1>9. SumAdds(f, g, L, 0) /\ SumsKept(f, g, L)
  <2>1. 0 \in Nat
    OBVIOUS
  <2> QED BY <1>8, <2>1, OneMoreAdds, Zenon
<1>10. Totals(b, waits, n, lap)
  <2>1. SumOver(f, 1, L) \in Nat
    <3>1. 1 \in Nat \ {0} /\ \A i \in 1..L : f[i] \in Nat
      BY <1>8 DEF Numbers
    <3> QED BY <3>1, SumStep, Zenon
  <2>2. SumOver(f, 1, L) = SumOver(waits, 1, n)
    BY <1>1, Zenon DEF Times, Totals, f
  <2> QED BY <1>6, <1>9, <2>1, <2>2 DEF Totals, SumAdds, g
<1>11. Full(b, rows)
  <2>1. ASSUME NEW i \in 1..(L + 1)
        PROVE  b[i].duration = b[i].lead + SumOver(RowWaits(rows), b[i].begin, b[i].end - 1)
    <3>1. CASE i = L + 1
      <4>1. PICK begin \in Nat \ {0} : begin = R + 1
        OBVIOUS
      <4>2. R < begin
        BY <4>1
      <4>3. SumOver(RowWaits(rows), begin, R) = 0
        BY <4>2, SumNone
      <4>4. b[i].begin = begin /\ b[i].end - 1 = R /\ b[i].duration = 0 /\ b[i].lead = 0
        BY <1>3, <1>6, <3>1, <4>1
      <4>5. SumOver(RowWaits(rows), b[i].begin, b[i].end - 1) = 0
        BY <4>3, <4>4, Zenon
      <4>6. 0 = 0 + 0
        OBVIOUS
      <4> QED BY <4>4, <4>5, <4>6, Zenon
    <3>2. CASE i # L + 1
      <4>1. i \in 1..L
        BY <3>2
      <4>2. b[i] = a[i]
        BY <1>6, <4>1
      <4> QED BY <1>1, <4>1, <4>2, Zenon DEF Times, Full
    <3> QED BY <3>1, <3>2
  <2> QED BY <1>6, <2>1 DEF Full
<1>12. Dues(b, rows, waits, at_line, lap)
  <2>1. ASSUME NEW i \in 1..Len(b), NEW row \in 1..Len(rows), InSegment(b, i, row),
               RunsOn(b[i].when, lap)
        PROVE  Begins(b, rows, i, row, lap) = SumOver(waits, 1, at_line[row] - 1)
    <3>1. i # L + 1
      <4>1. CASE i = L + 1
        <5>1. b[i].begin = R + 1 /\ b[i].end = R + 1
          BY <1>3, <1>6, <4>1
        <5> QED BY <1>2, <2>1, <5>1 DEF InSegment
      <4> QED BY <4>1
    <3>2. i \in 1..L /\ i \in 1..Len(a)
      BY <1>1, <1>6, <3>1
    <3>3. b[i] = a[i]
      BY <1>6, <3>2
    <3>4. InSegment(a, i, row) /\ RunsOn(a[i].when, lap)
      BY <2>1, <3>3, Zenon DEF InSegment
    <3>5. Begins(a, rows, i, row, lap) = SumOver(waits, 1, at_line[row] - 1)
      BY <3>2, <3>4, Zenon DEF Times, Dues
    <3>6. i - 1 \in 0..L
      BY <3>2
    <3>7. SumOver(g, 1, i - 1) = SumOver(f, 1, i - 1)
      BY <1>9, <3>6, Zenon DEF SumsKept
    <3> QED BY <3>3, <3>5, <3>7, Zenon DEF Begins, f, g
  <2> QED BY <2>1, Zenon DEF Dues
<1> QED BY <1>7, <1>10, <1>11, <1>12, Zenon DEF Times

\* What a segment gets that grows.
Grown(a, b, wait) ==
  /\ IsSegments(b) /\ Len(b) = Len(a) /\ SameWhens(a, b) /\ DurationsPut(a, b, wait)
  /\ \A i \in 1..Len(a) : b[i].begin = a[i].begin /\ b[i].lead \in Nat

\* The last segment's share.
LEMMA GrownTotals ==
  ASSUME NEW a, NEW ra, NEW waits, NEW n, NEW at_line, Shape(a, ra, waits, n, at_line),
         NEW wait \in Nat, NEW b, Grown(a, b, wait),
         NEW lap, NEW new, OneMore(waits, new, n, More(a[Len(a)].when, lap, wait)),
         TimesTyped(a), Totals(a, waits, n, lap)
  PROVE  /\ More(a[Len(a)].when, lap, wait) \in Nat /\ TimesTyped(b) /\ Totals(b, new, n + 1, lap)
         /\ PrefixesKept(a, b, lap)
<1>1. IsSegments(a) /\ Len(a) >= 1 /\ n \in Nat /\ Numbers(waits, n)
  BY DEF Shape, Ordered
<1>2. IsSegments(b) /\ Len(b) = Len(a) /\ SameWhens(a, b) /\ DurationsPut(a, b, wait)
  BY Zenon DEF Grown
<1>3. PICK more \in Nat : more = More(a[Len(a)].when, lap, wait)
  <2>1. CASE Passes(a[Len(a)].when, lap)
    BY <2>1, Zenon DEF More
  <2>2. CASE ~Passes(a[Len(a)].when, lap)
    <3>1. More(a[Len(a)].when, lap, wait) = 0
      BY <2>2, Zenon DEF More
    <3> QED BY <3>1
  <2> QED BY <2>1, <2>2, Zenon
<1>4. TimesTyped(b)
  <2>1. ASSUME NEW i \in 1..Len(a) PROVE b[i].lead \in Nat /\ b[i].duration \in Nat
    <3>1. a[i].duration \in Nat
      BY DEF TimesTyped
    <3>2. b[i].duration = IF i = Len(a) THEN a[i].duration + wait ELSE a[i].duration
      BY <1>2, Zenon DEF DurationsPut
    <3>3. b[i].lead \in Nat
      BY Zenon DEF Grown
    <3> QED BY <3>1, <3>2, <3>3
  <2> QED BY <1>2, <2>1, Zenon DEF TimesTyped
<1>5. LapAdds(a, b, lap, more) /\ PrefixesKept(a, b, lap)
  BY <1>1, <1>2, <1>3, <1>4, LastSegmentGrows, Zenon
<1>6. SumAdds(waits, new, n, more)
  BY <1>1, <1>3, OneMoreAdds, Zenon
<1>7. Totals(b, new, n + 1, lap)
  BY <1>5, <1>6, Zenon DEF Totals, SumAdds, LapAdds
<1> QED BY <1>3, <1>4, <1>5, <1>7, Zenon

\* Only the end of the last segment moves.
Ends(a, b, end) == \A i \in 1..Len(a) : b[i].end = IF i = Len(a) THEN end ELSE a[i].end

\* The rows with one more.
OneRowMore(ra, rb, wait) ==
  /\ rb \in Seq(RowType) /\ Len(rb) = Len(ra) + 1
  /\ \A k \in 1..Len(ra) : rb[k].wait = ra[k].wait
  /\ rb[Len(ra) + 1].wait = wait

\* Where the last segment ends, the others end before it begins.
LEMMA LastSegmentIs ==
  ASSUME NEW a, NEW rows, NEW waits, NEW n, NEW at_line, Shape(a, rows, waits, n, at_line)
  PROVE  /\ Len(a) \in Nat /\ Len(a) >= 1 /\ Len(rows) \in Nat /\ n \in Nat
         /\ a[Len(a)].end = Len(rows) + 1
         /\ \A i \in 1..Len(a) :
              /\ a[i].begin \in Nat \ {0} /\ a[i].end \in Nat /\ a[i].begin <= a[i].end
              /\ i # Len(a) => a[i].end <= a[Len(a)].begin
              /\ a[i].end <= Len(rows) + 1
<1>1. PICK L \in Nat : L = Len(a)
  BY SegmentsLength DEF Shape
<1>2. PICK R \in Nat : R = Len(rows)
  BY RowWaitsType DEF Shape
<1>3. L >= 1 /\ a[L].end = R + 1 /\ n \in Nat
  BY <1>1, <1>2 DEF Shape, Ordered
<1>4. ASSUME NEW i \in 1..L
      PROVE  /\ a[i].begin \in Nat \ {0} /\ a[i].end \in Nat /\ a[i].begin <= a[i].end
             /\ i # L => a[i].end <= a[L].begin
  <2>1. a[i].begin \in Nat \ {0} /\ a[i].end \in Nat /\ a[i].begin <= a[i].end
    BY <1>1 DEF Shape, Ordered
  <2>2. i # L => i < L /\ L \in 1..L
    BY <1>3
  <2>3. i < L /\ L \in 1..L => a[i].end <= a[L].begin
    BY <1>1 DEF Shape, Ordered
  <2> QED BY <2>1, <2>2, <2>3, Zenon
<1>5. ASSUME NEW i \in 1..L PROVE a[i].end <= R + 1
  <2>1. L \in 1..L
    BY <1>3
  <2>2. a[L].begin \in Nat /\ a[L].end \in Nat /\ a[L].begin <= a[L].end
    BY <1>4, <2>1
  <2>3. a[i].end \in Nat /\ (i # L => a[i].end <= a[L].begin)
    BY <1>4
  <2> QED BY <1>3, <2>2, <2>3
<1> QED BY <1>1, <1>2, <1>3, <1>4, <1>5

LEMMA RowTimes ==
  ASSUME NEW a, NEW ra, NEW waits, NEW n, NEW at_line, Shape(a, ra, waits, n, at_line),
         NEW lap, Times(a, ra, waits, n, at_line, lap),
         NEW wait \in Nat, NEW b, Grown(a, b, wait), LeadsKept(a, b), Ends(a, b, Len(ra) + 2),
         NEW rb, OneRowMore(ra, rb, wait),
         NEW new, OneMore(waits, new, n, More(a[Len(a)].when, lap, wait)),
         NEW new_at, OneMore(at_line, new_at, Len(ra), n + 1)
  PROVE  Times(b, rb, new, n + 1, new_at, lap)
<1>1. PICK L \in Nat : L = Len(a) /\ L >= 1 /\ L \in 1..L
  BY LastSegmentIs
<1>2. PICK R \in Nat : R = Len(ra)
  BY LastSegmentIs
<1>3. /\ a[L].end = R + 1 /\ n \in Nat
      /\ \A i \in 1..L :
           /\ a[i].begin \in Nat \ {0} /\ a[i].end \in Nat /\ a[i].begin <= a[i].end
           /\ i # L => a[i].end <= a[L].begin
           /\ a[i].end <= R + 1
  BY <1>1, <1>2, LastSegmentIs
<1>4. ASSUME NEW i \in 1..L
      PROVE  /\ b[i].begin = a[i].begin /\ b[i].when = a[i].when /\ b[i].lead = a[i].lead
             /\ b[i].end = IF i = L THEN R + 2 ELSE a[i].end
             /\ b[i].duration = IF i = L THEN a[i].duration + wait ELSE a[i].duration
  BY <1>1, <1>2, Zenon DEF Grown, SameWhens, LeadsKept, Ends, DurationsPut
<1>5. TimesTyped(a) /\ Totals(a, waits, n, lap) /\ Full(a, ra) /\ Dues(a, ra, waits, at_line, lap)
  BY Zenon DEF Times
<1>6. More(a[L].when, lap, wait) \in Nat /\ TimesTyped(b) /\ Totals(b, new, n + 1, lap) /\ PrefixesKept(a, b, lap)
  BY <1>1, <1>5, GrownTotals, Zenon
<1>7. /\ Len(b) = L /\ ra \in Seq(RowType) /\ rb \in Seq(RowType) /\ Len(rb) = R + 1
      /\ \A k \in 1..R : rb[k].wait = ra[k].wait
      /\ rb[R + 1].wait = wait
  BY <1>1, <1>2, Zenon DEF Grown, Shape, OneRowMore
<1>8. \A row \in 1..(R + 1) : RowWaitsAgree(ra, rb, row)
  BY <1>2, <1>7 DEF RowWaitsAgree
<1>9. ASSUME NEW i \in 1..L, NEW row \in 1..(R + 1)
      PROVE  SumOver(RowWaits(rb), a[i].begin, row - 1) = SumOver(RowWaits(ra), a[i].begin, row - 1)
  <2>1. row \in 1..(Len(ra) + 1) /\ RowWaitsAgree(ra, rb, row) /\ a[i].begin \in Nat \ {0}
    BY <1>2, <1>3, <1>8
  <2> QED BY <1>7, <2>1, WaitsBefore, Zenon
<1>10. Full(b, rb)
  <2>1. ASSUME NEW i \in 1..L
        PROVE  b[i].duration = b[i].lead + SumOver(RowWaits(rb), b[i].begin, b[i].end - 1)
    <3>1. a[i].duration = a[i].lead + SumOver(RowWaits(ra), a[i].begin, a[i].end - 1)
      BY <1>1, <1>5, Zenon DEF Full
    <3>2. a[i].end \in 1..(R + 1)
      BY <1>3
    <3>3. SumOver(RowWaits(rb), a[i].begin, a[i].end - 1) = SumOver(RowWaits(ra), a[i].begin, a[i].end - 1)
      BY <1>9, <3>2, Zenon
    <3>4. CASE i # L
      BY <1>4, <3>1, <3>3, <3>4, Zenon
    <3>5. CASE i = L
      <4>1. PICK begin \in Nat \ {0} : begin = a[i].begin /\ begin <= R + 1
        BY <1>3, <3>5
      <4>2. PICK K \in Nat : K = R + 1 /\ K >= begin /\ K - 1 = R
        BY <4>1
      <4>3. \A k \in begin..K : RowWaits(rb)[k] \in Nat /\ RowWaits(rb)[k] = rb[k].wait
        <5>1. \A k \in begin..K : k \in 1..Len(rb)
          BY <1>7, <4>2
        <5> QED BY <1>7, <5>1, RowWaitsType, Zenon
      <4>4. SumOver(RowWaits(rb), begin, K) = SumOver(RowWaits(rb), begin, K - 1) + RowWaits(rb)[K]
        BY <4>2, <4>3, SumStep
      <4>5. RowWaits(rb)[K] = wait
        <5>1. K \in begin..K
          BY <4>2
        <5> QED BY <1>7, <4>2, <4>3, <5>1
      <4>6. PICK S : S = SumOver(RowWaits(ra), begin, R)
        OBVIOUS
      <4>7. SumOver(RowWaits(rb), begin, R) = S /\ a[i].duration = a[i].lead + S
        <5>1. a[i].end - 1 = R
          BY <1>3, <3>5
        <5> QED BY <3>1, <3>3, <4>1, <4>6, <5>1, Zenon
      <4>8. b[i].duration = a[i].duration + wait /\ b[i].lead = a[i].lead /\ b[i].begin = begin /\ b[i].end - 1 = K
        <5>1. b[i].end = R + 2 /\ b[i].duration = a[i].duration + wait /\ b[i].lead = a[i].lead /\ b[i].begin = begin
          BY <1>4, <3>5, <4>1, Zenon
        <5> QED BY <4>2, <5>1
      <4>9. SumOver(RowWaits(rb), b[i].begin, b[i].end - 1) = S + wait
        BY <4>2, <4>4, <4>5, <4>7, <4>8, Zenon
      <4>10. S \in Nat /\ a[i].lead \in Nat
        <5>1. \A k \in begin..R : RowWaits(ra)[k] \in Nat
          <6>1. \A k \in begin..R : k \in 1..Len(ra)
            BY <1>2
          <6> QED BY <1>7, <6>1, RowWaitsType, Zenon
        <5> QED BY <1>1, <1>5, <4>6, <5>1, SumStep DEF TimesTyped
      <4>11. (a[i].lead + S) + wait = a[i].lead + (S + wait)
        BY <4>10
      <4> QED BY <4>7, <4>8, <4>9, <4>11, Zenon
    <3> QED BY <3>4, <3>5
  <2> QED BY <1>7, <2>1 DEF Full
<1>11. Dues(b, rb, new, new_at, lap)
  <2>1. ASSUME NEW i \in 1..L, NEW row \in 1..(R + 1), InSegment(b, i, row), RunsOn(b[i].when, lap)
        PROVE  Begins(b, rb, i, row, lap) = SumOver(new, 1, new_at[row] - 1)
    <3>1. RunsOn(a[i].when, lap) /\ a[i].begin <= row
      BY <1>4, <2>1, Zenon DEF InSegment
    <3>2. CASE row # R + 1
      <4>1. row \in 1..R /\ row \in 1..Len(ra)
        BY <1>2, <3>2
      <4>2. InSegment(a, i, row)
        <5>1. CASE i = L
          BY <1>3, <3>1, <4>1, <5>1 DEF InSegment
        <5>2. CASE i # L
          BY <1>4, <2>1, <5>2, Zenon DEF InSegment
        <5> QED BY <5>1, <5>2
      <4>3. RowStays(a, b, ra, rb, i, row, lap)
        BY <1>1, <1>4, <1>6, <1>8, Zenon DEF RowStays, PrefixesKept
      <4>4. new_at[row] = at_line[row]
        BY <4>1, Zenon DEF OneMore
      <4>5. i \in 1..Len(a)
        BY <1>1
      <4>6. DueAt(b, rb, i, row, new, at_line[row], lap)
        <5>1. PICK more \in Nat : OneMore(waits, new, n, more)
          BY <1>1, <1>6, Zenon
        <5> QED BY <1>5, <1>7, <3>1, <4>1, <4>2, <4>3, <4>5, <5>1, OldRowStays, Zenon
      <4> QED BY <4>4, <4>6, Zenon DEF DueAt
    <3>3. CASE row = R + 1
      <4>1. i = L
        <5>1. CASE i # L
          <6>1. b[i].end <= a[L].begin /\ a[L].begin <= R + 1 /\ a[L].begin \in Nat /\ b[i].end \in Nat
            BY <1>1, <1>3, <1>4, <5>1
          <6> QED BY <2>1, <3>3, <6>1 DEF InSegment
        <5> QED BY <5>1
      <4>2. PICK f : f = LapTimes(a, lap)
        OBVIOUS
      <4>3. \A k \in 1..L : f[k] \in Nat /\ f[k] = IF Passes(a[k].when, lap) THEN a[k].duration ELSE 0
        <5>1. IsSegments(a)
          BY Zenon DEF Shape
        <5> QED BY <1>1, <1>5, <4>2, <5>1, LapTimesType, Zenon
      <4>4. SumOver(f, 1, L) = SumOver(f, 1, L - 1) + f[L] /\ SumOver(f, 1, L - 1) \in Nat
        <5>1. 1 \in Nat \ {0} /\ L >= 1 /\ L - 1 \in Nat
          BY <1>1
        <5>2. \A k \in 1..L : f[k] \in Nat
          BY <4>3
        <5>3. \A k \in 1..(L - 1) : f[k] \in Nat
          BY <5>2
        <5>4. SumOver(f, 1, L) = SumOver(f, 1, L - 1) + f[L]
          BY <5>1, <5>2, SumStep
        <5>5. SumOver(f, 1, L - 1) \in Nat
          BY <5>1, <5>3, SumStep
        <5> QED BY <5>4, <5>5
      <4>5. f[L] = a[L].duration
        BY <1>1, <3>1, <4>1, <4>3, Zenon DEF Passes
      <4>6. PICK S : S = SumOver(RowWaits(ra), a[L].begin, R)
        OBVIOUS
      <4>7. a[L].duration = a[L].lead + S /\ SumOver(RowWaits(rb), a[L].begin, R) = S
        <5>1. a[L].end - 1 = R /\ R + 1 \in 1..(R + 1) /\ (R + 1) - 1 = R
          BY <1>3
        <5>2. SumOver(RowWaits(rb), a[L].begin, (R + 1) - 1) = SumOver(RowWaits(ra), a[L].begin, (R + 1) - 1)
          BY <1>1, <1>9, <5>1, Zenon
        <5>3. a[L].duration = a[L].lead + SumOver(RowWaits(ra), a[L].begin, a[L].end - 1)
          BY <1>1, <1>5, Zenon DEF Full
        <5> QED BY <4>6, <5>1, <5>2, <5>3, Zenon
      <4>8. SumOver(LapTimes(b, lap), 1, L - 1) = SumOver(f, 1, L - 1)
        BY <1>1, <1>6, <4>2, Zenon DEF PrefixesKept
      <4>9. PICK P \in Nat : P = SumOver(f, 1, L - 1)
        BY <4>4
      <4>10. Begins(b, rb, i, row, lap) = P + a[L].lead + S
        <5>1. row - 1 = R
          BY <3>3
        <5>2. b[L].lead = a[L].lead /\ b[L].begin = a[L].begin
          BY <1>1, <1>4, Zenon
        <5> QED BY <4>1, <4>7, <4>8, <4>9, <5>1, <5>2, Zenon DEF Begins
      <4>11. SumOver(new, 1, n) = SumOver(waits, 1, n)
        <5>1. n \in 0..n /\ n \in Nat /\ Numbers(waits, n)
          BY <1>3 DEF Shape
        <5>2. SumsKept(waits, new, n)
          BY <1>1, <1>6, <5>1, OneMoreAdds, Zenon
        <5> QED BY <5>1, <5>2, Zenon DEF SumsKept
      <4>12. SumOver(waits, 1, n) = SumOver(f, 1, L)
        BY <1>1, <1>5, <4>2, Zenon DEF Totals
      <4>13. new_at[row] - 1 = n
        <5>1. new_at[row] = n + 1
          BY <1>2, <3>3, Zenon DEF OneMore
        <5> QED BY <1>3, <5>1
      <4>14. P + a[L].lead + S = P + (a[L].lead + S)
        <5>1. a[L].lead \in Nat
          BY <1>1, <1>5 DEF TimesTyped
        <5>2. S \in Nat
          <6>1. ra \in Seq(RowType) /\ R \in Nat /\ a[L].begin \in Nat \ {0} /\ R + 1 \in 1..(Len(ra) + 1)
            BY <1>1, <1>2, <1>3, <1>7
          <6>2. RowWaitsAgree(ra, rb, R + 1) /\ (R + 1) - 1 = R
            BY <1>8, <6>1
          <6>3. SumOver(RowWaits(ra), a[L].begin, (R + 1) - 1) \in Nat
            BY <1>7, <6>1, <6>2, WaitsBefore, Zenon
          <6> QED BY <4>6, <6>2, <6>3, Zenon
        <5> QED BY <5>1, <5>2
      <4> QED BY <4>4, <4>5, <4>7, <4>9, <4>10, <4>11, <4>12, <4>13, <4>14, Zenon
    <3> QED BY <3>2, <3>3
  <2> QED BY <1>7, <2>1 DEF Dues
<1> QED BY <1>6, <1>10, <1>11, Zenon DEF Times

\* The segments end where they did.
SameEnds(a, b) == \A i \in 1..Len(a) : b[i].end = a[i].end

\* As many rows as there were.
SameLength(ra, rb) == rb \in Seq(RowType) /\ Len(rb) = Len(ra)

\* A wait before the segment's first row.
LEMMA LeadTimes ==
  ASSUME NEW a, NEW ra, NEW waits, NEW n, NEW at_line, Shape(a, ra, waits, n, at_line),
         NEW lap, Times(a, ra, waits, n, at_line, lap),
         NEW wait \in Nat, NEW b, Grown(a, b, wait), LeadsPut(a, b, wait), SameEnds(a, b),
         ~HasRows(a[Len(a)]),
         NEW rb, SameLength(ra, rb), WaitsKept(ra, rb),
         NEW new, OneMore(waits, new, n, More(a[Len(a)].when, lap, wait))
  PROVE  Times(b, rb, new, n + 1, at_line, lap)
<1>1. PICK L \in Nat : L = Len(a) /\ L >= 1 /\ L \in 1..L
  BY LastSegmentIs
<1>2. PICK R \in Nat : R = Len(ra)
  BY LastSegmentIs
<1>3. \A i \in 1..L :
        /\ a[i].begin \in Nat \ {0} /\ a[i].end \in Nat /\ a[i].begin <= a[i].end
        /\ a[i].end <= R + 1
  BY <1>1, <1>2, LastSegmentIs
<1>4. ASSUME NEW i \in 1..L
      PROVE  /\ b[i].begin = a[i].begin /\ b[i].when = a[i].when /\ b[i].end = a[i].end
             /\ b[i].lead = IF i = L THEN a[i].lead + wait ELSE a[i].lead
             /\ b[i].duration = IF i = L THEN a[i].duration + wait ELSE a[i].duration
  BY <1>1, Zenon DEF Grown, SameWhens, LeadsPut, SameEnds, DurationsPut
<1>5. TimesTyped(a) /\ Totals(a, waits, n, lap) /\ Full(a, ra) /\ Dues(a, ra, waits, at_line, lap)
  BY Zenon DEF Times
<1>6. /\ More(a[L].when, lap, wait) \in Nat /\ TimesTyped(b) /\ Totals(b, new, n + 1, lap)
      /\ PrefixesKept(a, b, lap)
  BY <1>1, <1>5, GrownTotals, Zenon
<1>7. /\ Len(b) = L /\ ra \in Seq(RowType) /\ rb \in Seq(RowType) /\ Len(rb) = R
      /\ \A k \in 1..R : rb[k].wait = ra[k].wait
  BY <1>1, <1>2, Zenon DEF Grown, Shape, SameLength, WaitsKept
<1>8. \A row \in 1..(R + 1) : RowWaitsAgree(ra, rb, row)
  BY <1>2, <1>7 DEF RowWaitsAgree
<1>9. ASSUME NEW i \in 1..L, NEW row \in 1..(R + 1)
      PROVE  /\ SumOver(RowWaits(rb), a[i].begin, row - 1) = SumOver(RowWaits(ra), a[i].begin, row - 1)
             /\ SumOver(RowWaits(ra), a[i].begin, row - 1) \in Nat
  <2>1. row \in 1..(Len(ra) + 1) /\ RowWaitsAgree(ra, rb, row) /\ a[i].begin \in Nat \ {0}
    BY <1>2, <1>3, <1>8
  <2> QED BY <1>7, <2>1, WaitsBefore, Zenon
<1>10. Full(b, rb)
  <2>1. ASSUME NEW i \in 1..L
        PROVE  b[i].duration = b[i].lead + SumOver(RowWaits(rb), b[i].begin, b[i].end - 1)
    <3>1. PICK S \in Nat : S = SumOver(RowWaits(ra), a[i].begin, a[i].end - 1)
      <4>1. a[i].end \in 1..(R + 1)
        BY <1>3
      <4> QED BY <1>9, <4>1
    <3>2. a[i].duration = a[i].lead + S /\ a[i].lead \in Nat
      BY <1>1, <1>5, <3>1, Zenon DEF Full, TimesTyped
    <3>3. SumOver(RowWaits(rb), b[i].begin, b[i].end - 1) = S
      <4>1. a[i].end \in 1..(R + 1)
        BY <1>3
      <4>2. SumOver(RowWaits(rb), a[i].begin, a[i].end - 1) = SumOver(RowWaits(ra), a[i].begin, a[i].end - 1)
        BY <1>9, <4>1, Zenon
      <4> QED BY <1>4, <3>1, <4>2, Zenon
    <3>4. CASE i # L
      <4>1. b[i].duration = a[i].duration /\ b[i].lead = a[i].lead
        BY <1>4, <3>4, Zenon
      <4> QED BY <3>2, <3>3, <4>1, Zenon
    <3>5. CASE i = L
      <4>1. b[i].duration = a[i].duration + wait /\ b[i].lead = a[i].lead + wait
        BY <1>4, <3>5, Zenon
      <4>2. PICK lead \in Nat : lead = a[i].lead
        BY <3>2
      <4>3. (lead + S) + wait = (lead + wait) + S
        OBVIOUS
      <4> QED BY <3>2, <3>3, <4>1, <4>2, <4>3, Zenon
    <3> QED BY <3>4, <3>5
  <2> QED BY <1>7, <2>1 DEF Full
<1>11. Dues(b, rb, new, at_line, lap)
  <2>1. ASSUME NEW i \in 1..L, NEW row \in 1..R, InSegment(b, i, row), RunsOn(b[i].when, lap)
        PROVE  Begins(b, rb, i, row, lap) = SumOver(new, 1, at_line[row] - 1)
    <3>1. RunsOn(a[i].when, lap) /\ InSegment(a, i, row)
      BY <1>4, <2>1, Zenon DEF InSegment
    <3>2. i # L
      <4>1. CASE i = L
        <5>1. a[i].begin = a[i].end
          BY <1>1, <4>1 DEF HasRows
        <5>2. a[i].end \in Nat
          BY <1>3
        <5> QED BY <3>1, <5>1, <5>2 DEF InSegment
      <4> QED BY <4>1
    <3>3. row \in 1..(R + 1)
      OBVIOUS
    <3>4. RowStays(a, b, ra, rb, i, row, lap)
      BY <1>1, <1>4, <1>6, <1>8, <3>2, <3>3, Zenon DEF RowStays, PrefixesKept
    <3>5. i \in 1..Len(a) /\ row \in 1..Len(ra)
      BY <1>1, <1>2
    <3>6. DueAt(b, rb, i, row, new, at_line[row], lap)
      <4>1. PICK more \in Nat : OneMore(waits, new, n, more)
        BY <1>1, <1>6, Zenon
      <4> QED BY <1>5, <1>7, <3>1, <3>4, <3>5, <4>1, OldRowStays, Zenon
    <3> QED BY <3>6, Zenon DEF DueAt
  <2> QED BY <1>7, <2>1 DEF Dues
<1> QED BY <1>6, <1>10, <1>11, Zenon DEF Times

\* A wait that adds to the last row's.
LEMMA PauseTimes ==
  ASSUME NEW a, NEW ra, NEW waits, NEW n, NEW at_line, Shape(a, ra, waits, n, at_line),
         NEW lap, Times(a, ra, waits, n, at_line, lap),
         NEW wait \in Nat, NEW b, Grown(a, b, wait), LeadsKept(a, b), SameEnds(a, b),
         HasRows(a[Len(a)]),
         NEW rb, SameLength(ra, rb), WaitsPut(ra, rb, wait),
         NEW new, OneMore(waits, new, n, More(a[Len(a)].when, lap, wait))
  PROVE  Times(b, rb, new, n + 1, at_line, lap)
<1>1. PICK L \in Nat : L = Len(a) /\ L >= 1 /\ L \in 1..L
  BY LastSegmentIs
<1>2. PICK R \in Nat : R = Len(ra)
  BY LastSegmentIs
<1>3. /\ a[L].end = R + 1
      /\ \A i \in 1..L :
           /\ a[i].begin \in Nat \ {0} /\ a[i].end \in Nat /\ a[i].begin <= a[i].end
           /\ i # L => a[i].end <= a[L].begin
           /\ a[i].end <= R + 1
  BY <1>1, <1>2, LastSegmentIs
<1>4. ASSUME NEW i \in 1..L
      PROVE  /\ b[i].begin = a[i].begin /\ b[i].when = a[i].when /\ b[i].end = a[i].end
             /\ b[i].lead = a[i].lead
             /\ b[i].duration = IF i = L THEN a[i].duration + wait ELSE a[i].duration
  BY <1>1, Zenon DEF Grown, SameWhens, LeadsKept, SameEnds, DurationsPut
<1>5. TimesTyped(a) /\ Totals(a, waits, n, lap) /\ Full(a, ra) /\ Dues(a, ra, waits, at_line, lap)
  BY Zenon DEF Times
<1>6. /\ More(a[L].when, lap, wait) \in Nat /\ TimesTyped(b) /\ Totals(b, new, n + 1, lap)
      /\ PrefixesKept(a, b, lap)
  BY <1>1, <1>5, GrownTotals, Zenon
<1>7. /\ Len(b) = L /\ ra \in Seq(RowType) /\ rb \in Seq(RowType) /\ Len(rb) = R
      /\ \A k \in 1..R : rb[k].wait = IF k = R THEN ra[k].wait + wait ELSE ra[k].wait
  BY <1>1, <1>2, Zenon DEF Grown, Shape, SameLength, WaitsPut
<1>8. \A row \in 1..R : RowWaitsAgree(ra, rb, row)
  BY <1>2, <1>7 DEF RowWaitsAgree
<1>9. a[L].begin <= R /\ a[L].begin \in Nat \ {0}
  <2>1. a[L].begin # a[L].end
    BY <1>1 DEF HasRows
  <2> QED BY <1>1, <1>3, <2>1
<1>10. Full(b, rb)
  <2>1. ASSUME NEW i \in 1..L
        PROVE  b[i].duration = b[i].lead + SumOver(RowWaits(rb), b[i].begin, b[i].end - 1)
    <3>1. a[i].duration = a[i].lead + SumOver(RowWaits(ra), a[i].begin, a[i].end - 1) /\ a[i].lead \in Nat
      BY <1>1, <1>5, Zenon DEF Full, TimesTyped
    <3>2. CASE i # L
      <4>1. a[i].end \in 1..R /\ a[i].begin \in Nat \ {0} /\ a[i].end \in 1..(Len(ra) + 1)
        BY <1>2, <1>3, <1>9, <3>2
      <4>2. PICK end \in 1..(Len(ra) + 1) : end = a[i].end
        BY <4>1
      <4>3. PICK begin \in Nat \ {0} : begin = a[i].begin
        BY <4>1
      <4>4. RowWaitsAgree(ra, rb, end)
        BY <1>8, <4>1, <4>2
      <4>5. SumOver(RowWaits(rb), begin, end - 1) = SumOver(RowWaits(ra), begin, end - 1)
        BY <1>7, <4>4, WaitsBefore, Zenon
      <4>6. b[i].duration = a[i].duration /\ b[i].lead = a[i].lead /\ b[i].begin = begin /\ b[i].end = end
        BY <1>4, <3>2, <4>2, <4>3, Zenon
      <4> QED BY <3>1, <4>2, <4>3, <4>5, <4>6, Zenon
    <3>3. CASE i = L
      <4>1. PICK begin \in Nat \ {0} : begin = a[i].begin /\ begin <= R
        BY <1>9, <3>3
      <4>2. PICK f : f = RowWaits(ra)
        OBVIOUS
      <4>3. PICK g : g = RowWaits(rb)
        OBVIOUS
      <4>4. \A k \in begin..R : k \in 1..Len(ra) /\ k \in 1..Len(rb) /\ k \in 1..R
        BY <1>2, <1>7, <4>1
      <4>5. \A k \in begin..R : f[k] \in Nat /\ f[k] = ra[k].wait
        BY <1>7, <4>2, <4>4, RowWaitsType, Zenon
      <4>6. \A k \in begin..R : g[k] = rb[k].wait
        BY <1>7, <4>3, <4>4, RowWaitsType, Zenon
      <4>7. ASSUME NEW k \in begin..R PROVE f[k] \in Nat /\ g[k] = IF k = R THEN f[k] + wait ELSE f[k]
        <5>1. k \in 1..R
          BY <4>4
        <5>2. rb[k].wait = IF k = R THEN ra[k].wait + wait ELSE ra[k].wait
          BY <1>7, <5>1, Zenon
        <5> QED BY <4>5, <4>6, <5>2
      <4>8. LastIsMore(f, g, begin, R, wait)
        BY <4>7, Zenon DEF LastIsMore
      <4>9. SumOver(g, begin, R) = SumOver(f, begin, R) + wait
        BY <4>1, <4>8, LastNumberAdds
      <4>10. PICK S \in Nat : S = SumOver(f, begin, R)
        <5>1. \A k \in begin..R : f[k] \in Nat
          BY <4>5
        <5>2. SumOver(f, begin, R) \in Nat
          BY <5>1, SumStep
        <5> QED BY <5>2
      <4>11. /\ b[i].begin = begin /\ b[i].end - 1 = R /\ a[i].end - 1 = R
             /\ b[i].lead = a[i].lead /\ b[i].duration = a[i].duration + wait
        <5>1. a[i].end = R + 1 /\ b[i].end = a[i].end
          BY <1>3, <1>4, <3>3, Zenon
        <5>2. b[i].begin = begin /\ b[i].lead = a[i].lead /\ b[i].duration = a[i].duration + wait
          BY <1>4, <3>3, <4>1, Zenon
        <5> QED BY <5>1, <5>2
      <4>12. a[i].duration = a[i].lead + S
        BY <3>1, <4>1, <4>2, <4>10, <4>11, Zenon
      <4>13. SumOver(RowWaits(rb), b[i].begin, b[i].end - 1) = S + wait
        BY <4>3, <4>9, <4>10, <4>11, Zenon
      <4>14. (a[i].lead + S) + wait = a[i].lead + (S + wait)
        BY <3>1
      <4> QED BY <4>11, <4>12, <4>13, <4>14, Zenon
    <3> QED BY <3>2, <3>3
  <2> QED BY <1>7, <2>1 DEF Full
<1>11. Dues(b, rb, new, at_line, lap)
  <2>1. ASSUME NEW i \in 1..L, NEW row \in 1..R, InSegment(b, i, row), RunsOn(b[i].when, lap)
        PROVE  Begins(b, rb, i, row, lap) = SumOver(new, 1, at_line[row] - 1)
    <3>1. RunsOn(a[i].when, lap) /\ InSegment(a, i, row)
      BY <1>4, <2>1, Zenon DEF InSegment
    <3>2. RowStays(a, b, ra, rb, i, row, lap)
      BY <1>1, <1>4, <1>6, <1>8, Zenon DEF RowStays, PrefixesKept
    <3>3. i \in 1..Len(a) /\ row \in 1..Len(ra)
      BY <1>1, <1>2
    <3>4. DueAt(b, rb, i, row, new, at_line[row], lap)
      <4>1. PICK more \in Nat : OneMore(waits, new, n, more)
        BY <1>1, <1>6, Zenon
      <4> QED BY <1>5, <1>7, <3>1, <3>2, <3>3, <4>1, OldRowStays, Zenon
    <3> QED BY <3>4, Zenon DEF DueAt
  <2> QED BY <1>7, <2>1 DEF Dues
<1> QED BY <1>6, <1>10, <1>11, Zenon DEF Times

-----------------------------------------------------------------------------
(* The times the reader keeps                                              *)

\* The times hold of what load() has read so far.
ReadTimes(lap) ==
  Times(reader.segments, reader.rows, WaitsOn(lap), Number - 1, RowLines, lap)

\* load() has kept every row it has read.
EveryRow ==
  \A i \in Kinds({"row"}) : \E row \in 1..Len(reader.rows) : RowLines[row] = i

\* What a line adds to a lap.
DataWait(line, when, lap) ==
  IF line.kind \in {"row", "wait"} THEN More(when, lap, line.wait) ELSE 0

LEMMA WaitOnIs ==
  ASSUME NEW lap, NEW i \in DOMAIN lines
  PROVE  WaitsOn(lap)[i] = IF i \in Kinds({"row", "wait"}) THEN More(WhenOf(i), lap, lines[i].wait) ELSE 0
BY Zenon DEF WaitsOn, More, Passes

LEMMA WaitsAreNumbers ==
  ASSUME lines \in Seq(AllLines), DataFits, NEW lap
  PROVE  Number - 1 \in Nat /\ DOMAIN lines = 1..(Number - 1) /\ Numbers(WaitsOn(lap), Number - 1)
<1>1. Number - 1 \in Nat /\ DOMAIN lines = 1..(Number - 1)
  BY DEF Number
<1>2. ASSUME NEW i \in 1..(Number - 1) PROVE WaitsOn(lap)[i] \in Nat
  <2>1. i \in DOMAIN lines /\ IsLine(lines[i])
    <3>1. i \in DOMAIN lines /\ lines[i] \in AllLines
      BY <1>1
    <3> QED BY <3>1, LinesAreLines
  <2>2. CASE i \in Kinds({"row", "wait"})
    <3>1. lines[i].kind \in {"row", "wait"}
      BY <2>2 DEF Kinds
    <3>2. lines[i].wait \in Nat
      <4>1. lines[i].wait \in Nat \union {Malformed}
        BY <2>1, <3>1, Zenon DEF IsLine
      <4>2. lines[i].wait # Malformed
        BY <2>2, Zenon DEF DataFits
      <4> QED BY <4>1, <4>2
    <3>3. CASE Passes(WhenOf(i), lap)
      <4>1. WaitsOn(lap)[i] = lines[i].wait
        BY <2>1, <2>2, <3>3, WaitOnIs, Zenon DEF More
      <4> QED BY <3>2, <4>1, Zenon
    <3>4. CASE ~Passes(WhenOf(i), lap)
      <4>1. WaitsOn(lap)[i] = 0
        BY <2>1, <2>2, <3>4, WaitOnIs, Zenon DEF More
      <4> QED BY <4>1
    <3> QED BY <3>3, <3>4, Zenon
  <2>3. CASE i \notin Kinds({"row", "wait"})
    <3>1. WaitsOn(lap)[i] = 0
      BY <2>1, <2>3, WaitOnIs, Zenon
    <3> QED BY <3>1
  <2> QED BY <2>2, <2>3, Zenon
<1> QED BY <1>1, <1>2, Zenon DEF Numbers

LEMMA WaitsGrow ==
  ASSUME NEW line, Grows(line), NEW lap
  PROVE  OneMore(WaitsOn(lap), WaitsOn(lap)', Number - 1, DataWait(line, WhenOf(Number), lap))
<1>1. PICK n \in Nat : n = Number
  BY LinesGrow
<1>2. /\ n \in Nat /\ DOMAIN lines = 1..(n - 1) /\ DOMAIN lines' = 1..n
      /\ lines'[n] = line /\ \A i \in 1..(n - 1) : lines'[i] = lines[i]
  BY <1>1, LinesGrow
<1>3. \A i \in 1..n : WhenOf(i)' = WhenOf(i)
  BY <1>1, WhenGrows
<1>4. PICK kinds : kinds = {"row", "wait"}
  OBVIOUS
<1>5. /\ Kinds(kinds) \subseteq 1..(n - 1)
      /\ Kinds(kinds)' = Kinds(kinds) \union (IF line.kind \in kinds THEN {n} ELSE {})
  BY <1>1, KindsGrow
<1>6. ASSUME NEW i \in 1..n
      PROVE  WaitsOn(lap)'[i] = IF i \in Kinds(kinds)' THEN More(WhenOf(i), lap, lines'[i].wait) ELSE 0
  <2>1. WaitsOn(lap)'[i] = IF i \in Kinds(kinds)' THEN More(WhenOf(i)', lap, lines'[i].wait) ELSE 0
    BY <1>2, <1>4, Zenon DEF WaitsOn, More, Passes
  <2> QED BY <1>3, <2>1, Zenon
<1>7. ASSUME NEW i \in 1..(n - 1) PROVE WaitsOn(lap)'[i] = WaitsOn(lap)[i]
  <2>1. i \in 1..n /\ i # n
    BY <1>2
  <2>2. i \in Kinds(kinds)' <=> i \in Kinds(kinds)
    BY <1>5, <2>1
  <2>3. WaitsOn(lap)[i] = IF i \in Kinds(kinds) THEN More(WhenOf(i), lap, lines[i].wait) ELSE 0
    BY <1>2, <1>4, WaitOnIs, Zenon
  <2>4. lines'[i] = lines[i]
    BY <1>2, Zenon
  <2> QED BY <1>6, <2>1, <2>2, <2>3, <2>4, Zenon
<1>8. WaitsOn(lap)'[n] = DataWait(line, WhenOf(n), lap)
  <2>1. n \in 1..n
    BY <1>1, LinesGrow
  <2>2. n \in Kinds(kinds)' <=> line.kind \in kinds
    BY <1>5, <2>1
  <2> QED BY <1>2, <1>4, <1>6, <2>1, <2>2, Zenon DEF DataWait
<1>9. (n - 1) + 1 = n
  BY <1>2
<1> QED BY <1>1, <1>7, <1>8, <1>9, Zenon DEF OneMore

LEMMA ReaderShape ==
  ASSUME Numbered(reader), lines \in Seq(AllLines), Written, Divided, Prefix, NEW lap
  PROVE  /\ Shape(reader.segments, reader.rows, WaitsOn(lap), Number - 1, RowLines)
         /\ reader.segments[Len(reader.segments)].when = WhenOf(Number)
<1>1. Number - 1 \in Nat /\ DOMAIN lines = 1..(Number - 1) /\ Numbers(WaitsOn(lap), Number - 1)
  BY WaitsAreNumbers, Zenon DEF Prefix
<1>2. ASSUME NEW row \in 1..Len(reader.rows) PROVE RowLines[row] \in 1..(Number - 1)
  <2>1. RowLines[row] \in Kinds({"row"})
    BY Zenon DEF Written
  <2> QED BY <1>1, <2>1, Zenon DEF Kinds
<1>3. IsSegments(reader.segments)
  BY Zenon DEF Numbered, IsReader
<1> QED BY <1>1, <1>2, <1>3, Zenon DEF Shape, Written, Divided

LEMMA DataWaitIs ==
  ASSUME NEW line, IsLine(line), line.kind \in {"row", "wait"}, Accepts(reader, line)
  PROVE  line.wait \in Nat
<1>1. line.wait \in Nat \union {Malformed}
  BY Zenon DEF IsLine
<1>2. line.wait # Malformed
  <2>1. CASE line.kind = "row"
    BY <2>1, Zenon DEF Accepts, RowFits
  <2>2. CASE line.kind = "wait"
    BY <2>2, Zenon DEF Accepts
  <2> QED BY <2>1, <2>2
<1> QED BY <1>1, <1>2

LEMMA TimesRead ==
  ASSUME NEW line, IsLine(line), Grows(line), Numbered(reader), Numbered(reader'), Written, Written',
         Divided, Prefix, Remembers, Fits(line), Accepts(reader, line), Lays(reader, reader', line),
         TimesPut(reader, reader', line), NEW lap, ReadTimes(lap)
  PROVE  ReadTimes(lap)'
<1> DEFINE a == reader.segments
           b == reader'.segments
           ra == reader.rows
           rb == reader'.rows
           waits == WaitsOn(lap)
           new == WaitsOn(lap)'
<1>1. PICK n \in Nat : n = Number - 1
  BY LinesGrow
<1>2. (Number - 1)' = n + 1 /\ n + 1 = Number
  <2>1. Number' = Number + 1 /\ Number \in Nat
    BY LinesGrow
  <2>2. (Number - 1)' = Number' - 1
    OBVIOUS
  <2> QED BY <1>1, <2>1, <2>2
<1>3. Shape(a, ra, waits, n, RowLines) /\ a[Len(a)].when = WhenOf(Number)
  <2>1. lines \in Seq(AllLines)
    BY Zenon DEF Grows
  <2> QED BY <1>1, <2>1, ReaderShape, Zenon
<1>4. Times(a, ra, waits, n, RowLines, lap)
  BY <1>1, Zenon DEF ReadTimes
<1>5. OneMore(waits, new, n, DataWait(line, WhenOf(Number), lap))
  BY <1>1, WaitsGrow, Zenon
<1>6. IsSegments(a) /\ IsSegments(b) /\ ra \in Seq(RowType) /\ rb \in Seq(RowType)
  <2>1. ra \in Seq(RowType) /\ rb \in Seq(RowType)
    BY Zenon DEF Written
  <2> QED BY <2>1, Zenon DEF Numbered, IsReader
<1>7. RowLines' = IF line.kind = "row" THEN Append(RowLines, n + 1) ELSE RowLines
  BY <1>2, RowLinesGrow, Zenon
<1>8. TimesTyped(a)
  BY <1>4, Zenon DEF Times
<1>9. SUFFICES Times(b, rb, new, n + 1, RowLines', lap)
  BY <1>2, Zenon DEF ReadTimes
<1> HIDE DEF waits, new
<1>10. CASE line.kind = "row"
  <2>1. line.wait \in Nat
    BY <1>10, DataWaitIs
  <2>2. /\ rb = Append(ra, [payload |-> line.payload, wait |-> line.wait])
        /\ Extended(a, b, Len(ra) + 2) /\ DurationsPut(a, b, line.wait) /\ LeadsKept(a, b)
    BY <1>10, Zenon DEF Lays, TimesPut
  <2>3. Ends(a, b, Len(ra) + 2) /\ Len(b) = Len(a) /\ SameWhens(a, b) /\ \A i \in 1..Len(a) : b[i].begin = a[i].begin
    BY <2>2, Zenon DEF Extended, Ends, SameWhens
  <2>4. \A i \in 1..Len(a) : b[i].lead \in Nat
    BY <1>8, <2>2, Zenon DEF LeadsKept, TimesTyped
  <2>5. Grown(a, b, line.wait)
    BY <1>6, <2>2, <2>3, <2>4, Zenon DEF Grown
  <2>6. OneRowMore(ra, rb, line.wait)
    <3>1. Len(rb) = Len(ra) + 1 /\ \A k \in 1..Len(ra) : rb[k] = ra[k]
      BY <1>6, <2>2
    <3>2. rb[Len(ra) + 1].wait = line.wait
      BY <1>6, <2>2
    <3> QED BY <1>6, <3>1, <3>2, Zenon DEF OneRowMore
  <2>7. OneMore(RowLines, RowLines', Len(ra), n + 1)
    <3>1. RowLines \in Seq(Nat) /\ Len(RowLines) = Len(ra) /\ RowLines' = Append(RowLines, n + 1)
      BY <1>7, <1>10, Zenon DEF Written
    <3>2. (\A k \in 1..Len(ra) : RowLines'[k] = RowLines[k]) /\ RowLines'[Len(ra) + 1] = n + 1
      BY <3>1
    <3> QED BY <3>2, Zenon DEF OneMore
  <2>8. OneMore(waits, new, n, More(a[Len(a)].when, lap, line.wait))
    BY <1>3, <1>5, <1>10, Zenon DEF DataWait
  <2> QED BY <1>3, <1>4, <2>1, <2>2, <2>3, <2>5, <2>6, <2>7, <2>8, RowTimes, Zenon
<1>11. CASE line.kind = "wait"
  <2>1. line.wait \in Nat
    BY <1>11, DataWaitIs
  <2>2. SameRows(ra, rb) /\ SameOutline(a, b) /\ DurationsPut(a, b, line.wait) /\ RowLines' = RowLines
    BY <1>7, <1>11, Zenon DEF Lays, TimesPut
  <2>3. SameEnds(a, b) /\ Len(b) = Len(a) /\ SameWhens(a, b) /\ \A i \in 1..Len(a) : b[i].begin = a[i].begin
    BY <2>2, Zenon DEF SameOutline, SameEnds, SameWhens
  <2>4. SameLength(ra, rb)
    BY <1>6, <2>2, Zenon DEF SameRows, SameLength
  <2>5. OneMore(waits, new, n, More(a[Len(a)].when, lap, line.wait))
    BY <1>3, <1>5, <1>11, Zenon DEF DataWait
  <2>6. CASE NoRowYet(reader)
    <3>1. LeadsPut(a, b, line.wait) /\ WaitsKept(ra, rb) /\ ~HasRows(a[Len(a)])
      BY <1>11, <2>6, Zenon DEF TimesPut, NoRowYet
    <3>2. ASSUME NEW i \in 1..Len(a) PROVE b[i].lead \in Nat
      <4>1. b[i].lead = IF i = Len(a) THEN a[i].lead + line.wait ELSE a[i].lead
        BY <3>1, Zenon DEF LeadsPut
      <4>2. a[i].lead \in Nat
        BY <1>8, Zenon DEF TimesTyped
      <4> QED BY <2>1, <4>1, <4>2
    <3>3. Grown(a, b, line.wait)
      BY <1>6, <2>2, <2>3, <3>2, Zenon DEF Grown
    <3>4. Times(b, rb, new, n + 1, RowLines, lap)
      BY <1>3, <1>4, <2>1, <2>3, <2>4, <2>5, <3>1, <3>3, LeadTimes, Zenon
    <3> QED BY <2>2, <3>4, Zenon
  <2>7. CASE ~NoRowYet(reader)
    <3>1. LeadsKept(a, b) /\ WaitsPut(ra, rb, line.wait) /\ HasRows(a[Len(a)])
      BY <1>11, <2>7, Zenon DEF TimesPut, NoRowYet
    <3>2. \A i \in 1..Len(a) : b[i].lead \in Nat
      BY <1>8, <3>1, Zenon DEF LeadsKept, TimesTyped
    <3>3. Grown(a, b, line.wait)
      BY <1>6, <2>2, <2>3, <3>2, Zenon DEF Grown
    <3>4. Times(b, rb, new, n + 1, RowLines, lap)
      BY <1>3, <1>4, <2>1, <2>3, <2>4, <2>5, <3>1, <3>3, PauseTimes, Zenon
    <3> QED BY <2>2, <3>4, Zenon
  <2> QED BY <2>6, <2>7, Zenon
<1>12. CASE line.kind \notin {"row", "wait"}
  <2>1. OneMore(waits, new, n, 0) /\ RowLines' = RowLines
    <3>1. line.kind # "row"
      BY <1>12
    <3> QED BY <1>5, <1>7, <1>12, <3>1, Zenon DEF DataWait
  <2>2. Times(a, ra, new, n + 1, RowLines, lap)
    BY <1>3, <1>4, <2>1, TimesStay, Zenon
  <2>3. Shape(a, ra, new, n + 1, RowLines)
    <3>1. n \in Nat /\ Numbers(waits, n) /\ 0 \in Nat
      BY <1>3 DEF Shape
    <3>2. Numbers(new, n + 1)
      BY <2>1, <3>1, OneMoreAdds, Zenon
    <3>3. \A row \in 1..Len(ra) : RowLines[row] \in 1..(n + 1)
      <4>1. \A row \in 1..Len(ra) : RowLines[row] \in 1..n
        BY <1>3, Zenon DEF Shape
      <4>2. 1..n \subseteq 1..(n + 1)
        OBVIOUS
      <4> QED BY <4>1, <4>2, Zenon
    <3>4. n + 1 \in Nat
      OBVIOUS
    <3> QED BY <1>3, <3>2, <3>3, <3>4, Zenon DEF Shape
  <2>4. CASE line.kind \in {"lap", "every", "else", "end"}
    <3>1. PICK when \in Selectors : rb = ra /\ b = Append(a, Fresh(when, Len(ra) + 1))
      <4>1. CASE line.kind \in {"lap", "every"}
        <5>1. rb = ra /\ b = Append(a, Fresh(Block(line)[1], Len(ra) + 1))
          BY <4>1, Zenon DEF Lays
        <5>2. Block(line)[1] \in Selectors
          <6>1. IsHead(line) /\ Block(line) # None
            BY <4>1, Zenon DEF IsLine, Accepts
          <6> QED BY <4>1, <6>1, HeadsAreSelectors
        <5> QED BY <5>1, <5>2, Zenon
      <4>2. CASE line.kind = "else"
        <5>1. rb = ra /\ b = Append(a, Fresh([reader.block EXCEPT !.negate = TRUE], Len(ra) + 1))
          BY <4>2, Zenon DEF Lays
        <5>2. [reader.block EXCEPT !.negate = TRUE] \in Selectors
          <6>1. reader.block \in Selectors
            BY Zenon DEF Numbered, IsReader
          <6> QED BY <6>1 DEF Selectors
        <5> QED BY <5>1, <5>2, Zenon
      <4>3. CASE line.kind = "end"
        BY <4>3, AlwaysIsSelector, Zenon DEF Lays
      <4> QED BY <2>4, <4>1, <4>2, <4>3
    <3>2. Times(b, ra, new, n + 1, RowLines, lap)
      BY <2>2, <2>3, <3>1, OpeningTakesNone, Zenon
    <3> QED BY <2>1, <3>1, <3>2, Zenon
  <2>5. CASE line.kind \in {"blank", "format", "screen", "coords"}
    <3>1. rb = ra /\ b = a
      BY <2>5, Zenon DEF Lays
    <3> QED BY <2>1, <2>2, <3>1, Zenon
  <2>6. line.kind \in LineKinds /\ line.kind \notin {"screen_comment", "unknown"}
    BY Zenon DEF IsLine, Accepts
  <2> QED BY <1>12, <2>4, <2>5, <2>6 DEF LineKinds
<1> QED BY <1>10, <1>11, <1>12

\* No row is lost on the way into the rows.
LEMMA EveryRowGrows ==
  ASSUME NEW line, Grows(line), EveryRow, Written, Written', Accepts(reader, line), IsLine(line),
         Lays(reader, reader', line)
  PROVE  EveryRow'
<1>1. PICK n : n = Number
  OBVIOUS
<1>2. Kinds({"row"})' = Kinds({"row"}) \union (IF line.kind \in {"row"} THEN {n} ELSE {})
  BY <1>1, KindsGrow, Zenon
<1>3. RowLines' = IF line.kind = "row" THEN Append(RowLines, n) ELSE RowLines
  BY <1>1, RowLinesGrow, Zenon
<1>4. PICK m \in Nat : m = Len(reader.rows) /\ m = Len(RowLines) /\ RowLines \in Seq(Nat)
  BY DEF Written
<1>5. CASE line.kind = "row"
  <2>1. Len(reader'.rows) = m + 1
    BY <1>4, <1>5 DEF Lays, Written
  <2>2. RowLines' = Append(RowLines, n)
    BY <1>3, <1>5
  <2>3. (\A k \in 1..m : RowLines'[k] = RowLines[k]) /\ RowLines'[m + 1] = n
    BY <1>4, <2>2
  <2>4. m + 1 \in 1..(m + 1) /\ \A k \in 1..m : k \in 1..(m + 1)
    OBVIOUS
  <2>5. \A i \in Kinds({"row"})' : i \in Kinds({"row"}) \/ i = n
    BY <1>2
  <2>6. ASSUME NEW i \in Kinds({"row"})' PROVE \E row \in 1..(m + 1) : RowLines'[row] = i
    <3>1. CASE i = n
      BY <2>3, <2>4, <3>1, Zenon
    <3>2. CASE i \in Kinds({"row"})
      <4>1. PICK row \in 1..m : RowLines[row] = i
        BY <1>4, <3>2, Zenon DEF EveryRow
      <4> QED BY <2>3, <2>4, <4>1, Zenon
    <3> QED BY <2>5, <3>1, <3>2
  <2> QED BY <2>1, <2>6, Zenon DEF EveryRow
<1>6. CASE line.kind # "row"
  <2>1. Len(reader'.rows) = m
    <3>1. Len(RowLines') = Len(reader'.rows) /\ RowLines' = RowLines
      BY <1>3, <1>6, Zenon DEF Written
    <3> QED BY <1>4, <3>1, Zenon
  <2>2. Kinds({"row"})' = Kinds({"row"}) /\ RowLines' = RowLines
    BY <1>2, <1>3, <1>6
  <2> QED BY <1>4, <2>1, <2>2, Zenon DEF EveryRow
<1> QED BY <1>5, <1>6

-----------------------------------------------------------------------------
(* Without the empty segments                                              *)

\* Each segment ends before the next begins.
Follow(segments) ==
  \A k, m \in 1..Len(segments) : k < m => segments[k].end <= segments[m].begin

\* What the first n segments take on a lap.
Total(segments, lap, n) == SumOver(LapTimes(segments, lap), 1, n)

\* What Finish has kept of the first i segments: their rows start when they did, and they take
\* as long.
KeptSoFar(a, rows, waits, at_line, lap, s, i) ==
  /\ IsSegments(s) /\ TimesTyped(s) /\ Full(s, rows) /\ Dues(s, rows, waits, at_line, lap)
  /\ Total(s, lap, Len(s)) = Total(a, lap, i)
  /\ \A k \in 1..Len(s) : \E j \in 1..i : s[k] = a[j]
  /\ Follow(s)

LEMMA TotalStep ==
  ASSUME NEW a, IsSegments(a), TimesTyped(a), NEW lap, NEW i \in 1..Len(a)
  PROVE  /\ Total(a, lap, i) = Total(a, lap, i - 1) + (IF Passes(a[i].when, lap) THEN a[i].duration ELSE 0)
         /\ Total(a, lap, i - 1) \in Nat /\ Total(a, lap, i) \in Nat
<1>1. PICK f : f = LapTimes(a, lap)
  OBVIOUS
<1>2. \A k \in 1..Len(a) : f[k] \in Nat /\ f[k] = IF Passes(a[k].when, lap) THEN a[k].duration ELSE 0
  BY <1>1, LapTimesType, Zenon
<1>3. Len(a) \in Nat
  BY SegmentsLength
<1>4. 1 \in Nat \ {0} /\ i \in Nat /\ i >= 1 /\ i - 1 \in Nat
  BY <1>3
<1>5. (\A k \in 1..i : f[k] \in Nat) /\ (\A k \in 1..(i - 1) : f[k] \in Nat)
  BY <1>2, <1>3
<1>6. SumOver(f, 1, i) = SumOver(f, 1, i - 1) + f[i]
  BY <1>4, <1>5, SumStep
<1>7. SumOver(f, 1, i) \in Nat /\ SumOver(f, 1, i - 1) \in Nat
  BY <1>4, <1>5, SumStep
<1> QED BY <1>1, <1>2, <1>6, <1>7, Zenon DEF Total

\* The segments with one more take up to the last what they took.
Lengthened(s, t, e, lap) ==
  /\ IsSegments(t) /\ TimesTyped(t) /\ Len(s) \in Nat /\ Len(t) = Len(s) + 1 /\ t[Len(s) + 1] = e
  /\ \A k \in 1..Len(s) : t[k] = s[k]
  /\ \A k \in 0..Len(s) : Total(t, lap, k) = Total(s, lap, k)

\* Appending to segments.
LEMMA TotalAppended ==
  ASSUME NEW s, IsSegments(s), TimesTyped(s), NEW e, IsSegment(e), e.lead \in Nat, e.duration \in Nat,
         NEW lap, NEW t, t = Append(s, e)
  PROVE  Lengthened(s, t, e, lap)
<1>1. PICK L \in Nat : L = Len(s)
  BY SegmentsLength
<1>2. IsSegments(t)
  BY SegmentAdded, Zenon
<1>3. Len(t) = L + 1 /\ \A k \in 1..(L + 1) : t[k] = IF k = L + 1 THEN e ELSE s[k]
  BY <1>1, SegmentAppended
<1>4. t[L + 1] = e /\ \A k \in 1..L : t[k] = s[k] /\ k \in 1..(L + 1)
  BY <1>3
<1>5. TimesTyped(t)
  <2>1. ASSUME NEW k \in 1..(L + 1) PROVE t[k].lead \in Nat /\ t[k].duration \in Nat
    <3>1. CASE k = L + 1
      BY <1>4, <3>1
    <3>2. CASE k # L + 1
      <4>1. k \in 1..L
        BY <3>2
      <4> QED BY <1>1, <1>4, <4>1, Zenon DEF TimesTyped
    <3> QED BY <3>1, <3>2
  <2> QED BY <1>3, <2>1 DEF TimesTyped
<1>6. ASSUME NEW k \in 0..L PROVE Total(t, lap, k) = Total(s, lap, k)
  <2>1. PICK f : f = LapTimes(s, lap)
    OBVIOUS
  <2>2. PICK g : g = LapTimes(t, lap)
    OBVIOUS
  <2>3. k \in Nat /\ \A m \in 1..k : m \in 1..L /\ m \in 1..(L + 1)
    OBVIOUS
  <2>4. \A m \in 1..L : f[m] \in Nat /\ f[m] = More(s[m].when, lap, s[m].duration)
    BY <1>1, <2>1, LapTimesType, Zenon DEF More
  <2>5. \A m \in 1..(L + 1) : g[m] = More(t[m].when, lap, t[m].duration)
    BY <1>2, <1>3, <1>5, <2>2, LapTimesType, Zenon DEF More
  <2>6. ASSUME NEW m \in 1..k PROVE f[m] \in Nat /\ g[m] = f[m]
    <3>1. m \in 1..L /\ m \in 1..(L + 1) /\ t[m] = s[m]
      BY <1>4, <2>3, Zenon
    <3>2. f[m] \in Nat /\ f[m] = More(s[m].when, lap, s[m].duration)
      BY <2>4, <3>1, Zenon
    <3>3. g[m] = More(t[m].when, lap, t[m].duration)
      BY <2>5, <3>1, Zenon
    <3> QED BY <3>1, <3>2, <3>3, Zenon
  <2>7. 1 \in Nat \ {0}
    OBVIOUS
  <2>8. SumOver(g, 1, k) = SumOver(f, 1, k)
    <3>1. \A m \in 1..k : f[m] \in Nat /\ g[m] = f[m]
      BY <2>6, Zenon
    <3>2. k \in Nat
      BY <2>3, Zenon
    <3> QED BY <2>7, <3>1, <3>2, SumsAgree
  <2> QED BY <2>1, <2>2, <2>8, Zenon DEF Total
<1> QED BY <1>1, <1>2, <1>3, <1>4, <1>5, <1>6, Zenon DEF Lengthened

LEMMA OneIsKept ==
  ASSUME NEW a, NEW rows, NEW waits, NEW n, NEW at_line, Shape(a, rows, waits, n, at_line),
         NEW lap, Times(a, rows, waits, n, at_line, lap), NEW i \in 1..Len(a),
         NEW s, KeptSoFar(a, rows, waits, at_line, lap, s, i - 1)
  PROVE  KeptSoFar(a, rows, waits, at_line, lap, Append(s, a[i]), i)
<1>1. PICK t : t = Append(s, a[i])
  OBVIOUS
<1>2. IsSegments(a) /\ IsSegment(a[i]) /\ TimesTyped(a) /\ Full(a, rows) /\ Dues(a, rows, waits, at_line, lap)
  <2>1. IsSegments(a)
    BY Zenon DEF Shape
  <2> QED BY <2>1, SegmentsLength, Zenon DEF Times, IsSegments
<1>3. a[i].lead \in Nat /\ a[i].duration \in Nat
  BY <1>2, Zenon DEF TimesTyped
<1>4. /\ IsSegments(s) /\ TimesTyped(s) /\ Full(s, rows) /\ Dues(s, rows, waits, at_line, lap)
      /\ Total(s, lap, Len(s)) = Total(a, lap, i - 1)
      /\ \A k \in 1..Len(s) : \E j \in 1..(i - 1) : s[k] = a[j]
      /\ Follow(s)
  BY Zenon DEF KeptSoFar
<1>5. PICK L \in Nat : L = Len(s)
  BY <1>4, SegmentsLength
<1>6. /\ IsSegments(t) /\ TimesTyped(t) /\ Len(t) = L + 1 /\ t[L + 1] = a[i]
      /\ \A k \in 1..L : t[k] = s[k]
      /\ \A k \in 0..L : Total(t, lap, k) = Total(s, lap, k)
  <2>1. PICK e : e = a[i]
    OBVIOUS
  <2>2. t = Append(s, e) /\ IsSegment(e) /\ e.lead \in Nat /\ e.duration \in Nat
    BY <1>1, <1>2, <1>3, <2>1, Zenon
  <2>3. Lengthened(s, t, e, lap)
    BY <1>4, <2>2, TotalAppended, Zenon
  <2> QED BY <1>5, <2>1, <2>3, Zenon DEF Lengthened
<1>7. Full(t, rows)
  <2>1. ASSUME NEW k \in 1..(L + 1)
        PROVE  t[k].duration = t[k].lead + SumOver(RowWaits(rows), t[k].begin, t[k].end - 1)
    <3>1. CASE k = L + 1
      BY <1>2, <1>6, <3>1, Zenon DEF Full
    <3>2. CASE k # L + 1
      <4>1. k \in 1..L
        BY <3>2
      <4>2. t[k] = s[k]
        BY <1>6, <4>1
      <4> QED BY <1>4, <1>5, <4>1, <4>2, Zenon DEF Full
    <3> QED BY <3>1, <3>2
  <2> QED BY <1>6, <2>1 DEF Full
<1>8. Total(t, lap, L + 1) = Total(a, lap, i)
  <2>1. Total(a, lap, i) = Total(a, lap, i - 1) + (IF Passes(a[i].when, lap) THEN a[i].duration ELSE 0)
    BY <1>2, TotalStep, Zenon
  <2>2. PICK K : K = L + 1 /\ K \in 1..(L + 1) /\ K - 1 = L
    OBVIOUS
  <2>3. Total(t, lap, K) = Total(t, lap, K - 1) + (IF Passes(t[K].when, lap) THEN t[K].duration ELSE 0)
    BY <1>6, <2>2, TotalStep, Zenon
  <2>4. Total(t, lap, L) = Total(a, lap, i - 1) /\ t[K] = a[i]
    <3>1. L \in 0..L
      OBVIOUS
    <3> QED BY <1>4, <1>5, <1>6, <2>2, <3>1, Zenon
  <2> QED BY <2>1, <2>2, <2>3, <2>4, Zenon
<1>9. \A k \in 1..(L + 1) : \E j \in 1..i : t[k] = a[j]
  <2>1. i \in Nat
    BY <1>2, SegmentsLength
  <2>2. ASSUME NEW k \in 1..(L + 1) PROVE \E j \in 1..i : t[k] = a[j]
    <3>1. CASE k = L + 1
      <4>1. i \in 1..i
        BY <2>1
      <4> QED BY <1>6, <3>1, <4>1
    <3>2. CASE k # L + 1
      <4>1. k \in 1..L
        BY <3>2
      <4>2. PICK j \in 1..(i - 1) : s[k] = a[j]
        BY <1>4, <1>5, <4>1
      <4>3. j \in 1..i
        BY <2>1
      <4> QED BY <1>6, <4>1, <4>2, <4>3
    <3> QED BY <3>1, <3>2
  <2> QED BY <2>2
<1>10. Follow(t)
  <2>1. ASSUME NEW k \in 1..(L + 1), NEW m \in 1..(L + 1), k < m PROVE t[k].end <= t[m].begin
    <3>1. k \in 1..L
      BY <2>1
    <3>2. CASE m = L + 1
      <4>1. PICK j \in 1..(i - 1) : s[k] = a[j]
        BY <1>4, <1>5, <3>1
      <4>2. j \in 1..Len(a) /\ j < i
        BY <1>2, SegmentsLength
      <4>3. a[j].end <= a[i].begin
        BY <4>2 DEF Shape, Ordered
      <4> QED BY <1>6, <3>1, <3>2, <4>1, <4>3
    <3>3. CASE m # L + 1
      <4>1. m \in 1..L
        BY <3>3
      <4> QED BY <1>4, <1>5, <1>6, <2>1, <3>1, <4>1, Zenon DEF Follow
    <3> QED BY <3>2, <3>3
  <2> QED BY <1>6, <2>1 DEF Follow
<1>11. Dues(t, rows, waits, at_line, lap)
  <2>1. ASSUME NEW k \in 1..(L + 1), NEW row \in 1..Len(rows), InSegment(t, k, row), RunsOn(t[k].when, lap)
        PROVE  Begins(t, rows, k, row, lap) = SumOver(waits, 1, at_line[row] - 1)
    <3>1. CASE k = L + 1
      <4>1. t[k] = a[i] /\ k - 1 = L
        BY <1>6, <3>1
      <4>2. InSegment(a, i, row) /\ RunsOn(a[i].when, lap)
        BY <2>1, <4>1, Zenon DEF InSegment
      <4>3. Begins(a, rows, i, row, lap) = SumOver(waits, 1, at_line[row] - 1)
        BY <1>2, <4>2, Zenon DEF Dues
      <4>4. Total(t, lap, k - 1) = Total(a, lap, i - 1)
        <5>1. L \in 0..L
          OBVIOUS
        <5> QED BY <1>4, <1>5, <1>6, <4>1, <5>1, Zenon
      <4> QED BY <4>1, <4>3, <4>4, Zenon DEF Begins, Total
    <3>2. CASE k # L + 1
      <4>1. k \in 1..L /\ k - 1 \in 0..L
        BY <3>2
      <4>2. t[k] = s[k] /\ Total(t, lap, k - 1) = Total(s, lap, k - 1)
        BY <1>6, <4>1, Zenon
      <4>3. InSegment(s, k, row) /\ RunsOn(s[k].when, lap)
        BY <2>1, <4>2, Zenon DEF InSegment
      <4>4. Begins(s, rows, k, row, lap) = SumOver(waits, 1, at_line[row] - 1)
        BY <1>4, <1>5, <4>1, <4>3, Zenon DEF Dues
      <4> QED BY <4>2, <4>4, Zenon DEF Begins, Total
    <3> QED BY <3>1, <3>2
  <2> QED BY <1>6, <2>1 DEF Dues
<1> QED BY <1>1, <1>6, <1>7, <1>8, <1>9, <1>10, <1>11, Zenon DEF KeptSoFar

LEMMA OneIsDropped ==
  ASSUME NEW a, NEW rows, NEW waits, NEW n, NEW at_line, Shape(a, rows, waits, n, at_line),
         NEW lap, Times(a, rows, waits, n, at_line, lap), NEW i \in 1..Len(a), a[i].duration = 0,
         NEW s, KeptSoFar(a, rows, waits, at_line, lap, s, i - 1)
  PROVE  KeptSoFar(a, rows, waits, at_line, lap, s, i)
<1>1. IsSegments(a) /\ TimesTyped(a)
  BY Zenon DEF Shape, Times
<1>2. PICK T \in Nat : T = Total(a, lap, i - 1)
  BY <1>1, TotalStep, Zenon
<1>3. Total(a, lap, i) = T
  <2>1. Total(a, lap, i) = T + (IF Passes(a[i].when, lap) THEN a[i].duration ELSE 0)
    BY <1>1, <1>2, TotalStep, Zenon
  <2>2. Total(a, lap, i) = T + 0
    BY <2>1, Zenon
  <2> QED BY <2>2
<1>4. \A j \in 1..(i - 1) : j \in 1..i
  BY <1>1, SegmentsLength
<1> QED BY <1>2, <1>3, <1>4, Zenon DEF KeptSoFar

LEMMA NothingKept ==
  ASSUME NEW a, NEW rows, NEW waits, NEW n, NEW at_line, Shape(a, rows, waits, n, at_line), NEW lap,
         TimesTyped(a)
  PROVE  KeptSoFar(a, rows, waits, at_line, lap, <<>>, 0)
<1>1. PICK s : s = <<>>
  OBVIOUS
<1>2. Len(s) = 0 /\ DOMAIN s = {} /\ 1..Len(s) = {}
  BY <1>1
<1>3. IsSegments(s)
  <2>1. 0 \in Nat /\ s = [i \in 1..0 |-> s[i]]
    BY <1>1
  <2> QED BY <1>2, <2>1, Zenon DEF IsSegments
<1>4. Total(s, lap, 0) = 0 /\ Total(a, lap, 0) = 0
  <2>1. 1 \in Nat \ {0} /\ 0 \in Nat /\ 0 < 1
    OBVIOUS
  <2> QED BY <2>1, SumNone, Zenon DEF Total
<1>5. TimesTyped(s) /\ Full(s, rows) /\ Dues(s, rows, waits, at_line, lap) /\ Follow(s)
  BY <1>2, Zenon DEF TimesTyped, Full, Dues, Follow
<1> QED BY <1>1, <1>2, <1>3, <1>4, <1>5, Zenon DEF KeptSoFar

\* The segments without the empty ones take as long, and their rows are due when they were.
LEMMA KeptTakeAsLong ==
  ASSUME NEW a, NEW rows, NEW waits, NEW n, NEW at_line, Shape(a, rows, waits, n, at_line),
         NEW lap, Times(a, rows, waits, n, at_line, lap)
  PROVE  KeptSoFar(a, rows, waits, at_line, lap, NotEmpty(a), Len(a))
<1>1. IsSegments(a) /\ TimesTyped(a)
  BY Zenon DEF Shape, Times
<1>2. PICK L \in Nat : L = Len(a)
  BY <1>1, SegmentsLength
<1>3. PICK w : KeptOneByOne(a, w, L)
  <2>1. \E w \in [0..Len(a) -> Seq({a[i] : i \in 1..Len(a)})] : KeptOneByOne(a, w, Len(a))
    BY <1>1, KeptSteps, Zenon
  <2> QED BY <1>2, <2>1, Zenon
<1> DEFINE T == {i \in 0..L : KeptSoFar(a, rows, waits, at_line, lap, w[i], i)}
<1>4. 0 \in T
  <2>1. 0 \in 0..L
    OBVIOUS
  <2> QED BY <1>1, <1>3, <2>1, NothingKept, Zenon DEF KeptOneByOne
<1>5. ASSUME NEW i \in 1..L, i - 1 \in T PROVE i \in T
  <2>1. KeptSoFar(a, rows, waits, at_line, lap, w[i - 1], i - 1)
    BY <1>5, Zenon
  <2>2. w[i] = KeptWith(a, w[i - 1], i)
    BY <1>3, Zenon DEF KeptOneByOne
  <2>3. PICK s : s = w[i - 1]
    OBVIOUS
  <2>4. i \in 0..L /\ i \in 1..Len(a)
    BY <1>2
  <2>5. CASE HasRows(a[i]) \/ a[i].duration # 0
    <3>1. w[i] = Append(s, a[i])
      BY <2>2, <2>3, <2>5, Zenon DEF KeptWith
    <3>2. KeptSoFar(a, rows, waits, at_line, lap, Append(s, a[i]), i)
      BY <2>1, <2>3, <2>4, OneIsKept, Zenon
    <3> QED BY <2>4, <3>1, <3>2, Zenon
  <2>6. CASE ~(HasRows(a[i]) \/ a[i].duration # 0)
    <3>1. w[i] = s /\ a[i].duration = 0
      BY <2>2, <2>3, <2>6, Zenon DEF KeptWith
    <3>2. KeptSoFar(a, rows, waits, at_line, lap, s, i)
      BY <2>1, <2>3, <2>4, <3>1, OneIsDropped, Zenon
    <3> QED BY <2>4, <3>1, <3>2, Zenon
  <2> QED BY <2>5, <2>6
<1>6. L \in T
  <2> HIDE DEF T
  <2>1. 0..L \subseteq T
    BY <1>4, <1>5, StepByStep
  <2> QED BY <2>1
<1> QED BY <1>2, <1>3, <1>6, Zenon DEF KeptOneByOne

-----------------------------------------------------------------------------
(* What is known of a script                                               *)

\* Segments are stretches of the table of rows.
Bounded(segments, rows) ==
  \A k \in 1..Len(segments) :
    /\ segments[k].begin \in Nat \ {0} /\ segments[k].end \in Nat
    /\ segments[k].begin <= segments[k].end /\ segments[k].end <= Len(rows) + 1

\* A script as a lap needs it: its segments follow each other, and its rows start when the lines
\* above them have passed.
Playable(segments, rows, lap) ==
  /\ IsSegments(segments) /\ rows \in Seq(RowType) /\ Follow(segments) /\ Bounded(segments, rows)
  /\ Times(segments, rows, WaitsOn(lap), Number - 1, RowLines, lap)

\* Each row is in a segment for the laps it is written for.
RowsPlaced(segments, rows) ==
  \A row \in 1..Len(rows) :
    \E i \in 1..Len(segments) :
      InSegment(segments, i, row) /\ segments[i].when = WhenOf(LineOf(row))

\* What is known of a script that load() has taken.
ScriptInv ==
  /\ lines \in Seq(AllLines) /\ DataFits /\ EveryRow /\ reader.rows # <<>>
  /\ \A row \in 1..Len(reader.rows) : LineOf(row) \in 1..(Number - 1)
  /\ RowsPlaced(reader.segments, reader.rows)
  /\ \A lap \in Nat : Playable(reader.segments, reader.rows, lap)

\* The invariant: FormatInv, the times of what was read so far, and what is known of the script.
TimedInv ==
  /\ FormatInv
  /\ ~reader.done /\ reader.errors = <<>> => (\A lap \in Nat : ReadTimes(lap)) /\ EveryRow
  /\ Accepted => ScriptInv

LEMMA KeptIsPlayable ==
  ASSUME NEW lap, Shape(reader.segments, reader.rows, WaitsOn(lap), Number - 1, RowLines),
         ReadTimes(lap)
  PROVE  Playable(NotEmpty(reader.segments), reader.rows, lap)
<1> DEFINE a == reader.segments
           s == NotEmpty(reader.segments)
           rows == reader.rows
<1>1. KeptSoFar(a, rows, WaitsOn(lap), RowLines, lap, s, Len(a))
  BY KeptTakeAsLong, Zenon DEF ReadTimes
<1>2. Totals(a, WaitsOn(lap), Number - 1, lap) /\ rows \in Seq(RowType)
  BY Zenon DEF ReadTimes, Times, Shape
<1> HIDE DEF a, s, rows
<1>3. Times(s, rows, WaitsOn(lap), Number - 1, RowLines, lap)
  BY <1>1, <1>2, Zenon DEF KeptSoFar, Times, Totals, Total
<1>4. Bounded(s, rows)
  <2>1. ASSUME NEW k \in 1..Len(s)
        PROVE  /\ s[k].begin \in Nat \ {0} /\ s[k].end \in Nat
               /\ s[k].begin <= s[k].end /\ s[k].end <= Len(rows) + 1
    <3>1. PICK j \in 1..Len(a) : s[k] = a[j]
      BY <1>1, Zenon DEF KeptSoFar
    <3> QED BY <3>1, LastSegmentIs, Zenon DEF a, rows
  <2> QED BY <2>1, Zenon DEF Bounded
<1> QED BY <1>1, <1>2, <1>3, <1>4, Zenon DEF KeptSoFar, Playable, s, rows

LEMMA WaitsStay ==
  ASSUME lines' = lines, NEW lap
  PROVE  WaitsOn(lap)' = WaitsOn(lap)
<1>1. \A i : WhenOf(i)' = WhenOf(i)
  BY SameFile
<1>2. \A kinds : Kinds(kinds)' = Kinds(kinds)
  BY Zenon DEF Kinds
<1> QED BY <1>1, <1>2, Zenon DEF WaitsOn

LEMMA BlankTakesNone ==
  ASSUME lines = <<>>, reader = Blank, NEW lap
  PROVE  ReadTimes(lap) /\ EveryRow
<1> DEFINE first == Fresh(Always, 1)
<1>1. first.begin = 1 /\ first.end = 1 /\ first.lead = 0 /\ first.duration = 0 /\ IsSegment(first)
  <2>1. first.begin = 1 /\ first.end = 1 /\ first.lead = 0 /\ first.duration = 0
    BY DEF Fresh
  <2> QED BY <2>1, AlwaysIsSelector, FreshIsSegment, Zenon
<1>2. PICK a : a = <<first>>
  OBVIOUS
<1>3. reader.segments = a /\ reader.rows = <<>> /\ Number = 1
  BY <1>2 DEF Blank, Number
<1> HIDE DEF first
<1>4. Len(a) = 1 /\ a[1] = first /\ \A i \in 1..Len(a) : i = 1
  BY <1>2
<1>5. IsSegments(a)
  <2>1. IsSegments(<<first>>)
    <3>1. IsSegments(reader.segments)
      BY BlankIsReader, Zenon DEF IsReader
    <3> QED BY <1>2, <1>3, <3>1, Zenon
  <2> QED BY <1>2, <2>1, Zenon
<1>6. TimesTyped(a)
  <2>1. 0 \in Nat
    OBVIOUS
  <2> QED BY <1>1, <1>4, <2>1, Zenon DEF TimesTyped
<1>7. PICK rows : rows = <<>> /\ Len(rows) = 0 /\ 1..Len(rows) = {}
  OBVIOUS
<1>8. Full(a, rows)
  <2>1. ASSUME NEW i \in 1..Len(a)
        PROVE  a[i].duration = a[i].lead + SumOver(RowWaits(rows), a[i].begin, a[i].end - 1)
    <3>1. 1 \in Nat \ {0} /\ 0 \in Nat /\ 0 < 1 /\ 1 - 1 = 0 /\ 0 = 0 + 0
      OBVIOUS
    <3>2. SumOver(RowWaits(rows), 1, 0) = 0
      BY <3>1, SumNone, Zenon
    <3> QED BY <1>1, <1>4, <3>1, <3>2, Zenon
  <2> QED BY <2>1, Zenon DEF Full
<1>9. Totals(a, WaitsOn(lap), 0, lap)
  <2>1. 1 \in Nat \ {0} /\ 0 \in Nat /\ 0 < 1 /\ 1 \in 1..1
    OBVIOUS
  <2>2. SumOver(WaitsOn(lap), 1, 0) = 0
    BY <2>1, SumNone, Zenon
  <2>3. 1 \in 1..Len(a)
    BY <1>4
  <2>4. Total(a, lap, 1) = Total(a, lap, 1 - 1) + (IF Passes(a[1].when, lap) THEN a[1].duration ELSE 0)
    BY <1>5, <1>6, <2>3, TotalStep, Zenon
  <2>5. Total(a, lap, 1 - 1) = 0
    <3>1. 1 - 1 = 0
      OBVIOUS
    <3>2. Total(a, lap, 0) = 0
      BY <2>1, SumNone, Zenon DEF Total
    <3> QED BY <3>1, <3>2, Zenon
  <2>6. Total(a, lap, 1) = 0 + 0
    BY <1>1, <1>4, <2>4, <2>5, Zenon
  <2>7. 0 + 0 = 0
    OBVIOUS
  <2> QED BY <1>4, <2>2, <2>6, <2>7, Zenon DEF Totals, Total
<1>10. Dues(a, rows, WaitsOn(lap), RowLines, lap)
  BY <1>7, Zenon DEF Dues
<1>11. Number - 1 = 0
  BY <1>3
<1>12. Times(a, rows, WaitsOn(lap), Number - 1, RowLines, lap)
  BY <1>6, <1>8, <1>9, <1>10, <1>11, Zenon DEF Times
<1>13. DOMAIN lines = {}
  OBVIOUS
<1>14. EveryRow
  BY <1>13, Zenon DEF EveryRow, Kinds
<1> QED BY <1>3, <1>7, <1>12, <1>14, Zenon DEF ReadTimes

LEMMA TimedInit == Init => TimedInv
<1> SUFFICES ASSUME Init PROVE TimedInv
  OBVIOUS
<1>1. lines = <<>> /\ reader = Blank
  BY Zenon DEF Init, ReaderInit
<1>2. \A lap \in Nat : ReadTimes(lap) /\ EveryRow
  BY <1>1, BlankTakesNone, Zenon
<1>3. EveryRow
  <2>1. 0 \in Nat
    OBVIOUS
  <2> QED BY <1>2, <2>1, Zenon
<1>4. ~reader.done
  BY <1>1 DEF Blank
<1> QED BY <1>2, <1>3, <1>4, FormatInit, Zenon DEF TimedInv, Accepted

LEMMA TimedRead ==
  ASSUME TimedInv, NEW line \in Alphabets[alphabet], Read(line)
  PROVE  TimedInv'
<1>1. FormatInv /\ FormatInv'
  BY FormatRead, Zenon DEF TimedInv
<1>2. /\ ~reader.done /\ alphabet \in DOMAIN Alphabets
      /\ lines \in Seq(AllLines) /\ lines' = Append(lines, line)
      /\ reader' = ReadLine(reader, line, Len(lines')) /\ Numbered(reader) /\ Numbered(reader')
  BY <1>1, Zenon DEF Read, FormatInv
<1>3. line \in AllLines /\ IsLine(line) /\ Grows(line)
  <2>1. line \in AllLines
    BY <1>2, Zenon DEF AllLines
  <2> QED BY <1>2, <2>1, LinesAreLines, Zenon DEF Grows
<1>4. Len(lines') \in Nat
  BY <1>2, <1>3
<1>5. Judged(reader, line, reader')
  BY <1>2, <1>3, <1>4, LineJudged, Zenon
<1>6. CASE reader'.errors = <<>>
  <2>1. reader.errors = <<>> /\ Accepts(reader, line) /\ Notes(reader, reader', line)
    BY <1>5, <1>6, Zenon DEF Judged
  <2>2. ~reader'.done
    BY <1>2, <2>1, Zenon DEF Notes
  <2>3. /\ Prefix /\ Remembers /\ Written /\ Divided /\ Written'
        /\ (\A lap \in Nat : ReadTimes(lap)) /\ EveryRow
    BY <1>1, <1>2, <1>6, <2>1, <2>2, Zenon DEF FormatInv, TimedInv
  <2>4. Fits(line)
    BY <1>2, <1>3, <2>1, <2>3, ReaderJudgesAlike, Zenon
  <2>5. Lays(reader, reader', line) /\ TimesPut(reader, reader', line)
    <3>1. reader.rows \in Seq(RowType)
      BY <2>3, Zenon DEF Written
    <3>2. Lays(reader, reader', line)
      BY <1>2, <1>3, <1>4, <2>1, <3>1, LineLaid, Zenon
    <3>3. TimesPut(reader, reader', line)
      BY <1>2, <1>3, <1>4, <2>1, <3>1, LineTimed, Zenon
    <3> QED BY <3>2, <3>3
  <2>6. ASSUME NEW lap \in Nat PROVE ReadTimes(lap)'
    <3>1. ReadTimes(lap)
      BY <2>3, Zenon
    <3> QED BY <1>2, <1>3, <2>1, <2>3, <2>4, <2>5, <3>1, TimesRead, Zenon
  <2>7. EveryRow'
    BY <1>3, <2>1, <2>3, <2>5, EveryRowGrows, Zenon
  <2>8. \A lap \in Nat : ReadTimes(lap)'
    BY <2>6, Zenon
  <2> QED BY <1>1, <2>2, <2>7, <2>8, Zenon DEF TimedInv, Accepted
<1>7. CASE reader'.errors # <<>>
  BY <1>1, <1>7, Zenon DEF TimedInv, Accepted
<1> QED BY <1>6, <1>7

LEMMA TimedEnds == ASSUME TimedInv, EndOfFile PROVE TimedInv'
<1>1. FormatInv /\ FormatInv'
  BY FormatEnds, Zenon DEF TimedInv
<1>2. /\ ~reader.done /\ lines' = lines /\ lines \in Seq(AllLines)
      /\ reader' = Finish(reader, Len(lines)) /\ Numbered(reader)
  BY <1>1, Zenon DEF EndOfFile, FormatInv
<1>3. Ended(reader, reader') /\ reader'.done
  <2>1. Len(lines) \in Nat
    BY <1>2
  <2> QED BY <1>2, <2>1, FileJudged, FileIsDone, Zenon
<1>4. CASE reader'.errors # <<>>
  BY <1>1, <1>3, <1>4, Zenon DEF TimedInv, Accepted
<1>5. CASE reader'.errors = <<>>
  <2>1. reader.errors = <<>>
    BY <1>3, <1>5, Zenon DEF Ended
  <2>2. /\ Prefix /\ Remembers /\ Written /\ Divided
        /\ (\A lap \in Nat : ReadTimes(lap)) /\ EveryRow
    BY <1>1, <1>2, <2>1, Zenon DEF FormatInv, TimedInv
  <2>3. /\ reader'.rows = reader.rows /\ reader'.segments = NotEmpty(reader.segments)
        /\ reader.rows # <<>>
    BY <1>3, <1>5, <2>1, <2>2, Zenon DEF Ended, Remembers
  <2>4. /\ RowLines' = RowLines /\ \A i : WhenOf(i)' = WhenOf(i)
    BY <1>2, SameFile, Zenon
  <2>5. Number' = Number
    BY <1>2, Zenon DEF Number
  <2>6. \A kinds : Kinds(kinds)' = Kinds(kinds)
    BY <1>2, Zenon DEF Kinds
  <2>7. (lines \in Seq(AllLines))' /\ DataFits' /\ EveryRow'
    <3>1. DataFits
      BY <2>2, Zenon DEF Prefix
    <3>2. DataFits'
      BY <1>2, <2>6, <3>1, Zenon DEF DataFits
    <3>3. EveryRow'
      BY <2>2, <2>3, <2>4, <2>6, Zenon DEF EveryRow
    <3>4. (lines \in Seq(AllLines))'
      BY <1>2, Zenon DEF AllLines
    <3> QED BY <3>2, <3>3, <3>4
  <2>8. ASSUME NEW lap \in Nat PROVE Playable(reader.segments, reader.rows, lap)'
    <3>1. ReadTimes(lap)
      BY <2>2, Zenon
    <3>2. Shape(reader.segments, reader.rows, WaitsOn(lap), Number - 1, RowLines)
      BY <1>2, <2>2, ReaderShape, Zenon
    <3>3. Playable(NotEmpty(reader.segments), reader.rows, lap)
      BY <3>1, <3>2, KeptIsPlayable, Zenon
    <3>4. WaitsOn(lap)' = WaitsOn(lap) /\ (Number - 1)' = Number - 1 /\ RowType' = RowType
      BY <1>2, <2>5, WaitsStay, Zenon DEF RowType, AllLines
    <3> QED BY <2>3, <2>4, <3>3, <3>4, Zenon DEF Playable
  <2>9. \A row \in 1..Len(reader.rows) : LineOf(row) \in 1..(Number - 1)
    <3>1. 0 \in Nat
      OBVIOUS
    <3>2. Shape(reader.segments, reader.rows, WaitsOn(0), Number - 1, RowLines)
      BY <1>2, <2>2, ReaderShape, Zenon
    <3> QED BY <3>2, Zenon DEF Shape, LineOf
  <2>10. \A row \in 1..Len(reader'.rows) : LineOf(row)' \in 1..(Number - 1)'
    BY <2>3, <2>4, <2>5, <2>9, Zenon DEF LineOf
  <2>11. RowsPlaced(reader.segments, reader.rows)'
    <3>1. RowsRunWhereWritten' /\ Accepted'
      BY <1>1, <1>3, <1>5, Zenon DEF FormatInv, Accepted
    <3>2. IsSegments(reader'.segments) /\ reader'.rows \in Seq(RowType)
      <4>1. Playable(reader.segments, reader.rows, 0)'
        BY <2>8
      <4>2. RowType' = RowType
        BY <1>2, Zenon DEF RowType, AllLines
      <4> QED BY <4>1, <4>2, Zenon DEF Playable
    <3>3. DOMAIN reader'.segments = 1..Len(reader'.segments) /\ DOMAIN reader'.rows = 1..Len(reader'.rows)
      BY <3>2, SegmentsLength, RowWaitsType, Zenon
    <3>4. Bounded(reader'.segments, reader'.rows)
      <4>1. Playable(reader.segments, reader.rows, 0)'
        BY <2>8
      <4> QED BY <4>1, Zenon DEF Playable
    <3>5. ASSUME NEW row \in 1..Len(reader'.rows)
          PROVE  \E i \in 1..Len(reader'.segments) :
                   InSegment(reader'.segments, i, row) /\ reader'.segments[i].when = WhenOf(LineOf(row))'
      <4>1. PICK s \in Range(reader'.segments) : row \in s.begin..(s.end - 1) /\ s.when = WhenOf(LineOf(row))'
        BY <3>1, <3>3, Zenon DEF RowsRunWhereWritten
      <4>2. PICK i \in 1..Len(reader'.segments) : s = reader'.segments[i]
        BY <3>3, Zenon DEF Range
      <4>3. s.begin \in Nat /\ s.end \in Nat
        BY <3>4, <4>2 DEF Bounded
      <4>4. s.begin <= row /\ row < s.end
        BY <4>1, <4>3
      <4> QED BY <4>1, <4>2, <4>4, Zenon DEF InSegment
    <3> QED BY <3>5, Zenon DEF RowsPlaced
  <2>12. ScriptInv'
    BY <2>3, <2>7, <2>8, <2>10, <2>11, Zenon DEF ScriptInv
  <2> QED BY <1>1, <1>3, <2>12, Zenon DEF TimedInv
<1> QED BY <1>4, <1>5

LEMMA TimedStays == ASSUME TimedInv, UNCHANGED readerVars PROVE TimedInv'
<1>1. FormatInv'
  BY FormatStays, Zenon DEF TimedInv
<1>2. alphabet' = alphabet /\ lines' = lines /\ reader' = reader
  BY DEF readerVars
<1>3. RowLines' = RowLines /\ \A i : WhenOf(i)' = WhenOf(i)
  BY <1>2, SameFile, Zenon
<1>4. \A kinds : Kinds(kinds)' = Kinds(kinds)
  BY <1>2, Zenon DEF Kinds
<1>5. (Number - 1)' = Number - 1 /\ RowType' = RowType /\ AllLines' = AllLines
  BY <1>2, Zenon DEF Number, RowType, AllLines
<1>6. \A lap \in Nat : WaitsOn(lap)' = WaitsOn(lap)
  BY <1>2, WaitsStay, Zenon
<1>7. EveryRow' <=> EveryRow
  BY <1>2, <1>3, <1>4, Zenon DEF EveryRow
<1>8. \A lap \in Nat : ReadTimes(lap)' <=> ReadTimes(lap)
  BY <1>2, <1>3, <1>5, <1>6, Zenon DEF ReadTimes
<1>9. ASSUME ScriptInv PROVE ScriptInv'
  <2>1. \A lap \in Nat : Playable(reader.segments, reader.rows, lap)'
    BY <1>2, <1>3, <1>5, <1>6, <1>9, Zenon DEF ScriptInv, Playable
  <2>2. RowsPlaced(reader.segments, reader.rows)'
    BY <1>2, <1>3, <1>9, Zenon DEF ScriptInv, RowsPlaced, LineOf
  <2>3. DataFits'
    BY <1>2, <1>4, <1>9, Zenon DEF ScriptInv, DataFits
  <2>4. \A row \in 1..Len(reader'.rows) : LineOf(row)' \in 1..(Number - 1)'
    BY <1>2, <1>3, <1>5, <1>9, Zenon DEF ScriptInv, LineOf
  <2> QED BY <1>2, <1>5, <1>7, <1>9, <2>1, <2>2, <2>3, <2>4, Zenon DEF ScriptInv
<1>10. Accepted' <=> Accepted
  BY <1>2, Zenon DEF Accepted
<1> QED BY <1>1, <1>2, <1>7, <1>8, <1>9, <1>10, Zenon DEF TimedInv

LEMMA TimedStep == TimedInv /\ [Next]_vars => TimedInv'
<1> SUFFICES ASSUME TimedInv, [Next]_vars PROVE TimedInv'
  OBVIOUS
<1>1. CASE EndOfFile
  BY <1>1, TimedEnds, Zenon
<1>2. ASSUME NEW line \in Alphabets[alphabet], Read(line) PROVE TimedInv'
  BY <1>2, TimedRead, Zenon
<1>3. CASE UNCHANGED readerVars
  BY <1>3, TimedStays, Zenon
<1>4. UNCHANGED vars => UNCHANGED readerVars
  BY DEF vars
<1> QED BY <1>1, <1>2, <1>3, <1>4, Zenon DEF Next, ReaderNext
===============================================================================
