--------------------------- MODULE Gateway_proofs ----------------------------
(* Theorems about Gateway and the modules it is composed of, for every     *)
(* number of users, keys, limiter keys and request goroutines.             *)
EXTENDS Gateway, SumTheorems

-----------------------------------------------------------------------------
(* The limiter by itself.                                                  *)

LimiterInv == LimiterTypeOK /\ LimitPerWindow

LEMMA LimiterInitInv == LimiterInit => LimiterInv
BY LimiterAssumption DEF LimiterInit, LimiterInv, LimiterTypeOK, LimitPerWindow, NoCounter

\* One run of the script keeps a counter a counter, and brings it to its
\* limit or beyond by one.
LEMMA ScriptTyped ==
    ASSUME LimiterTypeOK, NEW i \in Ids
    PROVE  /\ Script(counter[i], i) \in [count : Nat, left : 0 .. Window]
           /\ Script(counter[i], i).count <= Limit[i] + 1
           /\ Script(counter[i], i).count > 0
           /\ Script(counter[i], i).left > 0
           /\ Script(counter[i], i).count >= counter[i].count
           /\ Script(counter[i], i).count <= Limit[i]
                 => Script(counter[i], i).count = counter[i].count + 1
<1>1. /\ counter[i] \in [count : Nat, left : 0 .. Window]
      /\ counter[i].count <= Limit[i] + 1
      /\ counter[i].count > 0 <=> counter[i].left > 0
  BY DEF LimiterTypeOK
<1>2. Limit[i] \in Nat /\ Window \in Nat /\ Window > 0
  BY LimiterAssumption
<1> QED BY <1>1, <1>2 DEF Script, Incremented

LEMMA LimiterStep ==
    ASSUME LimiterInv, [LimiterNext]_limiterVars
    PROVE  LimiterInv'
<1> USE DEF LimiterInv
<1>1. Limit \in [Ids -> Nat] /\ Window \in Nat /\ Window > 0
  BY LimiterAssumption
<1>2. ASSUME NEW i \in Ids, Count(i) PROVE
        /\ counter' \in [Ids -> [count : Nat, left : 0 .. Window]]
        /\ \A j \in Ids : /\ counter'[j].count <= Limit[j] + 1
                          /\ counter'[j].count > 0 <=> counter'[j].left > 0
                          /\ counter'[j].count >= counter[j].count
        /\ Allowed(i) => counter'[i].count = counter[i].count + 1
  BY <1>2, ScriptTyped DEF Count, LimiterTypeOK, Allowed
<1>3. CASE UNCHANGED limiterVars
  BY <1>3 DEF limiterVars, LimiterTypeOK, LimitPerWindow
<1>4. ASSUME NEW i \in Ids, Pass(i) PROVE LimiterInv'
  <2>1. Count(i) /\ Allowed(i)
    BY <1>4 DEF Pass
  <2>2. passed' \in [Ids -> Nat] /\ recent' \in [Ids -> [1 .. Window -> Nat]]
    <3>1. [recent[i] EXCEPT ![1] = @ + 1] \in [1 .. Window -> Nat]
      BY <1>1 DEF LimiterTypeOK
    <3> QED BY <1>4, <3>1 DEF Pass, LimiterTypeOK
  <2>3. LimiterTypeOK'
    BY <1>2, <2>1, <2>2 DEF LimiterTypeOK
  <2>4. ASSUME NEW j \in Ids PROVE passed'[j] <= counter'[j].count /\ passed'[j] <= Limit[j]
    <3>1. passed[j] \in Nat /\ counter[j].count \in Nat /\ counter'[j].count \in Nat
      BY <2>3 DEF LimiterTypeOK
    <3>2. CASE j = i
      BY <1>1, <1>2, <1>4, <2>1, <3>1, <3>2 DEF Pass, LimiterTypeOK, LimitPerWindow, Allowed
    <3>3. CASE j # i
      BY <1>1, <1>2, <1>4, <2>1, <3>1, <3>3 DEF Pass, LimiterTypeOK, LimitPerWindow
    <3> QED BY <3>2, <3>3
  <2> QED BY <2>3, <2>4 DEF LimitPerWindow
<1>5. ASSUME NEW i \in Ids, Count(i) \/ UNCHANGED counter, UNCHANGED <<passed, recent>>
      PROVE  LimiterInv'
  <2>1. LimiterTypeOK'
    BY <1>2, <1>5 DEF LimiterTypeOK
  <2>2. \A j \in Ids : counter'[j].count >= counter[j].count
    BY <1>2, <1>5 DEF LimiterTypeOK
  <2>3. \A j \in Ids : passed[j] \in Nat /\ counter[j].count \in Nat /\ counter'[j].count \in Nat
    BY <2>1 DEF LimiterTypeOK
  <2> QED BY <1>1, <1>5, <2>1, <2>2, <2>3 DEF LimitPerWindow
<1>6. CASE LimiterTick
  <2>1. ASSUME NEW j \in Ids PROVE
          /\ Aged(counter[j]) \in [count : Nat, left : 0 .. Window]
          /\ Aged(counter[j]).count <= Limit[j] + 1
          /\ Aged(counter[j]).count > 0 <=> Aged(counter[j]).left > 0
          /\ Aged(counter[j]).count = 0 \/ Aged(counter[j]).count = counter[j].count
    <3>1. /\ counter[j] \in [count : Nat, left : 0 .. Window]
          /\ counter[j].count <= Limit[j] + 1
          /\ counter[j].count > 0 <=> counter[j].left > 0
      BY DEF LimiterTypeOK
    <3> QED BY <1>1, <3>1 DEF Aged, NoCounter
  <2>2. counter' = [j \in Ids |-> Aged(counter[j])]
    BY <1>6 DEF LimiterTick
  <2>3. passed' \in [Ids -> Nat] /\ \A j \in Ids : passed'[j] = 0 \/ passed'[j] = passed[j]
    BY <1>6 DEF LimiterTick, LimiterTypeOK
  <2>4. recent' \in [Ids -> [1 .. Window -> Nat]]
    <3>1. ASSUME NEW j \in Ids
          PROVE  [t \in 1 .. Window |-> IF t = 1 THEN 0 ELSE recent[j][t - 1]] \in [1 .. Window -> Nat]
      BY <1>1 DEF LimiterTypeOK
    <3> QED BY <1>6, <3>1 DEF LimiterTick
  <2>5. LimiterTypeOK'
    BY <2>1, <2>2, <2>3, <2>4 DEF LimiterTypeOK
  <2>6. ASSUME NEW j \in Ids PROVE passed'[j] <= counter'[j].count /\ passed'[j] <= Limit[j]
    <3>1. passed'[j] = IF counter'[j].count = 0 THEN 0 ELSE passed[j]
      BY <1>6 DEF LimiterTick
    <3> QED BY <1>1, <2>1, <2>2, <3>1 DEF LimitPerWindow, LimiterTypeOK
  <2> QED BY <2>5, <2>6 DEF LimitPerWindow
<1> QED BY <1>3, <1>4, <1>5, <1>6 DEF LimiterNext, Refuse, FailOpen

-----------------------------------------------------------------------------
(* Two windows.  The events of the last Window ticks are those of a        *)
(* counter's own life and those before it; while there is no counter, they *)
(* all belong to one that has expired.                                     *)

\* The ticks of a live counter's life among the last Window ones, the present
\* one first, and the ticks before it.
Life(c)   == 1 .. Window - c.left + 1
Before(c) == Window - c.left + 2 .. Window

\* A counter c that has let p events pass, and the history h of its key.
TwoWindows(c, p, h, limit) ==
    IF c.count > 0
    THEN SumFunctionOnSet(h, Life(c)) <= p /\ SumFunctionOnSet(h, Before(c)) <= limit
    ELSE h[1] = 0 /\ SumFunctionOnSet(h, 1 .. Window) <= limit

WindowInv ==
    /\ LimiterInv
    /\ \A i \in Ids : TwoWindows(counter[i], passed[i], recent[i], Limit[i])

\* Part of the history sums to a number.
LEMMA PartType ==
    ASSUME NEW h \in [1 .. Window -> Nat], NEW a \in Nat \ {0}, NEW b \in Int, b <= Window
    PROVE  /\ IsFiniteSet(a .. b) /\ \A t \in a .. b : t \in 1 .. Window /\ h[t] \in Nat
           /\ SumFunctionOnSet(h, a .. b) \in Nat
<1> DEFINE S == a .. b
<1>1. IsFiniteSet(S)
  BY FS_Interval
<1>2. \A t \in S : t \in 1 .. Window /\ h[t] \in Nat
  BY LimiterAssumption
<1> HIDE DEF S
<1>3. SumFunctionOnSet(h, S) \in Nat
  BY <1>1, <1>2, SumType
<1> QED BY <1>1, <1>2, <1>3 DEF S

\* One event more in the present tick.
LEMMA OneMore ==
    ASSUME NEW h \in [1 .. Window -> Nat], NEW n \in 1 .. Window
    PROVE  /\ SumFunctionOnSet([h EXCEPT ![1] = @ + 1], 1 .. n) = SumFunctionOnSet(h, 1 .. n) + 1
           /\ SumFunctionOnSet([h EXCEPT ![1] = @ + 1], n + 1 .. Window)
                 = SumFunctionOnSet(h, n + 1 .. Window)
<1> DEFINE g == [h EXCEPT ![1] = @ + 1]
           L == 1 .. n
           R == 2 .. n
           B == n + 1 .. Window
<1>1. Window \in Nat /\ Window > 0 /\ n <= Window /\ n >= 1
  BY LimiterAssumption
<1>2. g \in [1 .. Window -> Nat] /\ g[1] = h[1] + 1 /\ \A t \in 1 .. Window : t # 1 => g[t] = h[t]
  BY <1>1
<1>3. IsFiniteSet(L) /\ IsFiniteSet(R) /\ IsFiniteSet(B)
  <2>1. \A a, b \in Int : IsFiniteSet(a .. b)
    BY FS_Interval
  <2> QED BY <1>1, <2>1
<1>4. 1 \in L /\ L \ {1} = R /\ L \subseteq 1 .. Window
  BY <1>1
<1>5. \A t \in R \cup B : t \in 1 .. Window /\ t # 1
  BY <1>1
<1> HIDE DEF g, L, R, B
<1>6. /\ \A t \in L : h[t] \in Nat /\ g[t] \in Nat
      /\ \A t \in R \cup B : h[t] \in Nat /\ g[t] = h[t]
  BY <1>2, <1>4, <1>5
<1>7. SumFunctionOnSet(g, L) = g[1] + SumFunctionOnSet(g, L \ {1})
  BY <1>3, <1>4, <1>6, SumRemove
<1>8. SumFunctionOnSet(h, L) = h[1] + SumFunctionOnSet(h, L \ {1})
  <2>1. IsFiniteSet(L) /\ 1 \in L
    BY <1>3, <1>4
  <2>2. \A t \in L : h[t] \in Nat
    BY <1>6
  <2> QED BY <2>1, <2>2, SumRemove
<1>9. SumFunctionOnSet(g, R) = SumFunctionOnSet(h, R) /\ SumFunctionOnSet(h, R) \in Nat
  BY <1>3, <1>6, SumEqual, SumType
<1>10. SumFunctionOnSet(g, B) = SumFunctionOnSet(h, B)
  BY <1>3, <1>6, SumEqual
<1>11. /\ SumFunctionOnSet(g, L \ {1}) = SumFunctionOnSet(g, R)
       /\ SumFunctionOnSet(h, L \ {1}) = SumFunctionOnSet(h, R)
  BY <1>4
<1>12. h[1] \in Nat
  BY <1>4, <1>6
<1>13. SumFunctionOnSet(g, L) = SumFunctionOnSet(h, L) + 1
  BY <1>2, <1>7, <1>8, <1>9, <1>11, <1>12
<1> QED BY <1>10, <1>13 DEF g, L, B

\* The history one tick later.
Shifted(h) == [t \in 1 .. Window |-> IF t = 1 THEN 0 ELSE h[t - 1]]

\* A tick moves the history on by one.
LEMMA OneTick ==
    ASSUME NEW h \in [1 .. Window -> Nat], NEW n \in 1 .. Window
    PROVE  /\ SumFunctionOnSet(Shifted(h), 1 .. n) = SumFunctionOnSet(h, 1 .. n - 1)
           /\ SumFunctionOnSet(Shifted(h), n + 1 .. Window) = SumFunctionOnSet(h, n .. Window - 1)
<1> DEFINE g == Shifted(h)
<1>1. Window \in Nat /\ Window > 0 /\ n <= Window /\ n >= 1
  BY LimiterAssumption
<1>2. /\ g \in [1 .. Window -> Nat] /\ g[1] = 0
      /\ \A t \in 1 .. Window - 1 : t + 1 \in 1 .. Window /\ (t + 1) - 1 = t /\ h[t] \in Nat
  BY <1>1 DEF Shifted
<1>3. \A t \in 1 .. Window - 1 : g[t + 1] = h[t]
  BY <1>1, <1>2 DEF Shifted
<1> HIDE DEF g
<1>0. \A a, b \in Int : IsFiniteSet(a .. b)
  BY FS_Interval
<1>4. ASSUME NEW a \in Nat \ {0}, NEW b \in Int, b <= Window - 1
      PROVE  SumFunctionOnSet(g, a + 1 .. b + 1) = SumFunctionOnSet(h, a .. b)
  <2> DEFINE S == a .. b
             T == a + 1 .. b + 1
             p == [t \in S |-> t + 1]
  <2>1. \A t \in S : t \in 1 .. Window - 1 /\ p[t] = t + 1
    BY <1>1, <1>4
  <2>2. IsFiniteSet(S) /\ IsFiniteSet(T)
    BY <1>0
  <2>3. p \in Bijection(S, T)
    <3>1. p \in [S -> T]
      OBVIOUS
    <3>2. \A t \in T : t - 1 \in S /\ p[t - 1] = t
      OBVIOUS
    <3>3. \A s, t \in S : p[s] = p[t] => s = t
      OBVIOUS
    <3> HIDE DEF p, S, T
    <3>4. IsInjective(p)
      BY <3>1, <3>3 DEF IsInjective
    <3>5. \A t \in T : \E s \in S : p[s] = t
      BY <3>2
    <3> QED BY <3>1, <3>4, <3>5 DEF Bijection, Injection, Surjection
  <2> HIDE DEF p, S, T
  <2> DEFINE k == h
  <2>4. \A t \in S : k[t] \in Nat /\ g[p[t]] = k[t]
    BY <1>2, <1>3, <2>1
  <2> HIDE DEF k
  <2>5. SumFunctionOnSet(g, T) = SumFunctionOnSet(k, S)
    BY <2>2, <2>3, <2>4, SumRenumbered
  <2> QED BY <2>5 DEF S, T, k
<1>5. SumFunctionOnSet(g, 2 .. n) = SumFunctionOnSet(h, 1 .. n - 1)
  <2>1. SumFunctionOnSet(g, 1 + 1 .. (n - 1) + 1) = SumFunctionOnSet(h, 1 .. n - 1)
    <3>1. 1 \in Nat \ {0} /\ n - 1 \in Int /\ n - 1 <= Window - 1
      BY <1>1
    <3> QED BY <1>4, <3>1
  <2>2. 1 + 1 .. (n - 1) + 1 = 2 .. n
    BY <1>1
  <2> QED BY <2>1, <2>2
<1>6. SumFunctionOnSet(g, n + 1 .. Window) = SumFunctionOnSet(h, n .. Window - 1)
  <2>1. SumFunctionOnSet(g, n + 1 .. (Window - 1) + 1) = SumFunctionOnSet(h, n .. Window - 1)
    <3>1. n \in Nat \ {0} /\ Window - 1 \in Int /\ Window - 1 <= Window - 1
      BY <1>1
    <3> QED BY <1>4, <3>1
  <2>2. n + 1 .. (Window - 1) + 1 = n + 1 .. Window
    BY <1>1
  <2> QED BY <2>1, <2>2
<1>7. SumFunctionOnSet(g, 1 .. n) = SumFunctionOnSet(g, 2 .. n)
  <2> DEFINE L == 1 .. n
             R == 2 .. n
  <2>1. IsFiniteSet(L) /\ IsFiniteSet(R)
    BY <1>0, <1>1
  <2>2. 1 \in L /\ L \ {1} = R /\ \A t \in L : t \in 1 .. Window
    BY <1>1
  <2> HIDE DEF L, R
  <2>3. \A t \in L : g[t] \in Nat
    BY <1>2, <2>2
  <2>4. SumFunctionOnSet(g, L) = g[1] + SumFunctionOnSet(g, L \ {1})
    BY <2>1, <2>2, <2>3, SumRemove
  <2>5. \A t \in R : g[t] \in Nat
    BY <2>2, <2>3
  <2>6. SumFunctionOnSet(g, R) \in Nat
    BY <2>1, <2>5, SumType
  <2>7. SumFunctionOnSet(g, L \ {1}) = SumFunctionOnSet(g, R)
    BY <2>2
  <2>8. SumFunctionOnSet(g, L) = SumFunctionOnSet(g, R)
    BY <1>2, <2>4, <2>6, <2>7
  <2> QED BY <2>8 DEF L, R
<1>8. SumFunctionOnSet(g, 1 .. n) = SumFunctionOnSet(h, 1 .. n - 1)
  BY <1>5, <1>7
<1> QED BY <1>6, <1>8 DEF g

\* More of the history sums to no less.
LEMMA PartGrows ==
    ASSUME NEW h \in [1 .. Window -> Nat], NEW a \in Nat \ {0}, NEW b \in Int,
           NEW c \in Nat \ {0}, NEW d \in Int, d <= Window, c <= a, b <= d
    PROVE  SumFunctionOnSet(h, a .. b) <= SumFunctionOnSet(h, c .. d)
<1> DEFINE S == a .. b
           T == c .. d
<1>1. IsFiniteSet(T) /\ \A t \in T : h[t] \in Nat
  BY PartType
<1>2. S \in SUBSET T /\ Window \in Nat
  BY LimiterAssumption
<1>3. \A t \in S : h[t] \in Nat /\ h[t] <= h[t]
  BY <1>1, <1>2
<1> HIDE DEF S, T
<1>4. SumFunctionOnSet(h, S) <= SumFunctionOnSet(h, T)
  BY <1>1, <1>2, <1>3, SumMonotonic
<1> QED BY <1>4 DEF S, T

\* A counter with a TTL, and one without that is none.
CounterType == {c \in [count : Nat, left : 0 .. Window] : c.count > 0 <=> c.left > 0}

\* Counting an event, which may begin a window, moves no event from one window
\* to the other.
LEMMA CountedWindows ==
    ASSUME NEW c \in CounterType, NEW d \in CounterType, d.count > 0,
           d.left = IF c.count = 0 THEN Window ELSE c.left,
           NEW p \in Nat, NEW h \in [1 .. Window -> Nat], NEW limit \in Nat,
           TwoWindows(c, p, h, limit)
    PROVE  TwoWindows(d, p, h, limit)
<1>1. Window \in Nat /\ Window > 0
  BY LimiterAssumption
<1>2. CASE c.count > 0
  BY <1>2 DEF TwoWindows, Life, Before, CounterType
<1>3. CASE c.count = 0
  <2>1. Life(d) = {1} /\ Before(d) = 2 .. Window
    BY <1>1, <1>3 DEF Life, Before
  <2>2. SumFunctionOnSet(h, {1}) = h[1] + SumFunctionOnSet(h, {1} \ {1})
    <3>1. IsFiniteSet({1}) /\ 1 \in {1}
      BY FS_Singleton
    <3>2. \A t \in {1} : h[t] \in Nat
      BY <1>1
    <3> QED BY <3>1, <3>2, SumRemove
  <2>3. SumFunctionOnSet(h, {1} \ {1}) = SumFunctionOnSet(h, {})
    <3>1. {1} \ {1} = {}
      OBVIOUS
    <3> QED BY <3>1
  <2>4. h[1] = 0 /\ SumFunctionOnSet(h, 1 .. Window) <= limit
    BY <1>3 DEF TwoWindows
  <2>5. SumFunctionOnSet(h, {1}) = 0
    BY <2>2, <2>3, <2>4, SumEmpty
  <2>6. SumFunctionOnSet(h, 2 .. Window) <= SumFunctionOnSet(h, 1 .. Window)
    BY <1>1, PartGrows
  <2>7. SumFunctionOnSet(h, 2 .. Window) \in Nat /\ SumFunctionOnSet(h, 1 .. Window) \in Nat
    BY <1>1, PartType
  <2>8. SumFunctionOnSet(h, Life(d)) <= p
    BY <2>1, <2>5
  <2>9. SumFunctionOnSet(h, Before(d)) <= limit
    <3>1. SumFunctionOnSet(h, Before(d)) = SumFunctionOnSet(h, 2 .. Window)
      BY <2>1
    <3> QED BY <2>4, <2>6, <2>7, <3>1
  <2> QED BY <2>8, <2>9 DEF TwoWindows
<1> QED BY <1>2, <1>3 DEF CounterType

\* An event that passes belongs to the counter's life.
LEMMA PassedWindows ==
    ASSUME NEW c \in CounterType, c.count > 0,
           NEW p \in Nat, NEW h \in [1 .. Window -> Nat], NEW limit \in Nat,
           TwoWindows(c, p, h, limit)
    PROVE  TwoWindows(c, p + 1, [h EXCEPT ![1] = @ + 1], limit)
<1> DEFINE n == Window - c.left + 1
           g == [h EXCEPT ![1] = @ + 1]
<1>1. Window \in Nat /\ Window > 0 /\ n \in 1 .. Window
  BY LimiterAssumption DEF CounterType
<1>2. Life(c) = 1 .. n /\ Before(c) = n + 1 .. Window
  BY <1>1 DEF Life, Before, CounterType
<1> HIDE DEF n
<1>3. /\ SumFunctionOnSet(g, 1 .. n) = SumFunctionOnSet(h, 1 .. n) + 1
      /\ SumFunctionOnSet(g, n + 1 .. Window) = SumFunctionOnSet(h, n + 1 .. Window)
  BY <1>1, OneMore
<1>4. SumFunctionOnSet(h, 1 .. n) \in Nat
  BY <1>1, PartType
<1> HIDE DEF g
<1>5. SumFunctionOnSet(h, 1 .. n) <= p /\ SumFunctionOnSet(h, n + 1 .. Window) <= limit
  BY <1>2 DEF TwoWindows
<1>6. SumFunctionOnSet(g, 1 .. n) <= p + 1 /\ SumFunctionOnSet(g, n + 1 .. Window) <= limit
  BY <1>3, <1>4, <1>5
<1>7. TwoWindows(c, p + 1, g, limit)
  BY <1>2, <1>6 DEF TwoWindows
<1> QED BY <1>7 DEF g

\* When a counter expires, its events are those of the window before.
LEMMA AgedWindows ==
    ASSUME NEW c \in CounterType, NEW h \in [1 .. Window -> Nat],
           NEW limit \in Nat, NEW p \in Nat, p <= limit,
           TwoWindows(c, p, h, limit)
    PROVE  TwoWindows(Aged(c), IF Aged(c).count = 0 THEN 0 ELSE p, Shifted(h), limit)
<1>1. Window \in Nat /\ Window > 0 /\ c.count \in Nat /\ c.left \in 0 .. Window
  BY LimiterAssumption DEF CounterType
<1>2. ASSUME SumFunctionOnSet(h, 1 .. Window) <= limit
      PROVE  Shifted(h)[1] = 0 /\ SumFunctionOnSet(Shifted(h), 1 .. Window) <= limit
  <2>1. Window \in 1 .. Window
    BY <1>1
  <2>2. SumFunctionOnSet(Shifted(h), 1 .. Window) = SumFunctionOnSet(h, 1 .. Window - 1)
    BY <2>1, OneTick
  <2>3. SumFunctionOnSet(h, 1 .. Window - 1) <= SumFunctionOnSet(h, 1 .. Window)
    BY <1>1, PartGrows
  <2>4. SumFunctionOnSet(h, 1 .. Window - 1) \in Nat /\ SumFunctionOnSet(h, 1 .. Window) \in Nat
    BY <1>1, PartType
  <2>5. Shifted(h)[1] = 0
    BY <1>1 DEF Shifted
  <2> QED BY <1>2, <2>2, <2>3, <2>4, <2>5
<1>3. CASE c.count = 0
  <2>1. Aged(c).count = 0
    BY <1>1, <1>3 DEF Aged, NoCounter, CounterType
  <2>2. SumFunctionOnSet(h, 1 .. Window) <= limit
    BY <1>3 DEF TwoWindows
  <2> QED BY <1>2, <2>1, <2>2 DEF TwoWindows
<1>4. CASE c.left = 1
  <2>1. Aged(c).count = 0 /\ c.count > 0 /\ Life(c) = 1 .. Window
    BY <1>1, <1>4 DEF Aged, NoCounter, CounterType, Life
  <2>2. SumFunctionOnSet(h, 1 .. Window) <= p
    BY <2>1 DEF TwoWindows
  <2>3. SumFunctionOnSet(h, 1 .. Window) \in Nat
    BY <1>1, PartType
  <2>4. SumFunctionOnSet(h, 1 .. Window) <= limit
    BY <2>2, <2>3
  <2> QED BY <1>2, <2>1, <2>4 DEF TwoWindows
<1>5. CASE c.count > 0 /\ c.left > 1
  <2> DEFINE n == Window - c.left + 2
             d == Aged(c)
  <2>1. d.count > 0 /\ d.left = c.left - 1
    BY <1>1, <1>5 DEF Aged, CounterType
  <2>2. n \in 1 .. Window /\ n \in Nat \ {0} /\ n <= Window
    BY <1>1, <1>5
  <2>3. Life(c) = 1 .. n - 1 /\ Before(c) = n .. Window
    BY <1>1 DEF Life, Before
  <2>4. Life(d) = 1 .. n /\ Before(d) = n + 1 .. Window
    <3> DEFINE l == d.left
    <3>1. l \in Int /\ Window - l + 1 = n /\ Window - l + 2 = n + 1
      BY <1>1, <2>1
    <3>2. Life(d) = 1 .. Window - l + 1 /\ Before(d) = Window - l + 2 .. Window
      BY DEF Life, Before
    <3> HIDE DEF n, d, l
    <3> QED BY <3>1, <3>2
  <2> HIDE DEF n, d
  <2>5. /\ SumFunctionOnSet(Shifted(h), 1 .. n) = SumFunctionOnSet(h, 1 .. n - 1)
        /\ SumFunctionOnSet(Shifted(h), n + 1 .. Window) = SumFunctionOnSet(h, n .. Window - 1)
    BY <2>2, OneTick
  <2>6. SumFunctionOnSet(h, n .. Window - 1) <= SumFunctionOnSet(h, n .. Window)
    BY <1>1, <2>2, PartGrows
  <2>7. SumFunctionOnSet(h, n .. Window - 1) \in Nat /\ SumFunctionOnSet(h, n .. Window) \in Nat
    BY <1>1, <2>2, PartType
  <2>8. SumFunctionOnSet(h, 1 .. n - 1) <= p /\ SumFunctionOnSet(h, n .. Window) <= limit
    BY <1>5, <2>3 DEF TwoWindows
  <2>9. SumFunctionOnSet(Shifted(h), Life(d)) <= p
    BY <2>4, <2>5, <2>8
  <2>10. SumFunctionOnSet(Shifted(h), Before(d)) <= limit
    BY <2>4, <2>5, <2>6, <2>7, <2>8
  <2>11. TwoWindows(d, IF d.count = 0 THEN 0 ELSE p, Shifted(h), limit)
    BY <2>1, <2>9, <2>10 DEF TwoWindows
  <2> QED BY <2>11 DEF d
<1> QED BY <1>1, <1>3, <1>4, <1>5 DEF CounterType

\* What a step does to one key keeps its two windows.
LEMMA WindowStep ==
    ASSUME WindowInv, [LimiterNext]_limiterVars
    PROVE  WindowInv'
<1>1. LimiterInv /\ LimiterInv'
  BY LimiterStep DEF WindowInv
<1>2. Window \in Nat /\ Window > 0
  BY LimiterAssumption
<1>3. ASSUME NEW i \in Ids PROVE
        /\ counter[i] \in CounterType /\ counter'[i] \in CounterType
        /\ passed[i] \in Nat /\ recent[i] \in [1 .. Window -> Nat] /\ Limit[i] \in Nat
        /\ passed[i] <= Limit[i]
        /\ TwoWindows(counter[i], passed[i], recent[i], Limit[i])
  BY <1>1, LimiterAssumption
  DEF WindowInv, LimiterInv, LimiterTypeOK, LimitPerWindow, CounterType
<1>4. ASSUME NEW i \in Ids, Count(i), NEW j \in Ids
      PROVE  /\ TwoWindows(counter'[j], passed[j], recent[j], Limit[j])
             /\ j = i => counter'[j].count > 0
             /\ j # i => counter'[j] = counter[j]
  <2>1. CASE j = i
    <3>1. counter'[j] = Script(counter[j], j)
      BY <1>1, <1>4, <2>1 DEF Count, LimiterInv, LimiterTypeOK
    <3>2. counter'[j].count > 0
      BY <1>1, <3>1, ScriptTyped DEF LimiterInv
    <3>3. counter'[j].left = IF counter[j].count = 0 THEN Window ELSE counter[j].left
      BY <3>1 DEF Script
    <3> QED BY <1>3, <2>1, <3>2, <3>3, CountedWindows
  <2>2. CASE j # i
    <3>1. counter'[j] = counter[j]
      BY <1>1, <1>4, <2>2 DEF Count, LimiterInv, LimiterTypeOK
    <3> QED BY <1>3, <2>2, <3>1
  <2> QED BY <2>1, <2>2
<1>5. ASSUME NEW j \in Ids
      PROVE  TwoWindows(counter'[j], passed'[j], recent'[j], Limit[j])
  <2>1. CASE UNCHANGED limiterVars
    BY <1>3, <2>1 DEF limiterVars
  <2>2. ASSUME NEW i \in Ids, Pass(i)
        PROVE  TwoWindows(counter'[j], passed'[j], recent'[j], Limit[j])
    <3>1. TwoWindows(counter'[j], passed[j], recent[j], Limit[j])
      BY <1>4, <2>2 DEF Pass
    <3>2. CASE j = i
      <4>1. passed'[j] = passed[j] + 1 /\ recent'[j] = [recent[j] EXCEPT ![1] = @ + 1]
        BY <1>1, <2>2, <3>2 DEF Pass, LimiterInv, LimiterTypeOK
      <4>2. counter'[j].count > 0
        BY <1>4, <2>2, <3>2 DEF Pass
      <4>3. TwoWindows(counter'[j], passed[j] + 1, [recent[j] EXCEPT ![1] = @ + 1], Limit[j])
        BY <1>3, <3>1, <4>2, PassedWindows
      <4> QED BY <4>1, <4>3
    <3>3. CASE j # i
      <4>1. passed'[j] = passed[j] /\ recent'[j] = recent[j]
        BY <1>1, <2>2, <3>3 DEF Pass, LimiterInv, LimiterTypeOK
      <4> QED BY <3>1, <4>1
    <3> QED BY <3>2, <3>3
  <2>3. ASSUME NEW i \in Ids, Refuse(i) \/ FailOpen(i)
        PROVE  TwoWindows(counter'[j], passed'[j], recent'[j], Limit[j])
    <3>1. passed' = passed /\ recent' = recent /\ (Count(i) \/ counter' = counter)
      BY <2>3 DEF Refuse, FailOpen
    <3> QED BY <1>3, <1>4, <3>1
  <2>4. CASE LimiterTick
    <3>1. counter'[j] = Aged(counter[j]) /\ recent'[j] = Shifted(recent[j])
      BY <2>4 DEF LimiterTick, Shifted
    <3>2. passed'[j] = IF Aged(counter[j]).count = 0 THEN 0 ELSE passed[j]
      BY <2>4, <3>1 DEF LimiterTick
    <3>3. TwoWindows(Aged(counter[j]), IF Aged(counter[j]).count = 0 THEN 0 ELSE passed[j],
                     Shifted(recent[j]), Limit[j])
      BY <1>3, AgedWindows
    <3> QED BY <3>1, <3>2, <3>3
  <2> QED BY <2>1, <2>2, <2>3, <2>4 DEF LimiterNext
<1> QED BY <1>1, <1>5 DEF WindowInv, TwoWindows, Life, Before

\* Nothing has passed at first.
LEMMA WindowInit == LimiterInit => WindowInv
<1> SUFFICES ASSUME LimiterInit PROVE WindowInv
  OBVIOUS
<1>1. ASSUME NEW i \in Ids
      PROVE  TwoWindows(counter[i], passed[i], recent[i], Limit[i])
  <2>1. counter[i].count = 0 /\ recent[i] \in [1 .. Window -> Nat] /\ recent[i][1] = 0
    BY LimiterAssumption DEF LimiterInit, NoCounter
  <2>2. SumFunctionOnSet(recent[i], 1 .. Window) <= Cardinality(1 .. Window) * 0
    <3> DEFINE h == recent[i]
               S == 1 .. Window
    <3>1. \A t \in S : h[t] \in Nat /\ h[t] <= 0
      BY DEF LimiterInit
    <3>2. IsFiniteSet(S)
      BY LimiterAssumption, FS_Interval
    <3> HIDE DEF h, S
    <3>3. SumFunctionOnSet(h, S) <= Cardinality(S) * 0
      BY <3>1, <3>2, SumBounded
    <3> QED BY <3>3 DEF h, S
  <2>3. Cardinality(1 .. Window) \in Nat
    <3>1. IsFiniteSet(1 .. Window)
      BY LimiterAssumption, FS_Interval
    <3> QED BY <3>1, FS_CardinalityType
  <2>4. SumFunctionOnSet(recent[i], 1 .. Window) \in Nat
    BY <2>1, LimiterAssumption, PartType
  <2>5. Limit[i] \in Nat
    BY LimiterAssumption
  <2> QED BY <2>1, <2>2, <2>3, <2>4, <2>5 DEF TwoWindows
<1> QED BY <1>1, LimiterInitInv DEF WindowInv

\* The two windows make the last Window ticks.
LEMMA TwoWindowsBound == WindowInv => TwiceTheLimit
<1> SUFFICES ASSUME WindowInv, NEW i \in Ids
             PROVE  SumFunctionOnSet(recent[i], 1 .. Window) <= 2 * Limit[i]
  BY DEF TwiceTheLimit
<1> DEFINE c == counter[i]
           h == recent[i]
<1>1. /\ Window \in Nat /\ Window > 0 /\ Limit[i] \in Nat /\ passed[i] \in Nat
      /\ h \in [1 .. Window -> Nat] /\ passed[i] <= Limit[i]
      /\ c \in CounterType
      /\ TwoWindows(c, passed[i], h, Limit[i])
  BY LimiterAssumption
  DEF WindowInv, LimiterInv, LimiterTypeOK, LimitPerWindow, CounterType
<1> HIDE DEF c, h
<1>2. SumFunctionOnSet(h, 1 .. Window) \in Nat
  BY <1>1, PartType
<1>3. CASE c.count > 0
  <2>1. c.left \in 1 .. Window
    BY <1>1, <1>3 DEF CounterType
  <2> DEFINE k == h
             S == Life(c)
             T == Before(c)
  <2>2. S \cup T = 1 .. Window /\ S \cap T = {}
    <3> DEFINE l == c.left
    <3>1. l \in 1 .. Window /\ Window - l + 2 = (Window - l + 1) + 1
      BY <1>1, <2>1
    <3>2. S = 1 .. Window - l + 1 /\ T = Window - l + 2 .. Window
      BY DEF Life, Before
    <3> HIDE DEF l, S, T
    <3> QED BY <1>1, <3>1, <3>2
  <2>3. IsFiniteSet(S) /\ IsFiniteSet(T)
    <3>1. \A a, b \in Int : IsFiniteSet(a .. b)
      BY FS_Interval
    <3> QED BY <1>1, <2>1, <3>1 DEF Life, Before
  <2>4. \A t \in S \cup T : k[t] \in Nat
    BY <1>1, <2>2
  <2>5. SumFunctionOnSet(k, S) <= passed[i] /\ SumFunctionOnSet(k, T) <= Limit[i]
    BY <1>1, <1>3 DEF TwoWindows
  <2> HIDE DEF k, S, T
  <2>6. SumFunctionOnSet(k, S \cup T) = SumFunctionOnSet(k, S) + SumFunctionOnSet(k, T)
    BY <2>2, <2>3, <2>4, SumDisjoint
  <2>7. SumFunctionOnSet(k, S) \in Nat /\ SumFunctionOnSet(k, T) \in Nat
    <3>1. (\A t \in S : k[t] \in Nat) /\ (\A t \in T : k[t] \in Nat)
      BY <2>4
    <3> QED BY <2>3, <3>1, SumType
  <2>8. SumFunctionOnSet(k, S \cup T) = SumFunctionOnSet(h, 1 .. Window)
    BY <2>2 DEF k
  <2> QED BY <1>1, <2>5, <2>6, <2>7, <2>8 DEF h
<1>4. CASE c.count = 0
  BY <1>1, <1>2, <1>4 DEF TwoWindows, h
<1> QED BY <1>1, <1>3, <1>4 DEF CounterType

\* Retry-After is off by half a second at most (ratelimit_provider.go:51), and
\* never 0.
THEOREM RetryAfterHonest ==
    ASSUME NEW ms \in Nat
    PROVE  /\ RetryAfter(ms) \in Nat \ {0}
           /\ ms <= 1000 * RetryAfter(ms) + 500
           /\ 1000 * RetryAfter(ms) <= ms + 1000
BY DEF RetryAfter

\* Under the limiter's own specification, whoever calls it: a counter lets at
\* most Limit events pass in its life, and never loses its TTL.
THEOREM LimiterHolds == LimiterSpec => [](LimiterTypeOK /\ LimitPerWindow)
<1>1. LimiterInit => LimiterInv
  BY LimiterInitInv
<1>2. LimiterInv /\ [LimiterNext]_limiterVars => LimiterInv'
  BY LimiterStep
<1> QED BY <1>1, <1>2, PTL DEF LimiterSpec, LimiterInv

\* Fixed windows let pass twice the limit at most in any stretch of time as
\* long as a window, wherever it begins.
THEOREM TwoWindowsHold == LimiterSpec => []TwiceTheLimit
<1>1. LimiterInit => WindowInv
  BY WindowInit
<1>2. WindowInv /\ [LimiterNext]_limiterVars => WindowInv'
  BY WindowStep
<1>3. WindowInv => TwiceTheLimit
  BY TwoWindowsBound
<1> QED BY <1>1, <1>2, <1>3, PTL DEF LimiterSpec

-----------------------------------------------------------------------------
(* The gateway.  What is known of a request, given the table of keys.      *)

Acting == {"create", "delete", "service"}

Sound(r, ks, n) ==
    /\ r.dead => r.pc = "find" /\ r.key \notin DOMAIN ks
    /\ r.pc = "find" => /\ r.key \in 1 .. n - 1
                        /\ r.key \in DOMAIN ks => ks[r.key].user \in Callers
    /\ r.pc = "limit" => r.id \in Ids /\ (r.user # None => r.user \in Users /\ r.id = r.user)
    /\ r.pc \in {"create", "delete"} =>
          r.user \in Users /\ (r.key # 0 => HasScope(r.scopes, "write"))
    /\ r.pc \in Acting /\ r.user # None /\ (r.key # 0 \/ r.id # None) => r.charged = r.user

Inv ==
    /\ TypeOK
    /\ LimitPerWindow
    /\ \A w \in Workers : Sound(request[w], keys, nextKey)

\* Keys are never used again and never change hands.
KeysMove ==
    /\ KeysTypeOK'
    /\ nextKey' \in Nat /\ nextKey <= nextKey'
    /\ \A k \in Issued : k \in DOMAIN keys' => k \in DOMAIN keys /\ keys'[k].user = keys[k].user

LEMMA SoundKept ==
    ASSUME NEW r, NEW ks, NEW n \in Nat, NEW ks2, NEW n2 \in Nat, n <= n2,
           \A k \in 1 .. n - 1 : k \in DOMAIN ks2 => k \in DOMAIN ks /\ ks2[k].user = ks[k].user,
           Sound(r, ks, n)
    PROVE  Sound(r, ks2, n2)
BY DEF Sound

LEMMA IdleSound == Idle \in RequestType /\ \A ks, n : Sound(Idle, ks, n)
BY DEF Idle, RequestType, PC, Sound, Acting

\* A request that reaches its handler.
LEMMA HandlerSound ==
    ASSUME TypeOK, NEW r \in RequestType, NEW required \in {"service", "write"},
           NEW h \in Handler(r, required),
           ~r.dead, r.user \in Users,
           r.key # 0 \/ r.id # None => r.charged = r.user,
           r.key = 0 \/ HasScope(r.scopes, required)
    PROVE  h \in RequestType /\ Sound(h, keys, nextKey)
<1>1. CASE required = "service"
  BY <1>1 DEF Handler, RequestType, PC, Sound, Acting, HasScope
<1>2. CASE required = "write"
  <2>1. \/ h = [r EXCEPT !.pc = "create"]
        \/ \E k \in Issued : h = [r EXCEPT !.pc = "delete", !.target = k]
    BY <1>2 DEF Handler
  <2>2. Issued \subseteq Nat
    BY DEF Issued, TypeOK, KeysTypeOK, KeyRow, KeyId
  <2> QED BY <1>2, <2>1, <2>2 DEF RequestType, PC, Sound, Acting, HasScope
<1> QED BY <1>1, <1>2

LEMMA DispatchSound ==
    ASSUME Inv, NEW w \in Workers, request[w].pc = "limit", Dispatch(w, request[w].id)
    PROVE  \E h \in RequestType : Become(w, h) /\ Sound(h, keys, nextKey)
<1> DEFINE r == [request[w] EXCEPT !.charged = request[w].id]
<1>1. request[w] \in RequestType /\ Sound(request[w], keys, nextKey)
  BY DEF Inv, TypeOK
<1>2. r \in RequestType
  BY <1>1 DEF RequestType
<1>3. ~r.dead /\ r.user = request[w].user /\ r.charged = request[w].id
  BY <1>1 DEF Sound, RequestType
<1>4. CASE r.user = None
  <2>1. Become(w, [r EXCEPT !.pc = "service"]) \/ Return(w)
    BY <1>4 DEF Dispatch
  <2>2. [r EXCEPT !.pc = "service"] \in RequestType
    BY <1>2 DEF RequestType, PC
  <2>3. Sound([r EXCEPT !.pc = "service"], keys, nextKey)
    BY <1>2, <1>3, <1>4 DEF Sound, RequestType, Acting
  <2> QED BY <2>1, <2>2, <2>3, IdleSound DEF Return
<1>5. CASE r.user # None
  <2>1. r.user \in Users /\ r.charged = r.user
    BY <1>1, <1>3, <1>5 DEF Sound
  <2>2. CASE Return(w)
    BY <2>2, IdleSound DEF Return
  <2>3. CASE ~Return(w)
    <3>1. PICK required \in {"service", "write"} :
              /\ r.key = 0 \/ HasScope(r.scopes, required)
              /\ \E h \in Handler(r, required) : Become(w, h)
      BY <1>5, <2>3 DEF Dispatch
    <3>0. PICK h \in Handler(r, required) : Become(w, h)
      BY <3>1
    <3>2. h \in RequestType /\ Sound(h, keys, nextKey)
      <4> HIDE DEF r
      <4> QED BY <1>2, <1>3, <2>1, <3>1, HandlerSound DEF Inv
    <3> QED BY <3>0, <3>2
  <2> QED BY <2>2, <2>3
<1> QED BY <1>4, <1>5

\* A request that arrives.
LEMMA AcceptSound ==
    ASSUME Inv, NEW w \in Workers, NEW r \in RequestType, Accept(w, r),
           r.key = 0 \/ r.pc = "find", Sound([r EXCEPT !.dead = FALSE], keys, nextKey)
    PROVE  \E h \in RequestType : Become(w, h) /\ Sound(h, keys, nextKey)
<1> DEFINE h == [r EXCEPT !.dead = r.key \in Deleted]
<1>1. Become(w, h)
  BY DEF Accept
<1>2. h \in RequestType
  <2> DEFINE d == r.key \in Deleted
  <2>1. d \in BOOLEAN
    OBVIOUS
  <2> HIDE DEF d
  <2>2. [r EXCEPT !.dead = d] \in RequestType
    BY <2>1 DEF RequestType
  <2> QED BY <2>2 DEF d
<1>3. 0 \notin Deleted
  BY DEF Deleted, Issued
<1>4. Sound(h, keys, nextKey)
  BY <1>3 DEF Sound, RequestType, Deleted, Acting
<1> QED BY <1>1, <1>2, <1>4

\* What a step of a request does to its record, the keys and the counters.
Served(w) ==
    /\ \E r \in RequestType : Become(w, r) /\ Sound(r, keys', nextKey')
    /\ UNCHANGED processVars
    /\ KeysMove
    /\ [LimiterNext]_limiterVars
    /\ request[w].pc = "idle" => proc = "serving"

LEMMA HandleStep == ASSUME Inv, NEW w \in Workers, Handle(w) PROVE Served(w)
<1>1. request[w] \in RequestType /\ Sound(request[w], keys, nextKey)
  BY DEF Inv, TypeOK
<1>2. Idle \in RequestType /\ \A ks, n : Sound(Idle, ks, n)
  BY IdleSound
<1>3. UNCHANGED keysVars => KeysMove
  BY DEF keysVars, KeysMove, KeysTypeOK, KeyRow, Inv, TypeOK, Issued, KeyId
<1>4. ASSUME NEW r \in RequestType, Accept(w, r), r.key = 0 \/ r.pc = "find",
             Sound([r EXCEPT !.dead = FALSE], keys, nextKey)
      PROVE  Served(w)
  <2>1. \E h \in RequestType : Become(w, h) /\ Sound(h, keys, nextKey)
    BY <1>4, AcceptSound
  <2> QED BY <1>3, <1>4, <2>1 DEF Accept, keysVars, Served
<1>5. ASSUME Return(w), UNCHANGED processVars, KeysMove, [LimiterNext]_limiterVars,
             request[w].pc # "idle"
      PROVE  Served(w)
  BY <1>2, <1>5 DEF Return, Served
<1>6. Browse(w) => Served(w)
  <2> SUFFICES ASSUME Browse(w) PROVE Served(w)
    OBVIOUS
  <2>1. PICK u \in Users, required \in {"service", "write"} :
            \E r \in Handler([Idle EXCEPT !.user = u], required) : Accept(w, r)
    BY DEF Browse
  <2>2. PICK r \in Handler([Idle EXCEPT !.user = u], required) : Accept(w, r)
    BY <2>1
  <2>3. [Idle EXCEPT !.user = u] \in RequestType
    BY <1>2 DEF RequestType
  <2>4. r \in RequestType /\ Sound(r, keys, nextKey)
    <3> DEFINE i == [Idle EXCEPT !.user = u]
    <3>1. ~i.dead /\ i.user \in Users /\ i.key = 0 /\ i.id = None
      BY DEF Idle
    <3> HIDE DEF i
    <3> QED BY <2>2, <2>3, <3>1, HandlerSound DEF Inv, i
  <2>5. r.key = 0 /\ r.dead = FALSE
    BY <2>2 DEF Handler, Idle
  <2>6. Sound([r EXCEPT !.dead = FALSE], keys, nextKey)
    BY <2>4, <2>5 DEF Sound, RequestType
  <2> QED BY <1>4, <2>2, <2>4, <2>5, <2>6
<1>7. CallBySession(w) => Served(w)
  <2> SUFFICES ASSUME CallBySession(w) PROVE Served(w)
    OBVIOUS
  <2>1. PICK u \in Callers : Accept(w, [Idle EXCEPT !.pc = "limit", !.user = u, !.id = u])
    <3>1. ASSUME NEW u \in Callers PROVE u # None
      BY <3>1, GatewayAssumption DEF Callers
    <3> QED BY <3>1 DEF CallBySession, LimitByUserOrIP
  <2> DEFINE r == [Idle EXCEPT !.pc = "limit", !.user = u, !.id = u]
  <2>2. r \in RequestType
    BY <1>2 DEF RequestType, PC, Callers
  <2>3. r.key = 0 /\ Sound([r EXCEPT !.dead = FALSE], keys, nextKey)
    BY DEF Idle, Sound, Callers, Acting
  <2> HIDE DEF r
  <2> QED BY <1>4, <2>1, <2>2, <2>3 DEF r
<1>8. CallByKey(w) => Served(w)
  <2> SUFFICES ASSUME CallByKey(w) PROVE Served(w)
    OBVIOUS
  <2>1. PICK k \in Issued : /\ k \in DOMAIN keys => keys[k].user \in Callers
                            /\ Accept(w, [Idle EXCEPT !.pc = "find", !.key = k])
    BY DEF CallByKey
  <2> DEFINE r == [Idle EXCEPT !.pc = "find", !.key = k]
  <2>2. r \in RequestType
    <3>1. k \in Nat
      BY DEF Issued, Inv, TypeOK, KeysTypeOK, KeyRow, KeyId
    <3> QED BY <1>2, <3>1 DEF RequestType, PC
  <2>3. r.pc = "find" /\ Sound([r EXCEPT !.dead = FALSE], keys, nextKey)
    BY <2>1 DEF Idle, Sound, Issued, Acting
  <2> HIDE DEF r
  <2> QED BY <1>4, <2>1, <2>2, <2>3 DEF r
<1>9. SubmitEmail(w) \/ CallAnonymously(w) => Served(w)
  <2> SUFFICES ASSUME SubmitEmail(w) \/ CallAnonymously(w) PROVE Served(w)
    OBVIOUS
  <2>1. PICK e \in Clients : Accept(w, [Idle EXCEPT !.pc = "limit", !.id = e])
    BY DEF SubmitEmail, CallAnonymously, LimitByEmail, LimitByUserOrIP
  <2> DEFINE r == [Idle EXCEPT !.pc = "limit", !.id = e]
  <2>2. e \in Ids
    BY GatewayAssumption
  <2>3. r \in RequestType
    BY <1>2, <2>2 DEF RequestType, PC
  <2>4. r.key = 0 /\ Sound([r EXCEPT !.dead = FALSE], keys, nextKey)
    BY <2>2 DEF Idle, Sound, Acting
  <2> HIDE DEF r
  <2> QED BY <1>4, <2>1, <2>3, <2>4 DEF r
<1>10. FindByHash(w) => Served(w)
  <2> SUFFICES ASSUME FindByHash(w) PROVE Served(w)
    OBVIOUS
  <2> DEFINE k == request[w].key
             r == [request[w] EXCEPT !.pc = "limit", !.user = keys[k].user,
                                     !.scopes = keys[k].scopes, !.id = keys[k].user]
  <2>1. request[w].pc = "find" /\ UNCHANGED <<limiterVars, keysVars, processVars>>
    BY DEF FindByHash
  <2>2. CASE Return(w)
    BY <1>3, <1>5, <2>1, <2>2
  <2>3. CASE ~Return(w)
    <3>1. k \in DOMAIN keys /\ Become(w, r)
      BY <2>3 DEF FindByHash, Resolvable
    <3>2. keys[k].user \in Callers /\ ~request[w].dead
      BY <1>1, <2>1, <3>1 DEF Sound
    <3>3. keys[k].scopes \in SUBSET (Scopes \cup {"*"})
      BY <3>1 DEF Inv, TypeOK, KeysTypeOK, KeyRow
    <3>4. r \in RequestType /\ Sound(r, keys, nextKey)
      BY <1>1, <3>2, <3>3 DEF RequestType, PC, Callers, Sound, Acting
    <3> HIDE DEF r
    <3> QED BY <1>3, <2>1, <3>1, <3>4 DEF Served, keysVars
  <2> QED BY <2>2, <2>3
<1>11. ASSUME request[w].pc = "limit", Dispatch(w, request[w].id),
              \E i \in Ids : Pass(i) \/ FailOpen(i), UNCHANGED <<keysVars, processVars>>
       PROVE  Served(w)
  <2>1. \E r \in RequestType : Become(w, r) /\ Sound(r, keys, nextKey)
    BY <1>11, DispatchSound
  <2>2. LimiterNext
    BY <1>11 DEF LimiterNext
  <2> QED BY <1>3, <1>11, <2>1, <2>2 DEF Served, keysVars
<1>12. LimitPass(w) \/ LimitFailOpen(w) => Served(w)
  BY <1>1, <1>11 DEF LimitPass, LimitFailOpen, Sound
<1>13. LimitRefuse(w) => Served(w)
  BY <1>1, <1>3, <1>5 DEF LimitRefuse, LimiterNext, Sound
<1>14. CreateKey(w) => Served(w)
  <2> SUFFICES ASSUME CreateKey(w) PROVE Served(w)
    OBVIOUS
  <2>1. PICK asked \in {{}, {"service"}} : KeyCreate(request[w].user, asked)
    BY DEF CreateKey, Asked
  <2>2. request[w].user \in Users /\ request[w].pc = "create"
    BY <1>1 DEF CreateKey, Sound
  <2>3. Granted(asked) \in (SUBSET (Scopes \cup {"*"})) \ {{}}
    BY GatewayAssumption DEF Granted
  <2>4. KeysMove
    <3>1. KeysTypeOK
      BY DEF Inv, TypeOK
    <3>2. /\ DOMAIN keys' = DOMAIN keys \cup {nextKey}
          /\ nextKey' = nextKey + 1
          /\ \A k \in DOMAIN keys' :
                keys'[k] = IF k = nextKey THEN [user |-> request[w].user, scopes |-> Granted(asked)]
                           ELSE keys[k]
          /\ keys' = [k \in DOMAIN keys' |-> keys'[k]]
      BY <2>1 DEF KeyCreate
    <3>3. KeysTypeOK'
      BY <2>2, <2>3, <3>1, <3>2 DEF KeysTypeOK, KeyRow, Issued, KeyId
    <3> QED BY <3>1, <3>2, <3>3 DEF KeysMove, KeysTypeOK, KeyRow, Issued, KeyId
  <2> QED BY <1>5, <2>2, <2>4 DEF CreateKey
<1>15. DeleteKey(w) => Served(w)
  <2> SUFFICES ASSUME DeleteKey(w) PROVE Served(w)
    OBVIOUS
  <2>1. KeysMove
    BY DEF DeleteKey, KeyDelete, KeysMove, KeysTypeOK, KeyRow, Inv, TypeOK, Issued, KeyId
  <2> QED BY <1>5, <2>1 DEF DeleteKey
<1>16. Serve(w) \/ Abort(w) => Served(w)
  BY <1>3, <1>5 DEF Serve, Abort
<1> QED
  BY <1>6, <1>7, <1>8, <1>9, <1>10, <1>12, <1>13, <1>14, <1>15, <1>16 DEF Handle

\* The next phase of run, whatever step it takes.
Phases == Starting \cup Ended \cup {"serving", "draining"}

LEMMA RunStep ==
    ASSUME Inv, Run
    PROVE  /\ ProcessTypeOK'
           /\ request' = request \/ request' = [w \in Workers |-> Idle]
           /\ proc' \notin {"serving", "draining"} => Quiet'
           /\ proc' = "stopped" => Quiet
<1> USE DEF Starting, Ended
<1>1. /\ proc \in Phases /\ signalled \in BOOLEAN /\ storage \in BOOLEAN /\ grace \in 0 .. Grace
      /\ proc = "draining" => signalled
      /\ proc \notin {"serving", "draining"} => Quiet
      /\ Grace \in Nat
  BY GraceAssumption DEF Inv, TypeOK, ProcessTypeOK, Phases
<1>2. proc' \in Phases /\ grace' \in 0 .. Grace
  <2>1. proc' \in Phases
    BY <1>1 DEF Run, Phases, ProcessStart, LoadConfig, OpenDatabase, Migrate, OpenRedis, OpenS3, StartStep,
       Listen, ListenerFails, Signal, BeginShutdown, Drained, DrainTimeout, Kill
  <2>2. grace' = grace \/ grace' = Grace
    BY DEF Run, ProcessStart, OpenDatabase, Migrate, OpenRedis, OpenS3, StartStep,
       Listen, ListenerFails, Signal, BeginShutdown, Drained, DrainTimeout, Kill
  <2> QED BY <1>1, <2>1, <2>2
<1>3. signalled' \in BOOLEAN
  <2>1. signalled' = signalled \/ signalled' = TRUE \/ signalled' = FALSE
    BY DEF Run, ProcessStart, OpenDatabase, Migrate, OpenRedis, OpenS3, StartStep,
       Listen, ListenerFails, Signal, BeginShutdown, Drained, DrainTimeout, Kill
  <2> QED BY <1>1, <2>1
<1>4. proc' = "draining" => signalled'
  BY <1>1 DEF Run, ProcessStart, LoadConfig, OpenDatabase, Migrate, OpenRedis, OpenS3, StartStep,
     Listen, ListenerFails, Signal, BeginShutdown, Drained, DrainTimeout, Kill
<1>9. storage' \in BOOLEAN
  <2>1. storage' = storage \/ storage' = FALSE \/ storage' \in BOOLEAN
    BY DEF Run, ProcessStart, OpenDatabase, Migrate, OpenRedis, OpenS3, StartStep,
       Listen, ListenerFails, Signal, BeginShutdown, Drained, DrainTimeout, Kill
  <2> QED BY <1>1, <2>1
<1>5. ProcessTypeOK'
  BY <1>2, <1>3, <1>4, <1>9 DEF ProcessTypeOK, Phases
<1>6. request' = request \/ request' = [w \in Workers |-> Idle]
  BY DEF Run
<1>7. ASSUME proc' \notin {"serving", "draining"} PROVE Quiet'
  <2>1. CASE proc' \in Ended
    <3>1. request' = [w \in Workers |-> Idle]
      BY <2>1 DEF Run
    <3> QED BY <3>1 DEF Quiet, Idle
  <2>2. CASE proc' \notin Ended
    <3>1. request' = request
      BY <2>2 DEF Run
    <3>2. proc \notin {"serving", "draining"}
      BY <1>7, <2>2 DEF Run, ProcessStart, LoadConfig, OpenDatabase, Migrate, OpenRedis, OpenS3, StartStep,
         Listen, ListenerFails, Signal, BeginShutdown, Drained, DrainTimeout, Kill
    <3> QED BY <1>1, <3>1, <3>2 DEF Quiet
  <2> QED BY <2>1, <2>2
<1>8. proc' = "stopped" => Quiet
  BY <1>1 DEF Run, ProcessStart, LoadConfig, OpenDatabase, Migrate, OpenRedis, OpenS3, StartStep,
     Listen, ListenerFails, Signal, BeginShutdown, Drained, DrainTimeout, Kill
<1> QED BY <1>5, <1>6, <1>7, <1>8

LEMMA InitInv == Init => Inv
<1> SUFFICES ASSUME Init PROVE Inv
  OBVIOUS
<1>1. LimiterTypeOK /\ LimitPerWindow
  BY LimiterInitInv DEF Init, LimiterInv
<1>2. KeysTypeOK
  BY DEF Init, KeysInit, KeysTypeOK, KeyRow, KeyId
<1>3. ProcessTypeOK
  <2>1. proc = "stopped" /\ signalled = FALSE /\ storage = FALSE /\ grace = 0 /\ Grace \in Nat
    BY GraceAssumption DEF Init, ProcessInit
  <2>2. signalled \in BOOLEAN /\ storage \in BOOLEAN
    BY <2>1
  <2> QED BY <2>1, <2>2 DEF ProcessTypeOK, Starting, Ended
<1>4. request \in [Workers -> RequestType] /\ Quiet
  BY IdleSound DEF Init, Quiet, Idle
<1>5. \A w \in Workers : Sound(request[w], keys, nextKey)
  BY IdleSound DEF Init
<1> QED BY <1>1, <1>2, <1>3, <1>4, <1>5 DEF Inv, TypeOK

LEMMA InvStep == ASSUME Inv, [Next]_vars PROVE Inv' /\ [LimiterNext]_limiterVars
<1>1. ASSUME NEW w \in Workers, Handle(w) PROVE Inv' /\ [LimiterNext]_limiterVars
  <2>1. Served(w)
    BY <1>1, HandleStep
  <2>2. PICK r \in RequestType : Become(w, r) /\ Sound(r, keys', nextKey')
    BY <2>1 DEF Served
  <2>3. LimiterTypeOK' /\ LimitPerWindow'
    BY <2>1, LimiterStep DEF Served, Inv, TypeOK, LimiterInv
  <2>4. KeysTypeOK'
    BY <2>1 DEF Served, KeysMove
  <2>5. ProcessTypeOK' /\ proc' = proc
    BY <2>1 DEF Served, processVars, Inv, TypeOK, ProcessTypeOK
  <2>6. request' \in [Workers -> RequestType]
    BY <2>2 DEF Become, Inv, TypeOK
  <2>7. proc' \in {"serving", "draining"}
    BY <2>1, <2>5 DEF Served, Inv, TypeOK, Quiet
  <2>8. ASSUME NEW v \in Workers PROVE Sound(request'[v], keys', nextKey')
    <3>1. CASE v = w
      BY <2>2, <3>1 DEF Become, Inv, TypeOK
    <3>2. CASE v # w
      <4>1. request'[v] = request[v]
        BY <2>2, <3>2 DEF Become, Inv, TypeOK
      <4>2. Sound(request[v], keys, nextKey) /\ nextKey \in Nat
        BY DEF Inv, TypeOK, KeysTypeOK, KeyRow, KeyId
      <4>3. /\ nextKey' \in Nat /\ nextKey <= nextKey'
            /\ \A k \in 1 .. nextKey - 1 :
                  k \in DOMAIN keys' => k \in DOMAIN keys /\ keys'[k].user = keys[k].user
        BY <2>1 DEF Served, KeysMove, Issued
      <4> QED BY <4>1, <4>2, <4>3, SoundKept
    <3> QED BY <3>1, <3>2
  <2>9. TypeOK'
    BY <2>3, <2>4, <2>5, <2>6, <2>7 DEF TypeOK
  <2>10. [LimiterNext]_limiterVars
    BY <2>1 DEF Served
  <2>11. Inv'
    BY <2>3, <2>8, <2>9 DEF Inv
  <2> QED BY <2>10, <2>11
<1>2. ASSUME Run PROVE Inv' /\ [LimiterNext]_limiterVars
  <2>1. UNCHANGED <<limiterVars, keysVars>>
    BY <1>2 DEF Run
  <2>2. /\ LimiterTypeOK' /\ LimitPerWindow' /\ KeysTypeOK'
    BY <2>1 DEF Inv, TypeOK, LimiterTypeOK, LimitPerWindow, KeysTypeOK, limiterVars, keysVars,
       Issued, KeyId
  <2>3. request' \in [Workers -> RequestType] /\ \A w \in Workers : Sound(request'[w], keys', nextKey')
    BY <1>2, <2>1, RunStep, IdleSound DEF keysVars, Inv, TypeOK
  <2> QED BY <1>2, <2>1, <2>2, <2>3, RunStep DEF Inv, TypeOK
<1>3. ASSUME Tick PROVE Inv' /\ [LimiterNext]_limiterVars
  <2>1. [LimiterNext]_limiterVars
    BY <1>3 DEF Tick, LimiterNext
  <2>2. LimiterTypeOK' /\ LimitPerWindow'
    BY <2>1, LimiterStep DEF Inv, TypeOK, LimiterInv
  <2>3. /\ keys' = keys /\ nextKey' = nextKey /\ request' = request
        /\ proc' = proc /\ signalled' = signalled /\ storage' = storage
    BY <1>3 DEF Tick, keysVars, ProcessTick
  <2>4. grace' \in 0 .. Grace
    BY <1>3, GraceAssumption DEF Tick, ProcessTick, Inv, TypeOK, ProcessTypeOK
  <2>5. KeysTypeOK' /\ ProcessTypeOK'
    BY <2>3, <2>4 DEF Inv, TypeOK, KeysTypeOK, KeyRow, ProcessTypeOK, Issued, KeyId
  <2> QED BY <2>1, <2>2, <2>3, <2>5 DEF Inv, TypeOK, Quiet
<1>4. CASE UNCHANGED vars
  BY <1>4 DEF vars, limiterVars, keysVars, processVars, Inv, TypeOK, LimiterTypeOK, LimitPerWindow,
     KeysTypeOK, KeyRow, ProcessTypeOK, Quiet, Issued, KeyId
<1> QED BY <1>1, <1>2, <1>3, <1>4 DEF Next

LEMMA Invariance == Spec => []Inv
<1>1. Inv /\ [Next]_vars => Inv'
  BY InvStep
<1> QED BY InitInv, <1>1, PTL DEF Spec

-----------------------------------------------------------------------------

\* The types of the parts, and no request outside a running process.
THEOREM GatewayTyped == Spec => []TypeOK
<1>1. Inv => TypeOK
  BY DEF Inv
<1> QED BY Invariance, <1>1, PTL

\* Whatever the requests do, the counters change as the limiter specifies:
\* the gateway is an implementation of its specification.
THEOREM GatewayUsesLimiter == Spec => LimiterSpec
<1>1. Init => LimiterInit
  BY DEF Init
<1>2. Inv /\ [Next]_vars => [LimiterNext]_limiterVars
  BY InvStep
<1> QED BY Invariance, <1>1, <1>2, PTL DEF Spec, LimiterSpec

\* The gateway lets pass twice the limit at most in any stretch of time as long
\* as a window.
THEOREM TwiceTheLimitHolds == Spec => []TwiceTheLimit
<1> QED BY GatewayUsesLimiter, TwoWindowsHold, PTL

\* A counter lets at most Limit events pass in its life (ratelimit.go:44).
THEOREM LimitPerWindowHolds == Spec => []LimitPerWindow
<1> QED BY GatewayUsesLimiter, LimiterHolds, PTL

\* A key deleted before a request arrived does not get it past APIKeyAuth.
THEOREM DeletedKeysRefusedHolds == Spec => []DeletedKeysRefused
<1>1. Inv => DeletedKeysRefused
  BY DEF Inv, Sound, DeletedKeysRefused
<1> QED BY Invariance, <1>1, PTL

\* An API request at work was charged to the user it works for.
THEOREM ChargedToActorHolds == Spec => []ChargedToActor
<1>1. Inv => ChargedToActor
  BY DEF Inv, Sound, Acting, ChargedToActor
<1> QED BY Invariance, <1>1, PTL

\* A user's keys appear and disappear by that user's requests only, and by
\* key only with one that was live when the request arrived and allows it.
THEOREM KeysChangeByOwnerHolds == Spec => KeysChangeByOwner
<1> DEFINE Of(ks, u) == {k \in DOMAIN ks : ks[k].user = u}
           Entitled(w, u) == /\ request[w].user = u /\ request'[w] = Idle
                             /\ request[w].key # 0 => /\ ~request[w].dead
                                                      /\ HasScope(request[w].scopes, "write")
           Step == \A u \in Users : Of(keys, u) # Of(keys', u) => \E w \in Workers : Entitled(w, u)
<1>1. ASSUME Inv, NEW w \in Workers, CreateKey(w) \/ DeleteKey(w), NEW u \in Users,
             Of(keys, u) # Of(keys', u)
      PROVE  Entitled(w, u)
  <2>1. /\ request[w].pc \in {"create", "delete"} /\ Return(w)
        /\ Sound(request[w], keys, nextKey) /\ request \in [Workers -> RequestType]
    BY <1>1 DEF CreateKey, DeleteKey, Inv, TypeOK
  <2>2. request'[w] = Idle /\ (request[w].key # 0 => ~request[w].dead /\ HasScope(request[w].scopes, "write"))
    BY <2>1 DEF Return, Become, Sound
  <2>3. request[w].user = u
    <3>1. CASE CreateKey(w)
      <4>1. PICK asked \in {{}, {"service"}} : KeyCreate(request[w].user, asked)
        BY <3>1 DEF CreateKey, Asked
      <4>2. nextKey \notin DOMAIN keys
        BY <1>1 DEF Inv, TypeOK, KeysTypeOK, KeyRow, KeyId, Issued
      <4>3. /\ DOMAIN keys' = DOMAIN keys \cup {nextKey}
            /\ keys'[nextKey].user = request[w].user
            /\ \A k \in DOMAIN keys : keys'[k] = keys[k]
        BY <4>1, <4>2 DEF KeyCreate
      <4> QED BY <1>1, <4>2, <4>3
    <3>2. CASE DeleteKey(w)
      BY <1>1, <3>2 DEF DeleteKey, KeyDelete
    <3> QED BY <1>1, <3>1, <3>2
  <2> QED BY <2>2, <2>3
<1>2. ASSUME NEW w \in Workers, Handle(w), ~CreateKey(w), ~DeleteKey(w) PROVE keys' = keys
  BY <1>2 DEF Handle, Browse, CallBySession, CallByKey, SubmitEmail, CallAnonymously, Accept, FindByHash, LimitPass,
     LimitRefuse, LimitFailOpen, Serve, Abort, keysVars
<1>3. Run \/ Tick \/ UNCHANGED vars => keys' = keys
  BY DEF Run, Tick, vars, keysVars
<1>4. ASSUME Inv, [Next]_vars PROVE Step
  BY <1>1, <1>2, <1>3, <1>4 DEF Next
<1>5. Inv /\ [Next]_vars => [Step]_vars
  BY <1>4
<1> QED BY Invariance, <1>5, PTL DEF Spec, KeysChangeByOwner

\* run returns nil only when every accepted request was answered.
THEOREM CleanExitDrainedHolds == Spec => CleanExitDrained
<1>1. ASSUME Inv, Next PROVE proc' = "stopped" => Quiet
  <2>1. Inv => (proc = "stopped" => Quiet)
    BY DEF Inv, TypeOK
  <2>2. ASSUME NEW w \in Workers, Handle(w) PROVE proc' = proc
    BY <1>1, <2>2, HandleStep DEF Served, processVars
  <2>3. Run => (proc' = "stopped" => Quiet)
    BY <1>1, RunStep
  <2>4. Tick => proc' = proc
    BY DEF Tick, ProcessTick
  <2> QED BY <1>1, <2>1, <2>2, <2>3, <2>4 DEF Next
<1>2. Inv /\ [Next]_vars => [proc' = "stopped" => Quiet]_vars
  BY <1>1
<1> QED BY Invariance, <1>2, PTL DEF Spec, CleanExitDrained
=============================================================================
