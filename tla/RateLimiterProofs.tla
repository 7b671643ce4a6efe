-------------------------- MODULE RateLimiterProofs --------------------------
(***************************************************************************)
(* Theorems about RateLimiter, for any tenants, users, addresses, methods  *)
(* and limits, and any number of requests and restarts.                    *)
(***************************************************************************)
EXTENDS RateLimiter, FiniteSetTheorems, SequenceTheorems, TLAPS

-----------------------------------------------------------------------------
(* The inductive invariant.                                                 *)

Window(k) == ResolveOptions(k.method).windowMs
Limit(k) == ResolveOptions(k.method).max

Entry == [at : Times, counter : Counter, restarts : 0 .. MaxRestarts]
Header == [remaining : Nat, refused : BOOLEAN, until : Nat]

Shapes ==
    /\ clock \in Times
    /\ counters \in [Keys -> Counter \cup {Null}]
    /\ admitted \in [Keys -> Seq(Entry)]
    /\ header \in [Keys -> Header \cup {Null}]
    /\ restarts \in 0 .. MaxRestarts

\* A counter of the process succeeds another: it has counted on, or is that of a
\* window which began when the earlier one was over.
Later(k, c, d) ==
    \/ c.windowStart = d.windowStart /\ c.count < d.count
    \/ c.windowStart + Window(k) <= d.windowStart

\* A request was let through within its window and its limit.
WithinWindow(k, e) ==
    /\ e.counter.windowStart <= e.at /\ e.at < e.counter.windowStart + Window(k)
    /\ e.at <= clock
    /\ e.counter.count <= Limit(k)

\* A window opened after a restart opened after what was let through before it.
Follows(k, e, f) ==
    \/ e.restarts < f.restarts /\ e.at <= f.counter.windowStart
    \/ e.restarts = f.restarts /\ Later(k, e.counter, f.counter)

\* The requests let through since the last restart were counted by the counter
\* there is, or by one it succeeds; those before came before its window.
CountedBy(k, e) ==
    \/ /\ e.restarts < restarts
       /\ counters[k] # Null => e.at <= counters[k].windowStart
    \/ /\ e.restarts = restarts /\ counters[k] # Null
       /\ counters[k] = e.counter \/ Later(k, e.counter, counters[k])

LogInv(k) ==
    /\ \A i \in 1 .. Len(admitted[k]) :
          WithinWindow(k, admitted[k][i]) /\ CountedBy(k, admitted[k][i])
    /\ \A i, j \in 1 .. Len(admitted[k]) : i < j => Follows(k, admitted[k][i], admitted[k][j])

\* The last response told its client to wait until the window is over.
CounterInv(k) ==
    counters[k] # Null =>
        /\ counters[k].windowStart <= clock
        /\ header[k] # Null => header[k].until >= counters[k].windowStart + Window(k)

HeaderInv(k) == header[k] # Null => header[k].remaining <= Limit(k)

RateInv == Shapes /\ \A k \in Keys : LogInv(k) /\ CounterInv(k) /\ HeaderInv(k)

-----------------------------------------------------------------------------
(* The resolved options.                                                    *)

\* Whichever fields the decorators give, a method has a window and a limit, both at
\* least 1.
LEMMA OptionsType ==
    ASSUME NEW m \in Methods
    PROVE  ResolveOptions(m).windowMs \in Nat \ {0} /\ ResolveOptions(m).max \in Nat \ {0}
  BY RateAssumption DEF ResolveOptions

\* Math.ceil: the seconds announced are no shorter than the time left.
LEMMA CeilingCovers ==
    ASSUME NEW n \in Nat, NEW S \in Nat \ {0}
    PROVE  /\ (n + S - 1) \div S \in Nat
           /\ ((n + S - 1) \div S) * S \in Nat
           /\ ((n + S - 1) \div S) * S >= n
<1> DEFINE m == n + S - 1
           q == m \div S
<1>1. m \in Nat /\ m - S = n - 1
  OBVIOUS
<1> HIDE DEF m
<1>2. q \in Nat /\ q * S \in Nat /\ m - S < q * S
  BY <1>1
<1> QED
  BY <1>1, <1>2 DEF m

\* Window and limit of a key.
LEMMA KeyOptions ==
    ASSUME NEW k \in Keys
    PROVE  k.method \in Methods /\ Window(k) \in Nat \ {0} /\ Limit(k) \in Nat \ {0}
<1>1. k.method \in Methods
  BY DEF Keys, BuildKey, Calls
<1> QED
  BY <1>1, OptionsType DEF Window, Limit

-----------------------------------------------------------------------------
(* Counters.                                                                *)

\* Succession is transitive.
LEMMA LaterTransitive ==
    ASSUME NEW k \in Keys, NEW c \in Counter, NEW d \in Counter, NEW e \in Counter,
           Later(k, c, d), Later(k, d, e)
    PROVE  Later(k, c, e)
<1>1. /\ c.windowStart \in Nat /\ d.windowStart \in Nat /\ e.windowStart \in Nat
      /\ c.count \in Nat /\ d.count \in Nat /\ e.count \in Nat
      /\ Window(k) \in Nat
  BY KeyOptions, RateAssumption DEF Counter, Times
<1> QED
  BY <1>1 DEF Later

\* The counter after a request: its window holds the present, it succeeds the
\* counter there was, and it has counted one request when that was over.
LEMMA CountedFacts ==
    ASSUME RateInv, NEW k \in Keys, Counted(k).count <= MaxCount
    PROVE  LET s == Counted(k) IN
           /\ s \in Counter
           /\ s.windowStart <= clock /\ clock < s.windowStart + Window(k)
           /\ counters[k] # Null => Later(k, counters[k], s)
           /\ counters[k] = Null => s.count = 1 /\ s.windowStart = clock
           /\ (counters[k] # Null /\ counters[k].windowStart + Window(k) <= clock) => s.count = 1
<1> DEFINE s == Counted(k)
           c == counters[k]
           w == Window(k)
           start == c.windowStart
           n == c.count
<1>1. /\ clock \in 0 .. MaxTime /\ MaxTime \in Nat /\ MaxCount \in Nat
      /\ w \in Nat \ {0}
      /\ c \in Counter \cup {Null}
  BY KeyOptions, RateAssumption DEF RateInv, Shapes, Times
<1>2. c # Null => start \in 0 .. MaxTime /\ start <= clock /\ n \in 1 .. MaxCount
  BY <1>1 DEF RateInv, CounterInv, Counter, Times
<1>3. /\ (c = Null \/ clock - start >= w) => s = [count |-> 1, windowStart |-> clock]
      /\ (c # Null /\ ~(clock - start >= w)) => s = [c EXCEPT !.count = n + 1]
  BY DEF Counted, Window
<1>4. CASE c = Null \/ clock - start >= w
  <2>1. s.count = 1 /\ s.windowStart = clock
    BY <1>3, <1>4
  <2>2. s \in Counter
    BY <1>1, <1>3, <1>4, <2>1 DEF Counter, Times
  <2> HIDE DEF s, c, w, start
  <2>3. c # Null => start + w <= clock
    BY <1>1, <1>2, <1>4
  <2>4. clock <= clock /\ clock < clock + w
    BY <1>1
  <2> USE DEF start, c, w
  <2> QED
    BY <2>1, <2>2, <2>3, <2>4 DEF Later, s
<1>5. CASE c # Null /\ ~(clock - start >= w)
  <2>1. c \in Counter
    BY <1>1, <1>5
  <2>2. s.count = n + 1 /\ s.windowStart = start
    BY <1>3, <1>5, <2>1 DEF Counter
  <2>3. n + 1 \in 1 .. MaxCount
    <3>1. n + 1 <= MaxCount
      BY <2>2
    <3> HIDE DEF n
    <3> QED
      BY <1>1, <1>2, <1>5, <3>1
  <2>4. s \in Counter
    <3>1. s = [c EXCEPT !.count = n + 1]
      BY <1>3, <1>5
    <3> HIDE DEF n, s, c
    <3> QED
      BY <2>1, <2>3, <3>1 DEF Counter
  <2>5. start <= clock /\ clock < start + w /\ n < n + 1
    <3> HIDE DEF n, start, w
    <3> QED
      BY <1>1, <1>2, <1>5
  <2>6. ~(start + w <= clock)
    <3> HIDE DEF n, start, w
    <3> QED
      BY <1>1, <1>2, <1>5
  <2> QED
    BY <1>5, <2>2, <2>4, <2>5, <2>6 DEF Later
<1> QED
  BY <1>4, <1>5

-----------------------------------------------------------------------------
(* The steps.                                                               *)

\* The numbers in an entry of the log.
LEMMA EntryFacts ==
    ASSUME RateInv, NEW k \in Keys
    PROVE  /\ admitted[k] \in Seq(Entry)
           /\ Len(admitted[k]) \in Nat /\ DOMAIN admitted[k] = 1 .. Len(admitted[k])
           /\ \A i \in 1 .. Len(admitted[k]) :
                 /\ admitted[k][i] \in Entry
                 /\ admitted[k][i].at \in Nat /\ admitted[k][i].restarts \in Nat
                 /\ admitted[k][i].counter \in Counter
                 /\ admitted[k][i].counter.windowStart \in Nat
                 /\ admitted[k][i].counter.count \in 1 .. MaxCount
<1>1. admitted[k] \in Seq(Entry)
  BY DEF RateInv, Shapes
<1>2. /\ Len(admitted[k]) \in Nat /\ DOMAIN admitted[k] = 1 .. Len(admitted[k])
      /\ \A i \in 1 .. Len(admitted[k]) : admitted[k][i] \in Entry
  BY <1>1, LenProperties, ElementOfSeq
<1>3. \A e \in Entry : /\ e.at \in Nat /\ e.restarts \in Nat /\ e.counter \in Counter
                       /\ e.counter.windowStart \in Nat /\ e.counter.count \in 1 .. MaxCount
  BY RateAssumption DEF Entry, Counter, Times
<1> QED
  BY <1>1, <1>2, <1>3

\* No request has come.
LEMMA InitInv == Init => RateInv
<1> SUFFICES ASSUME Init PROVE RateInv
  OBVIOUS
<1>1. Shapes
  <2>1. <<>> \in Seq(Entry)
    BY EmptySeq
  <2>2. clock \in Times /\ restarts \in 0 .. MaxRestarts
    BY RateAssumption DEF Init, Times
  <2> QED
    BY <2>1, <2>2 DEF Init, Shapes
<1>2. \A k \in Keys : Len(admitted[k]) = 0 /\ counters[k] = Null /\ header[k] = Null
  BY EmptySeq DEF Init
<1>3. \A k \in Keys : LogInv(k) /\ CounterInv(k) /\ HeaderInv(k)
  BY <1>2 DEF LogInv, CounterInv, HeaderInv
<1> QED
  BY <1>1, <1>3 DEF RateInv

\* The clock moves.
LEMMA TickStep ==
    ASSUME RateInv, Tick
    PROVE  RateInv'
<1>1. /\ clock' = clock + 1 /\ clock < MaxTime
      /\ UNCHANGED <<counters, admitted, header, restarts>>
  BY DEF Tick
<1>2. clock \in Nat /\ clock \in 0 .. MaxTime /\ MaxTime \in Nat
  BY RateAssumption DEF RateInv, Shapes, Times
<1>3. clock' \in 0 .. MaxTime /\ \A n \in Nat : n <= clock => n <= clock'
  BY <1>1, <1>2
<1>4. Shapes'
  BY <1>1, <1>3 DEF RateInv, Shapes, Times
<1>5. ASSUME NEW k \in Keys PROVE LogInv(k)' /\ CounterInv(k)' /\ HeaderInv(k)'
  <2>1. LogInv(k) /\ CounterInv(k) /\ HeaderInv(k)
    BY DEF RateInv
  <2>2. \A i \in 1 .. Len(admitted[k]) : WithinWindow(k, admitted[k][i])'
    BY <1>1, <1>3, <2>1, EntryFacts DEF LogInv, WithinWindow
  <2>3. LogInv(k)'
    BY <1>1, <2>1, <2>2 DEF LogInv, CountedBy
  <2>4. counters[k] # Null => counters[k].windowStart \in Nat
    BY RateAssumption DEF RateInv, Shapes, Counter, Times
  <2>5. CounterInv(k)' /\ HeaderInv(k)'
    BY <1>1, <1>3, <2>1, <2>4 DEF CounterInv, HeaderInv
  <2> QED
    BY <2>3, <2>5
<1> QED
  BY <1>4, <1>5 DEF RateInv

\* The process restarts, and its counters are gone.
LEMMA RestartStep ==
    ASSUME RateInv, Restart
    PROVE  RateInv'
<1>1. /\ restarts' = restarts + 1 /\ restarts < MaxRestarts
      /\ counters' = [k \in Keys |-> Null]
      /\ UNCHANGED <<clock, admitted, header>>
  BY DEF Restart
<1>2. restarts \in 0 .. MaxRestarts /\ MaxRestarts \in Nat
  BY RateAssumption DEF RateInv, Shapes
<1>3. restarts' \in 0 .. MaxRestarts /\ \A n \in Nat : n <= restarts => n < restarts'
  BY <1>1, <1>2
<1>4. Shapes'
  BY <1>1, <1>3 DEF RateInv, Shapes
<1>5. ASSUME NEW k \in Keys PROVE LogInv(k)' /\ CounterInv(k)' /\ HeaderInv(k)'
  <2>1. LogInv(k) /\ HeaderInv(k)
    BY DEF RateInv
  <2>2. \A i \in 1 .. Len(admitted[k]) : admitted[k][i].restarts < restarts'
    <3> SUFFICES ASSUME NEW i \in 1 .. Len(admitted[k])
                 PROVE  admitted[k][i].restarts < restarts'
      OBVIOUS
    <3> DEFINE n == admitted[k][i].restarts
    <3>1. n \in Nat
      BY EntryFacts
    <3>2. n < restarts \/ n = restarts
      BY <2>1 DEF LogInv, CountedBy
    <3> HIDE DEF n
    <3>3. n < restarts'
      BY <1>2, <1>3, <3>1, <3>2
    <3> QED
      BY <3>3 DEF n
  <2>3. LogInv(k)'
    BY <1>1, <2>1, <2>2 DEF LogInv, CountedBy, WithinWindow
  <2>4. CounterInv(k)' /\ HeaderInv(k)'
    BY <1>1, <2>1 DEF CounterInv, HeaderInv
  <2> QED
    BY <2>3, <2>4
<1> QED
  BY <1>4, <1>5 DEF RateInv

\* The headers of a response to a request of key k.
LEMMA HeaderFacts ==
    ASSUME RateInv, NEW k \in Keys, NEW s \in Counter,
           s.windowStart <= clock, clock < s.windowStart + Window(k)
    PROVE  LET h == [remaining |-> Remaining(k, s), refused |-> Refuses(k, s),
                     until |-> clock + ResetInSeconds(k, s) * Second]
           IN  /\ h \in Header
               /\ h.remaining <= Limit(k)
               /\ h.until >= s.windowStart + Window(k)
               /\ h.refused = (s.count > Limit(k))
<1> DEFINE w == Window(k)
           start == s.windowStart
           n == s.count
           left == w - (clock - start)
           u == clock + ResetInSeconds(k, s) * Second
           rem == Remaining(k, s)
           ref == Refuses(k, s)
<1>1. /\ clock \in Nat /\ Second \in Nat \ {0} /\ w \in Nat \ {0} /\ Limit(k) \in Nat \ {0}
      /\ start \in Nat /\ n \in Nat \ {0}
  BY KeyOptions, RateAssumption DEF RateInv, Shapes, Times, Counter
<1>2. rem \in Nat /\ rem <= Limit(k)
  <2>1. rem = AtLeastZero(Limit(k) - n)
    BY DEF Remaining, Limit
  <2> HIDE DEF rem, n
  <2> QED
    BY <1>1, <2>1 DEF AtLeastZero
<1>3. ref \in BOOLEAN /\ ref = (n > Limit(k))
  BY DEF Refuses, Limit
<1>4. u \in Nat /\ u >= start + w
  <2>1. ResetInSeconds(k, s) = (AtLeastZero(left) + Second - 1) \div Second
    BY DEF ResetInSeconds, Window
  <2> HIDE DEF w, start
  <2>2. left \in Nat /\ clock + left = start + w
    BY <1>1 DEF w, start
  <2>3. AtLeastZero(left) = left
    BY <2>2 DEF AtLeastZero
  <2> HIDE DEF left
  <2> DEFINE d == ((left + Second - 1) \div Second) * Second
  <2>4. d \in Nat /\ d >= left
    BY <1>1, <2>2, CeilingCovers
  <2>5. u = clock + d
    BY <2>1, <2>3
  <2> HIDE DEF d, u
  <2> QED
    BY <1>1, <2>2, <2>4, <2>5
<1> HIDE DEF rem, ref, u
<1>5. LET h == [remaining |-> rem, refused |-> ref, until |-> u]
      IN  /\ h \in Header /\ h.remaining = rem /\ h.until = u /\ h.refused = ref
  BY <1>2, <1>3, <1>4 DEF Header
<1> USE DEF rem, ref, u
<1> QED
  BY <1>2, <1>3, <1>4, <1>5

\* What was let through before a restart came before a window that succeeds the
\* present one, and before one that opens now.
LEMMA LogBefore ==
    ASSUME RateInv, NEW k \in Keys, NEW s \in Counter,
           counters[k] # Null => Later(k, counters[k], s),
           counters[k] = Null => s.windowStart = clock,
           NEW i \in 1 .. Len(admitted[k]), admitted[k][i].at <= clock,
           counters[k] # Null => admitted[k][i].at <= counters[k].windowStart
    PROVE  admitted[k][i].at <= s.windowStart
<1>1. /\ admitted[k][i].at \in Nat /\ s.windowStart \in Nat /\ Window(k) \in Nat
      /\ counters[k] # Null => counters[k].windowStart \in Nat
  BY EntryFacts, KeyOptions, RateAssumption DEF Counter, Times, RateInv, Shapes
<1>2. counters[k] # Null => counters[k].windowStart <= s.windowStart
  BY <1>1 DEF Later
<1> QED
  BY <1>1, <1>2

\* A request that is let through is the latest in the log.
LEMMA AppendLog ==
    ASSUME RateInv, NEW k \in Keys, NEW s \in Counter, s = Counted(k), s.count <= Limit(k),
           s.windowStart <= clock, clock < s.windowStart + Window(k),
           counters[k] # Null => Later(k, counters[k], s),
           counters[k] = Null => s.windowStart = clock,
           counters'[k] = s, UNCHANGED <<clock, restarts>>,
           admitted'[k] = Append(admitted[k], [at |-> clock, counter |-> s, restarts |-> restarts])
    PROVE  admitted'[k] \in Seq(Entry) /\ LogInv(k)'
<1>1. PICK L \in Seq(Entry) : L = admitted[k]
  BY EntryFacts
<1>2. PICK e \in Entry : e = [at |-> clock, counter |-> s, restarts |-> restarts]
  BY DEF Entry, RateInv, Shapes
<1>3. PICK n \in Nat : n = Len(L)
  BY <1>1, EntryFacts
<1>4. e.at = clock /\ e.counter = s /\ e.restarts = restarts
  BY <1>2
<1>5. \A i \in 1 .. n : L[i].counter \in Counter
  BY <1>1, <1>3, EntryFacts
<1>6. /\ Append(L, e) \in Seq(Entry) /\ Len(Append(L, e)) = n + 1
      /\ \A i \in 1 .. n : Append(L, e)[i] = L[i]
      /\ Append(L, e)[n + 1] = e
  BY <1>3, AppendProperties
<1>7. admitted'[k] = Append(L, e)
  BY <1>1, <1>2
<1>8. s # Null
  BY NoCounter
<1>9. \A i \in 1 .. n : WithinWindow(k, L[i]) /\ CountedBy(k, L[i])
  BY <1>1, <1>3 DEF RateInv, LogInv
<1>10. \A i, j \in 1 .. n : i < j => Follows(k, L[i], L[j])
  BY <1>1, <1>3 DEF RateInv, LogInv
<1>11. \A i \in 1 .. n : WithinWindow(k, L[i])' /\ CountedBy(k, L[i])' /\ Follows(k, L[i], e)
  <2> SUFFICES ASSUME NEW i \in 1 .. n
               PROVE  WithinWindow(k, L[i])' /\ CountedBy(k, L[i])' /\ Follows(k, L[i], e)
    OBVIOUS
  <2>1. WithinWindow(k, L[i])'
    BY <1>9 DEF WithinWindow
  <2>2. CASE L[i].restarts < restarts
    <3>1. L[i].at <= clock
      BY <1>9 DEF WithinWindow
    <3>2. counters[k] # Null => L[i].at <= counters[k].windowStart
      <4>1. L[i].restarts \in Nat /\ restarts \in Nat
        BY <1>1, <1>3, EntryFacts, RateAssumption DEF RateInv, Shapes
      <4>2. L[i].restarts # restarts
        BY <2>2, <4>1
      <4> QED
        BY <1>9, <4>2 DEF CountedBy
    <3>3. L[i].at <= s.windowStart
      BY <1>1, <1>3, <3>1, <3>2, LogBefore
    <3>4. CountedBy(k, L[i])'
      BY <2>2, <3>3 DEF CountedBy
    <3> QED
      BY <1>4, <2>1, <2>2, <3>3, <3>4 DEF Follows
  <2>3. CASE ~(L[i].restarts < restarts)
    <3>1. /\ L[i].restarts = restarts /\ counters[k] # Null
          /\ counters[k] = L[i].counter \/ Later(k, L[i].counter, counters[k])
      BY <1>9, <2>3 DEF CountedBy
    <3>2. counters[k] \in Counter
      BY <3>1 DEF RateInv, Shapes
    <3>3. Later(k, L[i].counter, s)
      BY <1>5, <3>1, <3>2, LaterTransitive
    <3>4. CountedBy(k, L[i])'
      BY <1>8, <3>1, <3>3 DEF CountedBy
    <3> QED
      BY <1>4, <2>1, <3>1, <3>3, <3>4 DEF Follows
  <2> QED
    BY <2>2, <2>3
<1>12. WithinWindow(k, e)' /\ CountedBy(k, e)'
  <2>1. clock \in Nat
    BY RateAssumption DEF RateInv, Shapes, Times
  <2> QED
    BY <1>4, <1>8, <2>1 DEF WithinWindow, CountedBy
<1>13. \A i \in 1 .. n + 1 : i = n + 1 \/ i \in 1 .. n
  BY <1>3
<1>14. \A i, j \in 1 .. n + 1 : i < j => i \in 1 .. n
  BY <1>3
<1>15. PICK M \in Seq(Entry) : M = Append(L, e)
  BY <1>6
<1>16. \A i \in 1 .. n + 1 : WithinWindow(k, M[i])' /\ CountedBy(k, M[i])'
  BY <1>6, <1>11, <1>12, <1>13, <1>15
<1>17. \A i, j \in 1 .. n + 1 : i < j => Follows(k, M[i], M[j])
  BY <1>6, <1>10, <1>11, <1>13, <1>14, <1>15
<1>18. Len(M) = n + 1
  BY <1>6, <1>15
<1> QED
  BY <1>7, <1>15, <1>16, <1>17, <1>18 DEF LogInv

\* A request is counted, and let through or refused.
LEMMA InterceptStep ==
    ASSUME RateInv, NEW c \in Calls, Intercept(c)
    PROVE  /\ RateInv'
           /\ \A k \in Keys \ {BuildKey(c)} : counters'[k] = counters[k]
           /\ LET k == BuildKey(c)
                  s == Counted(k)
              IN  /\ k \in Keys /\ s.count <= MaxCount
                  /\ header'[k].refused = (s.count > Limit(k))
<1>1. PICK k \in Keys : k = BuildKey(c)
  BY DEF Keys
<1>2. /\ Counted(k).count <= MaxCount
  BY <1>1 DEF Intercept
<1>3. PICK s \in Counter : s = Counted(k)
  BY <1>2, CountedFacts
<1>4. /\ s.windowStart <= clock /\ clock < s.windowStart + Window(k)
      /\ counters[k] # Null => Later(k, counters[k], s)
      /\ counters[k] = Null => s.windowStart = clock
  BY <1>2, <1>3, CountedFacts
<1>5. PICK h \in Header :
          h = [remaining |-> Remaining(k, s), refused |-> Refuses(k, s),
               until |-> clock + ResetInSeconds(k, s) * Second]
  BY <1>4, HeaderFacts
<1>6. /\ h.remaining <= Limit(k) /\ h.until >= s.windowStart + Window(k)
      /\ h.refused = (s.count > Limit(k))
  BY <1>4, <1>5, HeaderFacts
<1>7. /\ counters' = [counters EXCEPT ![k] = s]
      /\ header' = [header EXCEPT ![k] = h]
      /\ UNCHANGED <<clock, restarts>>
      /\ Refuses(k, s) => admitted' = admitted
      /\ ~Refuses(k, s) => admitted' = [admitted EXCEPT ![k] = Append(admitted[k],
             [at |-> clock, counter |-> s, restarts |-> restarts])]
  BY <1>1, <1>3, <1>5 DEF Intercept
<1>8. /\ counters \in [Keys -> Counter \cup {Null}] /\ header \in [Keys -> Header \cup {Null}]
      /\ admitted \in [Keys -> Seq(Entry)]
  BY DEF RateInv, Shapes
<1>9. /\ counters' \in [Keys -> Counter \cup {Null}] /\ counters'[k] = s
      /\ \A x \in Keys \ {k} : counters'[x] = counters[x]
      /\ header' \in [Keys -> Header \cup {Null}] /\ header'[k] = h
      /\ \A x \in Keys \ {k} : header'[x] = header[x]
  BY <1>7, <1>8
<1>10. s # Null
  BY NoCounter
<1>11. admitted' \in [Keys -> Seq(Entry)] /\ LogInv(k)' /\ \A x \in Keys \ {k} : admitted'[x] = admitted[x]
  <2>1. CASE Refuses(k, s)
    <3>1. admitted' = admitted
      BY <1>7, <2>1
    <3>2. \A i \in 1 .. Len(admitted[k]) : CountedBy(k, admitted[k][i])'
      <4> SUFFICES ASSUME NEW i \in 1 .. Len(admitted[k])
                   PROVE  CountedBy(k, admitted[k][i])'
        BY <3>1
      <4>1. PICK e \in Entry : e = admitted[k][i] /\ e.counter \in Counter
        BY EntryFacts
      <4>2. WithinWindow(k, e) /\ CountedBy(k, e)
        BY <4>1 DEF RateInv, LogInv
      <4>3. CASE e.restarts < restarts
        <5>1. e.at <= clock
          BY <4>2 DEF WithinWindow
        <5>2. counters[k] # Null => e.at <= counters[k].windowStart
          <6>1. e.restarts \in Nat /\ restarts \in Nat
            BY RateAssumption DEF RateInv, Shapes, Entry
          <6>2. e.restarts # restarts
            BY <4>3, <6>1
          <6> QED
            BY <4>2, <6>2 DEF CountedBy
        <5>3. e.at <= s.windowStart
          BY <1>4, <4>1, <5>1, <5>2, LogBefore
        <5> QED
          BY <1>7, <1>9, <3>1, <4>1, <4>3, <5>3 DEF CountedBy
      <4>4. CASE ~(e.restarts < restarts)
        <5>1. /\ e.restarts = restarts /\ counters[k] # Null
              /\ counters[k] = e.counter \/ Later(k, e.counter, counters[k])
          BY <4>2, <4>4 DEF CountedBy
        <5>2. counters[k] \in Counter
          BY <1>8, <5>1
        <5>3. Later(k, e.counter, s)
          BY <1>4, <4>1, <5>1, <5>2, LaterTransitive
        <5> QED
          BY <1>7, <1>9, <1>10, <3>1, <4>1, <5>1, <5>3 DEF CountedBy
      <4> QED
        BY <4>3, <4>4
    <3> QED
      BY <1>7, <1>8, <3>1, <3>2 DEF RateInv, LogInv, WithinWindow
  <2>2. CASE ~Refuses(k, s)
    <3>1. s.count <= Limit(k)
      <4>1. s.count \in Nat /\ Limit(k) \in Nat
        BY KeyOptions, RateAssumption DEF Counter
      <4> QED
        BY <2>2, <4>1 DEF Refuses, Limit
    <3>2. admitted'[k] = Append(admitted[k], [at |-> clock, counter |-> s, restarts |-> restarts])
      BY <1>7, <1>8, <2>2
    <3>3. admitted'[k] \in Seq(Entry) /\ LogInv(k)'
      BY <1>3, <1>4, <1>7, <1>9, <3>1, <3>2, AppendLog
    <3> QED
      BY <1>7, <1>8, <2>2, <3>2, <3>3
  <2> QED
    BY <2>1, <2>2
<1>12. CounterInv(k)' /\ HeaderInv(k)'
  BY <1>4, <1>6, <1>7, <1>9 DEF CounterInv, HeaderInv
<1>13. \A x \in Keys \ {k} : LogInv(x)' /\ CounterInv(x)' /\ HeaderInv(x)'
  <2> SUFFICES ASSUME NEW x \in Keys \ {k} PROVE LogInv(x)' /\ CounterInv(x)' /\ HeaderInv(x)'
    OBVIOUS
  <2>1. LogInv(x) /\ CounterInv(x) /\ HeaderInv(x)
    BY DEF RateInv
  <2>2. LogInv(x)'
    BY <1>7, <1>9, <1>11, <2>1 DEF LogInv, WithinWindow, CountedBy
  <2> QED
    BY <1>7, <1>9, <2>1, <2>2 DEF CounterInv, HeaderInv
<1>14. Shapes'
  BY <1>7, <1>9, <1>11 DEF RateInv, Shapes
<1>15. RateInv'
  BY <1>11, <1>12, <1>13, <1>14 DEF RateInv
<1> QED
  BY <1>1, <1>2, <1>3, <1>6, <1>9, <1>15

\* Every step preserves the invariant.
LEMMA StepInv == RateInv /\ [Next]_vars => RateInv'
<1> SUFFICES ASSUME RateInv, [Next]_vars PROVE RateInv'
  OBVIOUS
<1>1. CASE \E c \in Calls : Intercept(c)
  BY <1>1, InterceptStep
<1>2. CASE Tick
  BY <1>2, TickStep
<1>3. CASE Restart
  BY <1>3, RestartStep
<1>4. CASE UNCHANGED vars
  BY <1>4 DEF vars, RateInv, Shapes, LogInv, CounterInv, HeaderInv, WithinWindow, CountedBy
<1> QED
  BY <1>1, <1>2, <1>3, <1>4 DEF Next

-----------------------------------------------------------------------------
(* The limit.                                                               *)

\* A request has counted at least itself.
LEMMA CountIsNat == \A n \in 1 .. MaxCount : n \in Nat /\ n # 0
  BY RateAssumption

\* Of two requests let through within the length of one window, the windows they
\* were counted in both began before it or neither did, and the process had not
\* restarted between the two windows that began in it: then their counts differ.
LEMMA CountsDiffer ==
    ASSUME RateInv, NEW k \in Keys, NEW t \in Nat,
           NEW i \in 1 .. Len(admitted[k]), NEW j \in 1 .. Len(admitted[k]), i < j,
           admitted[k][i].at >= t, admitted[k][j].at >= t,
           admitted[k][i].at < t + Window(k), admitted[k][j].at < t + Window(k),
           \/ admitted[k][i].counter.windowStart < t /\ admitted[k][j].counter.windowStart < t
           \/ /\ admitted[k][i].counter.windowStart >= t
              /\ admitted[k][i].restarts = admitted[k][j].restarts
    PROVE  admitted[k][i].counter.count # admitted[k][j].counter.count
<1>1. PICK e \in Entry : e = admitted[k][i]
  BY EntryFacts
<1>2. PICK f \in Entry : f = admitted[k][j]
  BY EntryFacts
<1>3. WithinWindow(k, e) /\ WithinWindow(k, f) /\ Follows(k, e, f)
  BY <1>1, <1>2 DEF RateInv, LogInv
<1> DEFINE w == Window(k)
           a == e.at   ra == e.restarts   sa == e.counter.windowStart   ca == e.counter.count
           b == f.at   rb == f.restarts   sb == f.counter.windowStart   cb == f.counter.count
<1>4. a \in Nat /\ ra \in Nat /\ sa \in Nat /\ ca \in Nat
  BY <1>1, EntryFacts, CountIsNat
<1>5. b \in Nat /\ rb \in Nat /\ sb \in Nat /\ cb \in Nat /\ w \in Nat
  BY <1>2, EntryFacts, CountIsNat, KeyOptions
<1>6. sa <= a /\ a < sa + w /\ sb <= b /\ b < sb + w
  BY <1>3 DEF WithinWindow
<1>7. \/ ra < rb /\ a <= sb
      \/ ra = rb /\ ((sa = sb /\ ca < cb) \/ sa + w <= sb)
  BY <1>3 DEF Follows, Later
<1>8. /\ a >= t /\ b >= t /\ a < t + w /\ b < t + w
      /\ (sa < t /\ sb < t) \/ (sa >= t /\ ra = rb)
  BY <1>1, <1>2
<1>9. ca # cb
  <2> HIDE DEF w, a, ra, sa, ca, b, rb, sb, cb
  <2> QED
    BY <1>4, <1>5, <1>6, <1>7, <1>8
<1> QED
  BY <1>1, <1>2, <1>9

\* The requests let through within the length of one window inject into as many
\* limits as there are processes, and one more for the window before.
LEMMA BurstBounded ==
    ASSUME RateInv, NEW k \in Keys, NEW t \in Times
    PROVE  AdmittedFrom(k, t) <= (2 + restarts) * Limit(k)
<1>1. PICK L \in Seq(Entry) : L = admitted[k]
  BY EntryFacts
<1>2. PICK r \in Nat : r = restarts
  BY RateAssumption DEF RateInv, Shapes
<1>3. PICK w \in Nat : w = Window(k)
  BY KeyOptions
<1>4. PICK m \in Nat \ {0} : m = Limit(k)
  BY KeyOptions
<1>5. t \in Nat
  BY RateAssumption DEF Times
<1> DEFINE I == {i \in 1 .. Len(L) : L[i].at >= t /\ L[i].at < t + w}
           Place(i) == IF L[i].counter.windowStart < t THEN -1 ELSE L[i].restarts
           A == -1 .. r
           B == 1 .. m
           f == [i \in I |-> <<Place(i), L[i].counter.count>>]
<1>6. AdmittedFrom(k, t) = Cardinality(I)
  BY <1>1, <1>3 DEF AdmittedFrom, Window
<1>7. ASSUME NEW i \in I PROVE Place(i) \in A /\ L[i].counter.count \in B
  <2>1. i \in 1 .. Len(L)
    OBVIOUS
  <2>2. /\ L[i].restarts \in Nat /\ L[i].counter.count \in Nat \ {0}
        /\ L[i].counter.windowStart \in Nat
    BY <1>1, <2>1, EntryFacts, CountIsNat
  <2>3. L[i].restarts < r \/ L[i].restarts = r
    BY <1>1, <1>2, <2>1 DEF RateInv, LogInv, CountedBy
  <2>4. L[i].counter.count <= m
    BY <1>1, <1>4, <2>1 DEF RateInv, LogInv, WithinWindow
  <2> QED
    BY <1>2, <1>4, <2>2, <2>3, <2>4
<1>8. ASSUME NEW i \in I, NEW j \in I, i < j, Place(i) = Place(j)
      PROVE  L[i].counter.count # L[j].counter.count
  <2>1. i \in 1 .. Len(L) /\ j \in 1 .. Len(L)
    OBVIOUS
  <2>2. /\ L[i].restarts \in Nat /\ L[i].counter.windowStart \in Nat
        /\ L[j].restarts \in Nat /\ L[j].counter.windowStart \in Nat
    BY <1>1, <2>1, EntryFacts
  <2>3. \/ L[i].counter.windowStart < t /\ L[j].counter.windowStart < t
        \/ L[i].counter.windowStart >= t /\ L[i].restarts = L[j].restarts
    BY <1>5, <1>8, <2>2
  <2>4. L[i].at >= t /\ L[j].at >= t /\ L[i].at < t + w /\ L[j].at < t + w
    OBVIOUS
  <2> HIDE DEF I, Place
  <2> QED
    BY <1>1, <1>3, <1>5, <1>8, <2>1, <2>3, <2>4, CountsDiffer
<1>9. I \subseteq Nat
  BY <1>1, EntryFacts
<1> HIDE DEF I, Place
<1>10. f \in [I -> A \X B]
  BY <1>7
<1>11. \A i, j \in I : f[i] = f[j] => i = j
  <2> SUFFICES ASSUME NEW i \in I, NEW j \in I, f[i] = f[j], i # j PROVE FALSE
    OBVIOUS
  <2>1. Place(i) = Place(j) /\ L[i].counter.count = L[j].counter.count
    OBVIOUS
  <2>2. i < j \/ j < i
    BY <1>9
  <2> QED
    BY <1>8, <2>1, <2>2
<1> HIDE DEF f
<1>12. f \in Injection(I, A \X B)
  BY <1>10, <1>11 DEF Injection, IsInjective
<1>13. IsFiniteSet(A) /\ Cardinality(A) = r + 2
  BY FS_Interval
<1>14. IsFiniteSet(B) /\ Cardinality(B) = m
  BY FS_Interval
<1> HIDE DEF A, B
<1>15. IsFiniteSet(A \X B) /\ Cardinality(A \X B) = (r + 2) * m
  BY <1>13, <1>14, FS_Product
<1>16. Cardinality(I) <= Cardinality(A \X B)
  BY <1>12, <1>15, FS_Injection
<1> QED
  BY <1>2, <1>4, <1>6, <1>15, <1>16

-----------------------------------------------------------------------------
(* The theorems.                                                            *)

\* RateInv holds throughout.
THEOREM RateInvariant == Spec => []RateInv
<1>1. Init => RateInv
  BY InitInv
<1>2. RateInv /\ [Next]_vars => RateInv'
  BY StepInv
<1> QED
  BY <1>1, <1>2, PTL DEF Spec

\* Counters and headers have their types: the requests left are announced as a
\* number between 0 and the limit, whatever the decorators give (TypeOK).
THEOREM RateTyped == Spec => []TypeOK
<1>1. RateInv => TypeOK
  <2> SUFFICES ASSUME RateInv PROVE TypeOK
    OBVIOUS
  <2>1. ASSUME NEW k \in Keys, header[k] # Null
        PROVE  /\ header[k].remaining \in 0 .. ResolveOptions(k.method).max
               /\ header[k].until >= 0 /\ header[k].refused \in BOOLEAN
    <3>1. PICK h \in Header : h = header[k] /\ h.remaining <= Limit(k)
      BY <2>1 DEF RateInv, Shapes, HeaderInv
    <3>2. h.remaining \in Nat /\ h.until \in Nat /\ h.refused \in BOOLEAN /\ Limit(k) \in Nat
      BY KeyOptions DEF Header
    <3>3. h.remaining \in 0 .. Limit(k) /\ h.until >= 0
      BY <3>1, <3>2
    <3> QED
      BY <3>1, <3>2, <3>3 DEF Limit
  <2> QED
    BY <2>1 DEF RateInv, Shapes, TypeOK, Entry
<1> QED
  BY <1>1, RateInvariant, PTL

\* Wherever a window is laid over time, the interceptor lets through no more than
\* twice the limit of a key in it, and one limit more for every restart, whatever
\* requests of whatever principals come when (BoundedBurst).
THEOREM BurstsBounded == Spec => []BoundedBurst
<1>1. RateInv => BoundedBurst
  BY BurstBounded DEF BoundedBurst, Limit
<1> QED
  BY <1>1, RateInvariant, PTL

\* A client that was refused and has waited until the announced reset is let
\* through: the window of the counter there is, if there is one, is over
\* (ResetHonoured).
THEOREM ResetsHonoured == Spec => ResetHonoured
<1> DEFINE Admits(k) ==
        (header[k] # Null /\ header[k].refused /\ clock >= header[k].until
            /\ counters'[k] # Null /\ counters'[k] # counters[k])
                => ~header'[k].refused
<1>1. RateInv /\ [Next]_vars => [\A k \in Keys : Admits(k)]_vars
  <2> SUFFICES ASSUME RateInv, Next, NEW k \in Keys, header[k] # Null, clock >= header[k].until,
                      counters'[k] # Null, counters'[k] # counters[k]
               PROVE  ~header'[k].refused
    OBVIOUS
  <2>1. ~Tick /\ ~Restart
    BY DEF Tick, Restart
  <2>2. PICK c \in Calls : Intercept(c)
    BY <2>1 DEF Next
  <2>3. k = BuildKey(c)
    BY <2>2, InterceptStep
  <2>4. Counted(k).count <= MaxCount /\ header'[k].refused = (Counted(k).count > Limit(k))
    BY <2>2, <2>3, InterceptStep
  <2>5. Counted(k).count = 1
    <3>1. CASE counters[k] = Null
      BY <2>4, <3>1, CountedFacts
    <3>2. CASE counters[k] # Null
      <4>1. header[k].until >= counters[k].windowStart + Window(k)
        BY <3>2 DEF RateInv, CounterInv
      <4>2. /\ clock \in Nat /\ header[k].until \in Nat
            /\ counters[k].windowStart \in Nat /\ Window(k) \in Nat
        BY <3>2, KeyOptions, RateAssumption DEF RateInv, Shapes, Header, Counter, Times
      <4>3. counters[k].windowStart + Window(k) <= clock
        BY <4>1, <4>2
      <4> QED
        BY <2>4, <3>2, <4>3, CountedFacts
    <3> QED
      BY <3>1, <3>2
  <2>6. ~(1 > Limit(k))
    BY KeyOptions
  <2> QED
    BY <2>4, <2>5, <2>6
<1> QED
  BY <1>1, RateInvariant, PTL DEF Spec, ResetHonoured

=============================================================================
