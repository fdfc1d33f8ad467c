---------------------------- MODULE Capture_proofs ----------------------------
(***************************************************************************)
(* Proofs about CaptureStream and the Recorder it feeds, for any listeners *)
(* and requests, any ladder of sizes, any ring and any queue.              *)
(***************************************************************************)
EXTENDS CaptureStream, SequenceTheorems, TLAPS

-----------------------------------------------------------------------------
(* Remainders                                                              *)

LEMMA DivMod ==
  ASSUME NEW a \in Nat, NEW n \in Nat \ {0}
  PROVE  /\ a % n \in 0..(n - 1)
         /\ a \div n \in Nat
         /\ a = n * (a \div n) + (a % n)
OBVIOUS

LEMMA NextMultiple ==
  ASSUME NEW n \in Nat \ {0}, NEW p \in Nat, NEW q \in Nat, p < q
  PROVE  n * p + n <= n * q
<1>1. n * q = n * (p + 1) + n * (q - p - 1)
  OBVIOUS
<1>2. n * (q - p - 1) >= 0
  OBVIOUS
<1>3. n * (p + 1) = n * p + n
  OBVIOUS
<1>4. n * p \in Int /\ n * q \in Int
  OBVIOUS
<1>5. QED
  BY <1>1, <1>2, <1>3, <1>4

LEMMA SmallRemainder ==
  ASSUME NEW n \in Nat \ {0}, NEW m \in 0..(n - 1)
  PROVE  m % n = m
OBVIOUS

LEMMA Remainder ==
  ASSUME NEW n \in Nat \ {0}, NEW q \in Nat, NEW i \in 0..(n - 1)
  PROVE  (n * q + i) % n = i
<1> DEFINE a == n * q + i
<1>1. a \in Nat
  OBVIOUS
<1>2. /\ a % n \in 0..(n - 1)
      /\ a \div n \in Nat
      /\ a = n * (a \div n) + (a % n)
  BY <1>1, DivMod
<1>3. ~(q < a \div n)
  BY <1>2, NextMultiple
<1>4. ~(a \div n < q)
  BY <1>2, NextMultiple
<1>5. QED
  BY <1>2, <1>3, <1>4

\* Two numbers with one remainder are at least the divisor apart.
LEMMA SameRemainder ==
  ASSUME NEW n \in Nat \ {0}, NEW a \in Nat, NEW b \in Nat, a < b, a % n = b % n
  PROVE  a + n <= b
<1> DEFINE p == a \div n
           q == b \div n
           r == a % n
<1>1. p \in Nat /\ q \in Nat /\ r \in 0..(n - 1) /\ a = n * p + r /\ b = n * q + r
  BY DivMod
<1> HIDE DEF p, q, r
<1>2. n * p \in Int /\ n * q \in Int
  BY <1>1
<1>3. p # q /\ ~(q < p)
  BY <1>1, <1>2, NextMultiple
<1>4. n * p + n <= n * q
  BY <1>1, <1>3, NextMultiple
<1>5. QED
  BY <1>1, <1>2, <1>4

\* How far round a circle of n the step s takes one from a, in whole turns.
Turned(n, a, s) == a + s - ((a + s) % n)

LEMMA Turns ==
  ASSUME NEW n \in Nat \ {0}, NEW a \in 0..(n - 1), NEW s \in Nat
  PROVE  LET b == (a + s) % n
             turned == Turned(n, a, s)
         IN
         /\ b \in 0..(n - 1) /\ turned \in Nat /\ turned = a + s - b
         /\ a + s < n => turned = 0
         /\ a + s >= n => turned >= n
         /\ turned # 0 /\ turned # n => turned >= n + n
         /\ \A i \in 0..(n - 1) : (turned + i) % n = i
         /\ turned # 0 => \A i \in 0..(n - 1) : (turned - n + i) % n = i
<1> DEFINE turned == Turned(n, a, s)
           b == (a + s) % n
           e == a + s
           q == e \div n
<1>1. b = e % n
  OBVIOUS
<1>2. e \in Nat
  OBVIOUS
<1>3. q \in Nat /\ b \in 0..(n - 1) /\ e = n * q + b
  BY <1>1, <1>2, DivMod
<1>4. e = a + s /\ turned = a + s - b
  BY DEF Turned
<1> HIDE DEF e, q, b, turned
<1>5. n * q \in Nat /\ turned = n * q
  BY <1>3, <1>4
<1>6. q = 0 => n * q = 0
  BY <1>3
<1>7. q # 0 => n * q >= n
  BY <1>3
<1>8. q # 0 => q - 1 \in Nat /\ n * q = n * (q - 1) + n
  BY <1>3
<1>9. q # 0 /\ n * q # n => n * q >= n + n
  BY <1>3
<1>10. \A i \in 0..(n - 1) : (turned + i) % n = i
  BY <1>3, <1>5, Remainder
<1>11. q # 0 => \A i \in 0..(n - 1) : (turned - n + i) % n = i
  <2>1. SUFFICES ASSUME q # 0, NEW i \in 0..(n - 1) PROVE (turned - n + i) % n = i
    OBVIOUS
  <2>2. (n * (q - 1) + i) % n = i
    BY <1>8, <2>1, Remainder
  <2>3. turned - n = n * (q - 1)
    BY <1>3, <1>5, <1>8, <2>1
  <2>4. QED
    BY <2>2, <2>3
<1>12. /\ turned \in Nat
       /\ q = 0 => turned = 0
       /\ q # 0 => turned >= n
       /\ q # 0 /\ turned # n => turned >= n + n
  BY <1>5, <1>6, <1>7, <1>9
<1>13. a + s < n => q = 0
  BY <1>3, <1>4, <1>5, <1>7
<1>14. a + s >= n => q # 0
  BY <1>3, <1>4, <1>6
<1>15. /\ b \in 0..(n - 1) /\ turned \in Nat /\ turned = a + s - b
       /\ a + s < n => turned = 0
       /\ a + s >= n => turned >= n
       /\ turned # 0 /\ turned # n => turned >= n + n
       /\ \A i \in 0..(n - 1) : (turned + i) % n = i
       /\ turned # 0 => \A i \in 0..(n - 1) : (turned - n + i) % n = i
  BY <1>3, <1>4, <1>10, <1>11, <1>12, <1>13, <1>14
<1>16. QED
  BY <1>15, Zenon DEF b, turned

-----------------------------------------------------------------------------
(* The replay ring                                                         *)

\* What is behind the write position is the end of what was received, and what
\* is before it the stretch that ends there.
RingHolds ==
    /\ full <=> heard >= RingMax
    /\ ~full => at = heard
    /\ \A i \in 0..(at - 1) : ring[i] = heard - at + 1 + i
    /\ \A i \in at..(RingMax - 1) :
           ring[i] = IF full THEN heard - at + 1 + i - RingMax ELSE 0

\* The last of a chunk that lands on a position is the one no full turn precedes.
LEMMA LastLanded ==
  ASSUME RecorderTypeOK, NEW n \in Nat, NEW i \in 0..(RingMax - 1), NEW j \in 1..n,
         (at + j - 1) % RingMax = i, n < j + RingMax
  PROVE  Landed(n, i) # {} /\ Max(Landed(n, i)) = j
<1>1. RingMax \in Nat \ {0} /\ at \in 0..(RingMax - 1)
  BY RecorderAssumption DEF RecorderTypeOK
<1>2. j \in Landed(n, i)
  BY DEF Landed
<1>3. ASSUME NEW k \in Landed(n, i) PROVE k <= j
  <2>1. k \in 1..n /\ (at + k - 1) % RingMax = i
    BY <1>3 DEF Landed
  <2>2. SUFFICES ASSUME j < k PROVE FALSE
    BY <2>1
  <2>3. at + j - 1 \in Nat /\ at + k - 1 \in Nat /\ at + j - 1 < at + k - 1
    BY <1>1, <2>1, <2>2
  <2>4. at + j - 1 + RingMax <= at + k - 1
    BY <1>1, <2>1, <2>3, SameRemainder
  <2>5. QED
    BY <1>1, <2>1, <2>4
<1>4. \A x \in Landed(n, i) : (\A y \in Landed(n, i) : y <= x) => x = j
  BY <1>2, <1>3 DEF Landed
<1>5. QED
  BY <1>2, <1>3, <1>4 DEF Max

LEMMA FillKeepsRing ==
  ASSUME RecorderTypeOK, RingHolds, NEW n \in Nat, FillRing(n)
  PROVE  RingHolds' /\ at' \in 0..(RingMax - 1)
<1>1. RingMax \in Nat \ {0} /\ at \in 0..(RingMax - 1) /\ heard \in Nat /\ full \in BOOLEAN
  BY RecorderAssumption DEF RecorderTypeOK, Units
<1>2. PICK b : b = at'
  OBVIOUS
<1>3. PICK turned : turned = Turned(RingMax, at, n)
  OBVIOUS
<1>4. /\ heard' = heard + n
      /\ full' <=> full \/ at + n >= RingMax
  BY DEF FillRing
<1>5. b = (at + n) % RingMax
  BY <1>2 DEF FillRing
<1>6. n \in Nat /\ at \in 0..(RingMax - 1) /\ RingMax \in Nat \ {0}
  BY <1>1
<1>7. /\ b \in 0..(RingMax - 1) /\ turned \in Nat /\ turned = at + n - b
      /\ at + n < RingMax => turned = 0
      /\ at + n >= RingMax => turned >= RingMax
      /\ turned # 0 /\ turned # RingMax => turned >= RingMax + RingMax
      /\ \A i \in 0..(RingMax - 1) : (turned + i) % RingMax = i
      /\ turned # 0 => \A i \in 0..(RingMax - 1) : (turned - RingMax + i) % RingMax = i
  BY <1>3, <1>5, <1>6, Turns, Zenon
<1>8. /\ b \in 0..(RingMax - 1) /\ turned \in Nat /\ turned = at + n - b
      /\ at + n < RingMax => turned = 0
      /\ at + n >= RingMax => turned >= RingMax
      /\ turned # 0 /\ turned # RingMax => turned >= RingMax + RingMax
  BY <1>7, Zenon
<1>9. ASSUME NEW i \in 0..(RingMax - 1)
      PROVE  /\ (turned + i) % RingMax = i
             /\ turned # 0 => (turned - RingMax + i) % RingMax = i
  BY <1>7, Zenon
\* What a position holds after the chunk, by where it is and how often it turned.
<1>10. ASSUME NEW i \in 0..(RingMax - 1), NEW j \in 1..n,
             (at + j - 1) % RingMax = i, n < j + RingMax
      PROVE  ring'[i] = heard + j
  BY <1>10, LastLanded DEF FillRing, RecorderTypeOK
<1>11. ASSUME NEW i \in 0..(b - 1), turned # 0 \/ at <= i
      PROVE  ring'[i] = heard + n - b + 1 + i
  <2>1. PICK j : j = turned - at + 1 + i
    OBVIOUS
  <2>2. j \in 1..n /\ i \in 0..(RingMax - 1) /\ n < j + RingMax /\ at + j - 1 = turned + i
    BY <1>1, <1>3, <1>8, <1>11, <2>1
  <2>3. (at + j - 1) % RingMax = i
    BY <1>9, <2>2
  <2>4. ring'[i] = heard + j
    BY <1>10, <2>2, <2>3
  <2>5. QED
    BY <1>1, <1>3, <1>8, <2>1, <2>4
<1>12. ASSUME NEW i \in b..(RingMax - 1), turned # 0, turned # RingMax \/ at <= i
      PROVE  ring'[i] = heard + n - b + 1 + i - RingMax
  <2>1. PICK j : j = turned - RingMax - at + 1 + i
    OBVIOUS
  <2>2. j \in 1..n /\ i \in 0..(RingMax - 1) /\ n < j + RingMax
        /\ at + j - 1 = turned - RingMax + i
    BY <1>1, <1>3, <1>8, <1>12, <2>1
  <2>3. (at + j - 1) % RingMax = i
    BY <1>9, <1>12, <2>2
  <2>4. ring'[i] = heard + j
    BY <1>10, <2>2, <2>3
  <2>5. QED
    BY <1>1, <1>3, <1>8, <2>1, <2>4
\* What the chunk does not reach stays as it was.
<1>13. ASSUME NEW i \in 0..(RingMax - 1),
              turned = 0 => i \notin at..(b - 1),
              turned # 0 => turned = RingMax /\ i \in b..(at - 1)
       PROVE  ring'[i] = ring[i]
  <2>1. ASSUME NEW k \in 1..n PROVE (at + k - 1) % RingMax # i
    <3>1. PICK p : p = at + k - 1
      OBVIOUS
    <3>2. p \in Nat /\ p >= at /\ p < turned + b
      BY <1>1, <1>3, <1>8, <3>1
    <3>3. CASE p < RingMax
      <4>1. p \in 0..(RingMax - 1) /\ p # i
        BY <1>1, <1>8, <1>13, <3>2, <3>3
      <4>2. p % RingMax = p
        BY <1>1, <4>1, SmallRemainder
      <4>3. QED
        BY <3>1, <4>1, <4>2
    <3>4. CASE p >= RingMax
      <4>1. PICK m : m = p - RingMax
        OBVIOUS
      <4>2. m \in 0..(RingMax - 1) /\ m # i /\ p = turned + m
        BY <1>1, <1>8, <1>13, <3>2, <3>4, <4>1
      <4>3. p % RingMax = m
        BY <1>9, <4>2
      <4>4. QED
        BY <3>1, <4>2, <4>3
    <3>5. QED
      BY <1>1, <3>2, <3>3, <3>4
  <2>2. QED
    BY <2>1 DEF FillRing, RecorderTypeOK, Landed
<1>14. ASSUME NEW i \in 0..(b - 1) PROVE ring'[i] = heard + n - b + 1 + i
  <2>1. CASE turned # 0 \/ at <= i
    BY <1>11, <2>1
  <2>2. CASE turned = 0 /\ i < at
    <3>1. i \in 0..(at - 1) /\ i \in 0..(RingMax - 1) /\ i \notin at..(b - 1) /\ b = at + n
      BY <1>1, <1>3, <1>8, <2>2
    <3>2. ring'[i] = ring[i]
      BY <1>13, <2>2, <3>1
    <3>3. ring[i] = heard - at + 1 + i
      BY <3>1 DEF RingHolds
    <3>4. QED
      BY <1>1, <3>1, <3>2, <3>3
  <2>3. QED
    BY <1>1, <2>1, <2>2
<1>15. ASSUME full', NEW i \in b..(RingMax - 1)
       PROVE  ring'[i] = heard + n - b + 1 + i - RingMax
  <2>1. CASE turned = 0
    <3>1. full /\ b = at + n
      BY <1>1, <1>3, <1>4, <1>8, <1>15, <2>1
    <3>2. i \in at..(RingMax - 1) /\ i \in 0..(RingMax - 1) /\ i \notin at..(b - 1)
      BY <1>1, <1>8, <3>1
    <3>3. ring'[i] = ring[i]
      BY <1>13, <2>1, <3>2
    <3>4. ring[i] = heard - at + 1 + i - RingMax
      BY <3>1, <3>2 DEF RingHolds
    <3>5. QED
      BY <1>1, <3>1, <3>2, <3>3, <3>4
  <2>2. CASE turned # 0 /\ (turned # RingMax \/ at <= i)
    BY <1>12, <2>2
  <2>3. CASE turned = RingMax /\ i < at
    <3>1. i \in 0..(at - 1) /\ i \in b..(at - 1) /\ i \in 0..(RingMax - 1)
      BY <1>1, <1>8, <2>3
    <3>2. ring'[i] = ring[i]
      BY <1>1, <1>13, <2>3, <3>1
    <3>3. ring[i] = heard - at + 1 + i
      BY <3>1 DEF RingHolds
    <3>4. QED
      BY <1>1, <1>3, <1>8, <2>3, <3>2, <3>3
  <2>4. QED
    BY <1>1, <1>8, <2>1, <2>2, <2>3
<1>16. ASSUME ~full', NEW i \in b..(RingMax - 1) PROVE ring'[i] = 0
  <2>1. turned = 0 /\ b = at + n /\ ~full
    BY <1>1, <1>3, <1>4, <1>8, <1>16
  <2>2. i \in at..(RingMax - 1) /\ i \in 0..(RingMax - 1) /\ i \notin at..(b - 1)
    BY <1>1, <1>8, <2>1
  <2>3. ring'[i] = ring[i]
    BY <1>13, <2>1, <2>2
  <2>4. QED
    BY <2>1, <2>2, <2>3 DEF RingHolds
<1>17. (full' <=> heard + n >= RingMax) /\ (~full' => b = heard + n)
  <2>1. ~full => at = heard
    BY DEF RingHolds
  <2>2. full <=> heard >= RingMax
    BY DEF RingHolds
  <2>3. CASE at + n >= RingMax
    BY <1>1, <1>4, <2>1, <2>2, <2>3
  <2>4. CASE at + n < RingMax
    BY <1>1, <1>3, <1>4, <1>8, <2>1, <2>2, <2>4
  <2>5. QED
    BY <1>1, <2>3, <2>4
<1>18. QED
  <2>1. \A i \in 0..(at' - 1) : ring'[i] = heard' - at' + 1 + i
    <3>1. SUFFICES ASSUME NEW i \in 0..(b - 1) PROVE ring'[i] = (heard + n) - b + 1 + i
      BY <1>2, <1>4, Zenon
    <3>2. QED
      BY <1>1, <1>8, <1>14, <3>1
  <2>2. \A i \in at'..(RingMax - 1) :
           ring'[i] = IF full' THEN heard' - at' + 1 + i - RingMax ELSE 0
    <3>1. SUFFICES ASSUME NEW i \in b..(RingMax - 1)
                   PROVE  ring'[i] = IF full' THEN (heard + n) - b + 1 + i - RingMax ELSE 0
      BY <1>2, <1>4, Zenon
    <3>2. CASE full'
      BY <1>1, <1>8, <1>15, <3>1, <3>2
    <3>3. CASE ~full'
      BY <1>16, <3>1, <3>3
    <3>4. QED
      BY <3>2, <3>3
  <2>3. (full' <=> heard' >= RingMax) /\ (~full' => at' = heard')
    BY <1>2, <1>4, <1>17, Zenon
  <2>4. QED
    BY <1>2, <1>8, <2>1, <2>2, <2>3, Zenon DEF RingHolds

-----------------------------------------------------------------------------
(* The inductive invariant                                                 *)

\* What a file holds is a stretch of what was received; while it is open all of
\* it is counted and it ends at the last unit.
IsStretch(f, h) ==
    /\ f.header <= Len(f.data) /\ f.bytes <= Len(f.data)
    /\ f.from + Len(f.data) <= h
    /\ \A i \in 1..Len(f.data) : f.data[i] = f.from + i
    /\ f.open => f.bytes = Len(f.data) /\ f.from + Len(f.data) = h

\* The header claims all of it unless the disk refused one of the last writes.
IsHeaded(f) == f.whole => f.header = Len(f.data)

FileHolds == IsStretch(file, heard) /\ IsHeaded(file)

\* A device that is open is read in chunks of a size of the ladder, every chunk
\* has a unit at least, and a chunk is fanned out after it was fed.
StreamHolds ==
    /\ handle = "open" => size \in AnySize
    /\ phase = "feed" => size \in AnySize /\ heard + size <= MaxHeard
    /\ published <= heard
    /\ phase = "fan" => published < heard

\* What is queued for a listener came after what it last heard, and in order.
AccountHolds(a, p) ==
    /\ a.settled + Len(a.queue) = p
    /\ a.last <= p
    /\ \A i \in 1..Len(a.queue) : a.last < a.queue[i] /\ a.queue[i] <= p
    /\ \A i, j \in 1..Len(a.queue) : i < j => a.queue[i] < a.queue[j]

ListenersHold ==
    \A l \in Listeners : listener[l] # Away => AccountHolds(listener[l], published)

CaptureInv == TypeOK /\ RingHolds /\ FileHolds /\ StreamHolds /\ ListenersHold

-----------------------------------------------------------------------------
(* The recorder's steps                                                    *)

LEMMA FunctionIsSeq ==
  ASSUME NEW S, NEW n \in Nat, NEW f \in [1..n -> S]
  PROVE  f \in Seq(S) /\ Len(f) = n
<1>1. f \in Seq(S)
  BY SeqDef
<1>2. QED
  BY <1>1, LenProperties

\* A stretch of what was received, and what comes right after it.
Following(k) == [i \in 1..k |-> heard + i]

LEMMA Extended ==
  ASSUME NEW s \in Seq(Units), NEW from \in Nat, NEW k \in Nat, heard \in Nat,
         \A i \in 1..Len(s) : s[i] = from + i,
         from + Len(s) = heard, heard + k <= MaxHeard
  PROVE  /\ s \o Following(k) \in Seq(Units) /\ Len(s \o Following(k)) = Len(s) + k
         /\ \A i \in 1..(Len(s) + k) : (s \o Following(k))[i] = from + i
<1> DEFINE t == Following(k)
<1>1. MaxHeard \in Nat /\ Len(s) \in Nat /\ heard = from + Len(s)
  BY RecorderAssumption
<1>2. t \in Seq(Units) /\ Len(t) = k /\ \A j \in 1..k : t[j] = heard + j
  <2>1. \A j \in 1..k : heard + j \in Units
    BY <1>1 DEF Units
  <2>2. t \in [1..k -> Units]
    BY <2>1 DEF Following
  <2>3. t \in Seq(Units)
    BY <2>2, SeqDef
  <2>4. Len(t) = k
    BY <2>2, <2>3, LenProperties
  <2>5. QED
    BY <2>3, <2>4 DEF Following
<1> HIDE DEF t
<1>3. s \o t \in Seq(Units) /\ Len(s \o t) = Len(s) + k
      /\ \A i \in 1..(Len(s) + k) : (s \o t)[i] = IF i <= Len(s) THEN s[i] ELSE t[i - Len(s)]
  BY <1>2, ConcatProperties
<1>4. ASSUME NEW i \in 1..(Len(s) + k) PROVE (s \o t)[i] = from + i
  <2>1. CASE i <= Len(s)
    BY <1>1, <1>3, <2>1
  <2>2. CASE i > Len(s)
    <3>1. PICK j : j = i - Len(s)
      OBVIOUS
    <3>2. j \in 1..k /\ (s \o t)[i] = t[j]
      BY <1>1, <1>3, <2>2, <3>1
    <3>3. t[j] = from + i
      BY <1>1, <1>2, <3>1, <3>2
    <3>4. QED
      BY <3>2, <3>3
  <2>3. i <= Len(s) \/ i > Len(s)
    BY <1>1
  <2>4. QED
    BY <2>1, <2>2, <2>3
<1>5. QED
  BY <1>3, <1>4 DEF t

\* A header taken or refused keeps what a file is, and a file all of whose units
\* are counted has the header it should.
LEMMA HeaderKeeps ==
  ASSUME NEW f \in Files, NEW h \in Nat, IsStretch(f, h), f.whole => f.bytes = Len(f.data),
         NEW taken \in BOOLEAN, WriteHeader(f, taken)
  PROVE  file' \in Files /\ IsStretch(file', h) /\ IsHeaded(file')
<1>1. PICK g : g = file'
  OBVIOUS
<1>2. CASE taken
  <2>1. g = [f EXCEPT !.header = f.bytes]
    BY <1>1, <1>2 DEF WriteHeader
  <2>2. /\ g.open = f.open /\ g.from = f.from /\ g.data = f.data /\ g.whole = f.whole
        /\ g.bytes = f.bytes /\ g.header = f.bytes /\ g \in Files
    BY <2>1 DEF Files
  <2>3. IsStretch(g, h)
    BY <2>2 DEF IsStretch
  <2>4. IsHeaded(g)
    BY <2>2 DEF IsHeaded
  <2>5. QED
    BY <1>1, <2>2, <2>3, <2>4
<1>3. CASE ~taken
  <2>1. g = [f EXCEPT !.whole = FALSE]
    BY <1>1, <1>3 DEF WriteHeader
  <2>2. /\ g.open = f.open /\ g.from = f.from /\ g.data = f.data /\ g.whole = FALSE
        /\ g.bytes = f.bytes /\ g.header = f.header /\ g \in Files
    BY <2>1 DEF Files
  <2>3. IsStretch(g, h)
    BY <2>2 DEF IsStretch
  <2>4. IsHeaded(g)
    BY <2>2 DEF IsHeaded
  <2>5. QED
    BY <1>1, <2>2, <2>3, <2>4
<1>4. QED
  BY <1>2, <1>3

\* A file that is finished while it is open, or cut short.
LEMMA FinishKeeps ==
  ASSUME NEW f \in Files, NEW h \in Nat, IsStretch(f, h), f.whole => f.bytes = Len(f.data),
         Finish(f)
  PROVE  file' \in Files /\ IsStretch(file', h) /\ IsHeaded(file')
<1>1. PICK taken \in BOOLEAN : WriteHeader([f EXCEPT !.open = FALSE], taken)
  BY DEF Finish
<1>2. PICK e : e = [f EXCEPT !.open = FALSE]
  OBVIOUS
<1>3. /\ e.open = FALSE /\ e.from = f.from /\ e.data = f.data /\ e.whole = f.whole
      /\ e.bytes = f.bytes /\ e.header = f.header /\ e \in Files
  BY <1>2 DEF Files
<1>4. IsStretch(e, h) /\ (e.whole => e.bytes = Len(e.data))
  BY <1>3 DEF IsStretch
<1>5. WriteHeader(e, taken)
  BY <1>1, <1>2, Zenon
<1>6. QED
  BY <1>3, <1>4, <1>5, HeaderKeeps

\* The branches of WriteFile.
LEMMA Written ==
  ASSUME NEW n \in Nat, NEW kept \in 0..n, WriteFile(n, kept),
         file.open \in BOOLEAN, file.bytes \in Nat
  PROVE  \/ ~file.open /\ file' = file
         \/ file.open /\ Finish([file EXCEPT !.whole = TRUE])
         \/ /\ file.open /\ kept < n
            /\ Finish([file EXCEPT !.data = @ \o SubSeq(Chunk(n), 1, kept), !.whole = FALSE])
         \/ /\ file.open /\ kept = n
            /\ \E taken \in BOOLEAN :
                   WriteHeader([file EXCEPT !.data = @ \o Chunk(n), !.bytes = @ + n,
                                            !.whole = TRUE], taken)
<1>1. MaxBytes \in Nat
  BY RecorderAssumption
<1>2. CASE ~file.open
  BY <1>2 DEF WriteFile, Recording
<1>3. CASE file.open /\ file.bytes >= MaxBytes
  <2>1. ~(file.bytes < MaxBytes)
    BY <1>1, <1>3
  <2>2. Finish([file EXCEPT !.whole = TRUE])
    BY <1>3, <2>1, Zenon DEF WriteFile, Recording
  <2>3. QED
    BY <1>3, <2>2
<1>4. CASE file.open /\ file.bytes < MaxBytes /\ kept < n
  <2>1. ~(file.bytes >= MaxBytes)
    BY <1>1, <1>4
  <2>2. Finish([file EXCEPT !.data = @ \o SubSeq(Chunk(n), 1, kept), !.whole = FALSE])
    BY <1>4, <2>1, Zenon DEF WriteFile, Recording
  <2>3. QED
    BY <1>4, <2>2
<1>5. CASE file.open /\ file.bytes < MaxBytes /\ kept = n
  <2>1. ~(file.bytes >= MaxBytes) /\ ~(kept < n)
    BY <1>1, <1>5
  <2>2. \E taken \in BOOLEAN :
           WriteHeader([file EXCEPT !.data = @ \o Chunk(n), !.bytes = @ + n,
                                    !.whole = TRUE], taken)
    BY <1>5, <2>1, Zenon DEF WriteFile, Recording
  <2>3. QED
    BY <1>5, <2>2, Zenon
<1>6. \/ file.bytes >= MaxBytes
      \/ file.bytes < MaxBytes /\ (kept < n \/ kept = n)
  BY <1>1
<1>7. QED
  BY <1>2, <1>3, <1>4, <1>5, <1>6, Zenon

LEMMA FeedKeepsRecorder ==
  ASSUME RecorderTypeOK, RingHolds, FileHolds, UNCHANGED saw,
         NEW n \in Nat \ {0}, NEW kept \in 0..n, heard + n <= MaxHeard, Feed(n, kept)
  PROVE  RecorderTypeOK' /\ RingHolds' /\ FileHolds' /\ heard' = heard + n
<1>1. /\ RingMax \in Nat \ {0} /\ MaxBytes \in Nat /\ MaxHeard \in Nat
      /\ heard \in 0..MaxHeard /\ file \in Files
  BY RecorderAssumption DEF RecorderTypeOK, Units
<1>2. RingHolds' /\ at' \in 0..(RingMax - 1) /\ heard' = heard + n /\ full' \in BOOLEAN
  BY FillKeepsRing DEF Feed, FillRing, RecorderTypeOK
<1>3. ring' \in [0..(RingMax - 1) -> Units]
  <2>1. PICK b : b = at'
    OBVIOUS
  <2>2. PICK h : h = heard'
    OBVIOUS
  <2>3. b \in 0..(RingMax - 1) /\ h \in 0..MaxHeard
    BY <1>1, <1>2, <2>1, <2>2
  <2>4. (full' <=> h >= RingMax) /\ (~full' => b = h)
    BY <1>2, <2>1, <2>2, Zenon DEF RingHolds
  <2>5. b <= h
    BY <1>1, <2>3, <2>4
  <2>6. ASSUME NEW i \in 0..(RingMax - 1) PROVE ring'[i] \in Units
    <3>1. CASE i \in 0..(b - 1)
      <4>1. ring'[i] = h - b + 1 + i
        BY <1>2, <2>1, <2>2, <3>1, Zenon DEF RingHolds
      <4>2. QED
        BY <1>1, <2>3, <2>5, <3>1, <4>1 DEF Units
    <3>2. CASE i \in b..(RingMax - 1)
      <4>1. ring'[i] = IF full' THEN h - b + 1 + i - RingMax ELSE 0
        BY <1>2, <2>1, <2>2, <3>2, Zenon DEF RingHolds
      <4>2. QED
        BY <1>1, <2>3, <2>4, <3>2, <4>1 DEF Units
    <3>3. QED
      BY <1>1, <2>3, <3>1, <3>2
  <2>7. QED
    BY <2>6 DEF FillRing, Feed, RecorderTypeOK
<1>4. ASSUME NEW k \in 0..n, file.open
      PROVE  /\ file.data \o Following(k) \in Seq(Units)
             /\ Len(file.data \o Following(k)) = Len(file.data) + k
             /\ \A i \in 1..(Len(file.data) + k) :
                    (file.data \o Following(k))[i] = file.from + i
  <2>1. /\ file.data \in Seq(Units) /\ file.from \in Nat /\ k \in Nat /\ heard \in Nat
        /\ \A i \in 1..Len(file.data) : file.data[i] = file.from + i
        /\ file.from + Len(file.data) = heard /\ heard + k <= MaxHeard
    BY <1>1, <1>4 DEF FileHolds, IsStretch, Files, Units
  <2>2. QED
    BY <2>1, Extended
<1>5. /\ file.data \in Seq(Units) /\ Len(file.data) \in Nat
      /\ file.from \in 0..MaxHeard /\ file.header \in 0..MaxHeard /\ file.bytes \in 0..MaxHeard
      /\ file.header <= Len(file.data) /\ file.bytes <= Len(file.data)
      /\ file.from + Len(file.data) <= heard
      /\ file.open => file.bytes = Len(file.data) /\ file.from + Len(file.data) = heard
      /\ file.whole => file.header = Len(file.data)
  BY <1>1 DEF Files, Units, FileHolds, IsStretch, IsHeaded
<1>6. \A i \in 1..Len(file.data) : file.data[i] = file.from + i
  BY DEF FileHolds, IsStretch
<1>7. file' \in Files /\ IsStretch(file', heard + n) /\ IsHeaded(file')
  <2>1. WriteFile(n, kept) /\ file.open \in BOOLEAN /\ file.bytes \in Nat /\ heard + n \in Nat
    BY <1>1 DEF Feed, Files, Units
  <2>2. CASE ~file.open /\ file' = file
    <3>1. IsStretch(file, heard + n)
      BY <1>1, <1>5, <1>6, <2>2 DEF IsStretch
    <3>2. QED
      BY <1>1, <2>2, <3>1 DEF FileHolds
  <2>3. CASE file.open /\ Finish([file EXCEPT !.whole = TRUE])
    <3>1. PICK f : f = [[file EXCEPT !.whole = TRUE] EXCEPT !.open = FALSE]
      OBVIOUS
    <3>2. /\ f.open = FALSE /\ f.from = file.from /\ f.data = file.data /\ f.whole = TRUE
          /\ f.bytes = file.bytes /\ f.header = file.header /\ f \in Files
      BY <1>1, <3>1 DEF Files
    <3>3. IsStretch(f, heard + n)
      BY <1>1, <1>5, <1>6, <3>2 DEF IsStretch
    <3>4. f.whole => f.bytes = Len(f.data)
      BY <1>5, <2>3, <3>2
    <3>5. PICK taken \in BOOLEAN : WriteHeader(f, taken)
      BY <2>3, <3>1, Zenon DEF Finish
    <3>6. QED
      BY <2>1, <3>2, <3>3, <3>4, <3>5, HeaderKeeps
  <2>4. CASE /\ file.open /\ kept < n
             /\ Finish([file EXCEPT !.data = @ \o SubSeq(Chunk(n), 1, kept), !.whole = FALSE])
    <3>1. SubSeq(Chunk(n), 1, kept) = Following(kept)
      BY <1>1 DEF Chunk, Following
    <3>2. PICK data : data = file.data \o Following(kept)
      OBVIOUS
    <3>3. data \in Seq(Units) /\ Len(data) = Len(file.data) + kept
          /\ \A i \in 1..(Len(file.data) + kept) : data[i] = file.from + i
      BY <1>4, <2>4, <3>2
    <3>4. PICK f : f = [file EXCEPT !.data = data, !.whole = FALSE, !.open = FALSE]
      OBVIOUS
    <3>5. /\ f.open = FALSE /\ f.from = file.from /\ f.data = data /\ f.whole = FALSE
          /\ f.bytes = file.bytes /\ f.header = file.header /\ f \in Files
      BY <1>1, <3>3, <3>4 DEF Files
    <3>6. \A i \in 1..Len(f.data) : f.data[i] = f.from + i
      BY <3>3, <3>5
    <3>7. /\ f.header <= Len(f.data) /\ f.bytes <= Len(f.data)
          /\ f.from + Len(f.data) <= heard + n
      <4>1. PICK len : len = Len(file.data)
        OBVIOUS
      <4>2. file.open /\ kept < n
        BY <2>4
      <4>3. Len(f.data) = len + kept /\ len \in Nat /\ file.header <= len /\ file.bytes = len
            /\ file.from + len = heard
        BY <1>5, <3>3, <3>5, <4>1, <4>2
      <4>4. QED
        BY <1>1, <1>5, <3>5, <4>2, <4>3
    <3>8. IsStretch(f, heard + n)
      BY <3>5, <3>6, <3>7 DEF IsStretch
    <3>9. PICK taken \in BOOLEAN :
             WriteHeader([[file EXCEPT !.data = data, !.whole = FALSE] EXCEPT !.open = FALSE],
                         taken)
      BY <2>4, <3>1, <3>2, Zenon DEF Finish
    <3>10. [[file EXCEPT !.data = data, !.whole = FALSE] EXCEPT !.open = FALSE] = f
      BY <1>1, <3>4 DEF Files
    <3>11. QED
      BY <2>1, <3>5, <3>8, <3>9, <3>10, HeaderKeeps
  <2>5. CASE /\ file.open /\ kept = n
             /\ \E taken \in BOOLEAN :
                    WriteHeader([file EXCEPT !.data = @ \o Chunk(n), !.bytes = @ + n,
                                             !.whole = TRUE], taken)
    <3>1. PICK data : data = file.data \o Following(n)
      OBVIOUS
    <3>2. data \in Seq(Units) /\ Len(data) = Len(file.data) + n
          /\ \A i \in 1..(Len(file.data) + n) : data[i] = file.from + i
      BY <1>4, <2>5, <3>1
    <3>3. Chunk(n) = Following(n)
      BY DEF Chunk, Following
    <3>4. PICK count : count = file.bytes + n
      OBVIOUS
    <3>5. PICK f : f = [file EXCEPT !.data = data, !.bytes = count, !.whole = TRUE]
      OBVIOUS
    <3>6. count \in Units
      BY <1>1, <1>5, <2>5, <3>4 DEF Units
    <3>7. /\ f.open = file.open /\ f.from = file.from /\ f.data = data /\ f.whole = TRUE
          /\ f.bytes = count /\ f.header = file.header /\ f \in Files
      BY <1>1, <3>2, <3>5, <3>6 DEF Files
    <3>8. \A i \in 1..Len(f.data) : f.data[i] = f.from + i
      BY <3>2, <3>7
    <3>9. /\ f.bytes = Len(f.data) /\ f.from + Len(f.data) = heard + n
          /\ f.header <= Len(f.data) /\ f.bytes <= Len(f.data)
          /\ f.from + Len(f.data) <= heard + n
      <4>1. PICK len, bytes : len = Len(file.data) /\ bytes = file.bytes
        OBVIOUS
      <4>2. file.open
        BY <2>5
      <4>3. len \in Nat /\ bytes = len /\ file.from + len = heard /\ file.header <= len
        BY <1>5, <4>1, <4>2
      <4>4. count = bytes + n /\ Len(f.data) = len + n
        BY <3>2, <3>4, <3>7, <4>1
      <4>5. PICK from, header, longer :
               from = f.from /\ header = f.header /\ longer = Len(f.data)
        OBVIOUS
      <4>6. from = file.from /\ header = file.header /\ f.bytes = count /\ longer = len + n
        BY <3>7, <4>4, <4>5, Zenon
      <4>7. from \in 0..MaxHeard /\ header \in 0..MaxHeard
        BY <1>5, <4>6
      <4>8. /\ from + len = heard /\ header <= len
            /\ count = len + n
        BY <4>3, <4>4, <4>6
      <4>9. count = longer /\ from + longer = heard + n /\ header <= longer /\ count <= longer
            /\ from + longer <= heard + n
        BY <1>1, <4>3, <4>6, <4>7, <4>8
      <4>10. QED
        BY <4>5, <4>6, <4>9, Zenon
    <3>10. IsStretch(f, heard + n)
      BY <3>8, <3>9 DEF IsStretch
    <3>11. PICK taken \in BOOLEAN : WriteHeader(f, taken)
      <4>1. f = [file EXCEPT !.data = @ \o Chunk(n), !.bytes = @ + n, !.whole = TRUE]
        BY <1>1, <3>1, <3>3, <3>4, <3>5 DEF Files
      <4>2. QED
        BY <2>5, <4>1, Zenon
    <3>12. QED
      BY <2>1, <3>7, <3>9, <3>10, <3>11, HeaderKeeps
  <2>6. QED
    BY <2>1, <2>2, <2>3, <2>4, <2>5, Written, Zenon
<1>8. FileHolds'
  BY <1>2, <1>7, Zenon DEF FileHolds
<1>9. QED
  BY <1>1, <1>2, <1>3, <1>7, <1>8 DEF RecorderTypeOK, Units

LEMMA RequestKeepsRecorder ==
  ASSUME RecorderTypeOK, RingHolds, FileHolds, NEW c \in Callers, Request(c)
  PROVE  RecorderTypeOK' /\ RingHolds' /\ FileHolds' /\ heard' = heard
<1>1. /\ MaxHeard \in Nat /\ heard \in 0..MaxHeard /\ file \in Files
      /\ saw \in [Callers -> {"nothing", "off", "on"}]
  BY RecorderAssumption DEF RecorderTypeOK, Units
<1>2. heard' = heard /\ ring' = ring /\ at' = at /\ full' = full
  BY DEF Request, ringVars
<1>3. RingHolds'
  BY <1>2, Zenon DEF RingHolds
<1>4. saw' \in [Callers -> {"nothing", "off", "on"}]
  BY <1>1 DEF Request, RequestStart, RequestStop, ToggleLooks, ToggleActs
<1>5. UNCHANGED file \/ StartRecording \/ StopRecording
  BY DEF Request, RequestStart, RequestStop, ToggleLooks, ToggleActs
<1>6. file' \in Files /\ IsStretch(file', heard) /\ IsHeaded(file')
  <2>1. IsStretch(file, heard) /\ IsHeaded(file)
    BY DEF FileHolds
  <2>2. CASE UNCHANGED file
    BY <1>1, <2>1, <2>2
  <2>3. CASE StartRecording
    <3>1. PICK g : g = file'
      OBVIOUS
    <3>2. g = [open |-> TRUE, from |-> heard, data |-> <<>>, bytes |-> 0, header |-> 0,
               whole |-> TRUE]
      BY <2>3, <3>1 DEF StartRecording, NewFile, NoFile
    <3>3. g \in Files /\ IsStretch(g, heard) /\ IsHeaded(g)
      BY <1>1, <3>2 DEF IsStretch, IsHeaded, Files, Units
    <3>4. QED
      BY <3>1, <3>3
  <2>4. CASE StopRecording
    <3>1. file.open /\ Finish([file EXCEPT !.whole = TRUE])
      BY <2>4 DEF StopRecording, Recording
    <3>2. PICK f : f = [file EXCEPT !.whole = TRUE]
      OBVIOUS
    <3>3. /\ f.open = file.open /\ f.from = file.from /\ f.data = file.data /\ f.whole = TRUE
          /\ f.bytes = file.bytes /\ f.header = file.header /\ f \in Files
      BY <1>1, <3>2 DEF Files
    <3>4. IsStretch(f, heard) /\ (f.whole => f.bytes = Len(f.data))
      BY <2>1, <3>1, <3>3 DEF IsStretch
    <3>5. Finish(f)
      BY <3>1, <3>2, Zenon
    <3>6. heard \in Nat
      BY <1>1
    <3>7. QED
      BY <3>3, <3>4, <3>5, <3>6, FinishKeeps
  <2>5. QED
    BY <1>5, <2>2, <2>3, <2>4
<1>7. FileHolds'
  BY <1>2, <1>6, Zenon DEF FileHolds
<1>8. QED
  BY <1>2, <1>3, <1>4, <1>6, <1>7 DEF RecorderTypeOK

-----------------------------------------------------------------------------
(* The stream's steps                                                      *)

LEMMA LadderFacts ==
  /\ Ladder \in Seq(Nat \ {0}) /\ Len(Ladder) \in Nat \ {0} /\ DOMAIN Ladder = 1..Len(Ladder)
  /\ AnySize \subseteq Nat \ {0} /\ \A i \in DOMAIN Ladder : Ladder[i] \in AnySize
<1>1. Ladder \in Seq(Nat \ {0}) /\ Ladder # <<>>
  <2>1. CASE Forced > 0
    <3>1. <<Forced>> \in Seq(Nat \ {0}) /\ Len(<<Forced>>) = 1
      BY <2>1, CaptureAssumption
    <3>2. <<Forced>> \o Sizes \in Seq(Nat \ {0})
          /\ Len(<<Forced>> \o Sizes) = 1 + Len(Sizes)
      BY <3>1, CaptureAssumption, ConcatProperties
    <3>3. <<Forced>> \o Sizes # <<>>
      BY <3>2, CaptureAssumption, LenProperties, EmptySeq
    <3>4. QED
      BY <2>1, <3>2, <3>3 DEF Ladder
  <2>2. CASE ~(Forced > 0)
    BY <2>2, CaptureAssumption DEF Ladder
  <2>3. QED
    BY <2>1, <2>2
<1>2. Len(Ladder) \in Nat \ {0} /\ DOMAIN Ladder = 1..Len(Ladder)
  BY <1>1, EmptySeq, LenProperties
<1>3. \A i \in DOMAIN Ladder : Ladder[i] \in Nat \ {0}
  BY <1>1, <1>2, ElementOfSeq
<1>4. QED
  BY <1>1, <1>2, <1>3 DEF AnySize

\* An account by its parts.
LEMMA ByParts ==
  ASSUME NEW a \in Accounts, NEW p \in Nat, NEW q, NEW len, q = a.queue, len = Len(q)
  PROVE  /\ q \in Seq(Units) /\ q \in [1..len -> Units] /\ len \in Nat
         /\ AccountHolds(a, p) <=>
              /\ a.settled + len = p /\ a.last <= p
              /\ \A i \in 1..len : a.last < q[i] /\ q[i] <= p
              /\ \A i, j \in 1..len : i < j => q[i] < q[j]
<1>1. q \in Seq(Units)
  BY DEF Accounts
<1>2. q \in [1..len -> Units] /\ len \in Nat
  BY <1>1, LenProperties
<1>3. QED
  BY <1>1, <1>2, Zenon DEF AccountHolds

\* A chunk offered to a listener is queued last or counted.
LEMMA OfferHolds ==
  ASSUME published \in Nat, published + 1 <= MaxHeard,
         NEW a \in Accounts, AccountHolds(a, published), Len(a.queue) <= QueueMax
  PROVE  /\ Offered(a) \in Accounts /\ AccountHolds(Offered(a), published + 1)
         /\ Len(Offered(a).queue) <= QueueMax
<1>1. MaxHeard \in Nat /\ QueueMax \in Nat
  BY RecorderAssumption, CaptureAssumption
<1>2. PICK q, len, settled, last, p :
         q = a.queue /\ len = Len(q) /\ settled = a.settled /\ last = a.last /\ p = published
  OBVIOUS
<1>3. q \in Seq(Units) /\ q \in [1..len -> 0..MaxHeard] /\ len \in Nat
      /\ settled \in 0..MaxHeard /\ last \in 0..MaxHeard /\ p \in Nat
  BY <1>2, ByParts DEF Accounts, Units
<1>4. /\ settled + len = p /\ last <= p
      /\ \A i \in 1..len : last < q[i] /\ q[i] <= p
      /\ \A i, j \in 1..len : i < j => q[i] < q[j]
  BY <1>2, <1>3, Zenon DEF AccountHolds
<1>5. CASE len < QueueMax
  <2>1. PICK r : r = Append(q, p + 1)
    OBVIOUS
  <2>2. p + 1 \in 0..MaxHeard /\ p + 1 \in Units
    BY <1>1, <1>2, <1>3 DEF Units
  <2>3. r \in Seq(Units) /\ Len(r) = len + 1
        /\ (\A i \in 1..len : r[i] = q[i]) /\ r[len + 1] = p + 1
    BY <1>2, <1>3, <2>1, <2>2, AppendProperties
  <2>4. Offered(a) = [a EXCEPT !.queue = r]
    BY <1>2, <1>5, <2>1 DEF Offered, Accounts
  <2>5. PICK b : b = Offered(a)
    OBVIOUS
  <2>6. b \in Accounts /\ b.queue = r /\ b.settled = settled /\ b.last = last
    BY <1>2, <2>3, <2>4, <2>5 DEF Accounts
  <2>7. ASSUME NEW i \in 1..(len + 1) PROVE last < r[i] /\ r[i] <= p + 1
    <3>1. CASE i \in 1..len
      <4>1. r[i] = q[i] /\ last < q[i] /\ q[i] <= p
        BY <1>4, <2>3, <3>1
      <4>2. q[i] \in 0..MaxHeard
        BY <1>3, <3>1
      <4>3. QED
        BY <1>1, <1>3, <4>1, <4>2
    <3>2. CASE i = len + 1
      BY <1>3, <1>4, <2>3, <3>2
    <3>3. QED
      BY <1>3, <3>1, <3>2
  <2>8. ASSUME NEW i \in 1..(len + 1), NEW j \in 1..(len + 1), i < j PROVE r[i] < r[j]
    <3>1. i \in 1..len
      BY <1>3, <2>8
    <3>2. CASE j \in 1..len
      BY <1>3, <1>4, <2>3, <2>8, <3>1, <3>2
    <3>3. CASE j = len + 1
      BY <1>3, <1>4, <2>3, <3>1, <3>3
    <3>4. QED
      BY <1>3, <3>2, <3>3
  <2>9. b.settled + Len(b.queue) = p + 1 /\ b.last <= p + 1
    <3>1. b.settled + Len(b.queue) = settled + (len + 1) /\ b.last = last
      BY <2>3, <2>6
    <3>2. settled + (len + 1) = p + 1 /\ last <= p + 1
      BY <1>3, <1>4
    <3>3. QED
      BY <3>1, <3>2
  <2>10. AccountHolds(b, p + 1)
    BY <2>3, <2>6, <2>7, <2>8, <2>9, Zenon DEF AccountHolds
  <2>11. Len(b.queue) <= QueueMax
    BY <1>1, <1>3, <1>5, <2>3, <2>6
  <2>12. QED
    BY <1>2, <2>5, <2>6, <2>10, <2>11
<1>6. CASE ~(len < QueueMax)
  <2>1. PICK b, s : b = Offered(a) /\ s = settled + 1
    OBVIOUS
  <2>2. s \in Units
    BY <1>1, <1>2, <1>3, <1>4, <2>1 DEF Units
  <2>3. b = [a EXCEPT !.settled = s]
    BY <1>2, <1>6, <2>1 DEF Offered, Accounts
  <2>4. b.queue = q /\ b.last = last /\ b.settled = s /\ b \in Accounts
    BY <1>2, <2>2, <2>3 DEF Accounts
  <2>5. s + len = p + 1 /\ last <= p + 1
    BY <1>3, <1>4, <2>1
  <2>6. ASSUME NEW i \in 1..len PROVE q[i] <= p + 1
    <3>1. q[i] <= p /\ q[i] \in 0..MaxHeard
      BY <1>3, <1>4
    <3>2. QED
      BY <1>3, <3>1
  <2>7. AccountHolds(b, p + 1)
    BY <1>2, <1>4, <2>4, <2>5, <2>6, Zenon DEF AccountHolds
  <2>8. QED
    BY <1>2, <2>1, <2>4, <2>7
<1>7. QED
  BY <1>5, <1>6

LEMMA DeliverHolds ==
  ASSUME published \in Units, NEW a \in Accounts, AccountHolds(a, published), a.queue # <<>>,
         Len(a.queue) <= QueueMax
  PROVE  /\ Delivered(a) \in Accounts /\ AccountHolds(Delivered(a), published)
         /\ Len(Delivered(a).queue) <= QueueMax
<1>1. PICK b : b = Delivered(a)
  OBVIOUS
<1>2. MaxHeard \in Nat /\ QueueMax \in Nat /\ published \in 0..MaxHeard
  BY RecorderAssumption, CaptureAssumption DEF Units
<1>3. PICK q, len, settled, s, last, p :
         q = a.queue /\ len = Len(q) /\ settled = a.settled /\ s = settled + 1 /\ last = a.last
         /\ p = published
  OBVIOUS
<1>4. q \in Seq(Units) /\ q \in [1..len -> 0..MaxHeard] /\ len \in Nat \ {0}
      /\ last \in 0..MaxHeard /\ p \in 0..MaxHeard
  BY <1>2, <1>3, ByParts, EmptySeq DEF Accounts, Units
<1>5. /\ settled + len = p
      /\ \A i \in 1..len : last < q[i] /\ q[i] <= p
      /\ \A i, j \in 1..len : i < j => q[i] < q[j]
  BY <1>3, Zenon DEF AccountHolds
<1>6. settled \in 0..MaxHeard
  BY <1>3 DEF Accounts, Units
<1>7. s \in 0..MaxHeard /\ s + (len - 1) = p
  <2>1. settled + len = p /\ s = settled + 1
    BY <1>3, <1>5
  <2>2. QED
    BY <1>2, <1>4, <1>6, <2>1
<1>8. PICK t : t = Tail(q)
  OBVIOUS
<1>9. t \in Seq(Units) /\ Len(t) = len - 1 /\ \A i \in 1..(len - 1) : t[i] = q[i + 1]
  BY <1>3, <1>4, <1>8, EmptySeq, HeadTailProperties
<1>10. Head(q) = q[1] /\ q[1] \in 0..MaxHeard
  BY <1>3, <1>4
<1>11. b = [a EXCEPT !.queue = t, !.settled = s, !.last = q[1]]
  BY <1>1, <1>3, <1>8, <1>10 DEF Accounts, Delivered
<1>12. b \in Accounts /\ b.queue = t /\ b.settled = s /\ b.last = q[1]
  <2>1. PICK l : l = q[1]
    OBVIOUS
  <2>2. l \in Units /\ s \in Units
    BY <1>7, <1>10, <2>1 DEF Units
  <2>3. QED
    BY <1>9, <1>11, <2>1, <2>2 DEF Accounts
<1>13. ASSUME NEW i \in 1..(len - 1) PROVE q[1] < t[i] /\ t[i] <= p
  BY <1>4, <1>5, <1>9
<1>14. ASSUME NEW i \in 1..(len - 1), NEW j \in 1..(len - 1), i < j PROVE t[i] < t[j]
  BY <1>4, <1>5, <1>9, <1>14
<1>15. q[1] <= p
  BY <1>4, <1>5
<1>16. AccountHolds(b, published)
  BY <1>3, <1>7, <1>9, <1>12, <1>13, <1>14, <1>15, Zenon DEF AccountHolds
<1>17. Len(b.queue) <= QueueMax
  BY <1>2, <1>3, <1>4, <1>9, <1>12
<1>18. QED
  BY <1>1, <1>12, <1>16, <1>17

-----------------------------------------------------------------------------
(* Every step                                                              *)

StreamTypeOK ==
    /\ phase \in {"start", "read", "feed", "fan", "close", "mark", "wait", "open", "ended",
                  "refused"}
    /\ rung \in DOMAIN Ladder
    /\ handle \in {"open", "broken", "closed"}
    /\ size \in AnySize \cup {0}
    /\ running \in BOOLEAN /\ stopped \in BOOLEAN
    /\ works \subseteq AnySize /\ events \in 0..MaxEvents

ListenersTypeOK ==
    /\ published \in Units
    /\ listener \in [Listeners -> Accounts \cup {Away}]
    /\ \A l \in Listeners : listener[l] # Away => Len(listener[l].queue) <= QueueMax

LEMMA TypeOKByParts == TypeOK <=> RecorderTypeOK /\ StreamTypeOK /\ ListenersTypeOK
BY DEF TypeOK, StreamTypeOK, ListenersTypeOK

LEMMA InitHolds == Init => CaptureInv
<1> SUFFICES ASSUME Init PROVE CaptureInv
  OBVIOUS
<1>1. /\ RingMax \in Nat \ {0} /\ MaxHeard \in Nat /\ MaxEvents \in Nat
      /\ 1 \in DOMAIN Ladder /\ 0 \in Units /\ 0 \in 0..(RingMax - 1) /\ 0 \in 0..MaxEvents
  BY RecorderAssumption, CaptureAssumption, LadderFacts DEF Units
<1>2. RecorderTypeOK /\ RingHolds /\ FileHolds
  <2>1. /\ heard = 0 /\ ring = [i \in 0..(RingMax - 1) |-> 0] /\ at = 0 /\ full = FALSE
        /\ saw = [c \in Callers |-> "nothing"]
    BY DEF Init, RecorderInit
  <2>2. file = [open |-> FALSE, from |-> 0, data |-> <<>>, bytes |-> 0, header |-> 0,
                whole |-> TRUE]
    BY DEF Init, RecorderInit, NoFile
  <2>3. file \in Files /\ IsStretch(file, 0) /\ IsHeaded(file)
    BY <1>1, <2>2 DEF Files, IsStretch, IsHeaded
  <2>4. RingHolds
    <3>1. (\A i \in 0..(RingMax - 1) : ring[i] = 0) /\ ~(heard >= RingMax)
      BY <1>1, <2>1
    <3>2. QED
      BY <1>1, <2>1, <3>1 DEF RingHolds
  <2>5. RecorderTypeOK
    <3>1. ring \in [0..(RingMax - 1) -> Units]
      BY <1>1, <2>1
    <3>2. saw \in [Callers -> {"nothing", "off", "on"}]
      BY <2>1
    <3>3. QED
      BY <1>1, <2>1, <2>3, <3>1, <3>2, Zenon DEF RecorderTypeOK
  <2>6. QED
    BY <2>1, <2>3, <2>4, <2>5 DEF FileHolds
<1>3. StreamTypeOK /\ StreamHolds
  <2>1. heard = 0
    BY DEF Init, RecorderInit
  <2>2. StreamTypeOK
    BY <1>1 DEF Init, StreamTypeOK
  <2>3. StreamHolds
    BY <2>1 DEF Init, StreamHolds
  <2>4. QED
    BY <2>2, <2>3
<1>4. ListenersTypeOK /\ ListenersHold
  BY <1>1 DEF Init, ListenersTypeOK, ListenersHold
<1>5. QED
  BY <1>2, <1>3, <1>4, TypeOKByParts DEF CaptureInv

\* What a step does to the recorder: nothing, a chunk fed or a request.
LEMMA RecorderStep ==
  ASSUME CaptureInv, [Next]_vars
  PROVE  /\ RecorderTypeOK' /\ RingHolds' /\ FileHolds'
         /\ \/ phase = "feed" /\ phase' = "fan" /\ heard' = heard + size /\ size \in AnySize
            \/ heard' = heard /\ ~(phase = "feed" /\ phase' = "fan")
<1>1. RecorderTypeOK /\ RingHolds /\ FileHolds
  BY DEF CaptureInv, TypeOK
<1>2. CASE FeedRecorder
  <2>1. size \in AnySize /\ size \in Nat \ {0} /\ heard + size <= MaxHeard
    BY <1>2, LadderFacts DEF FeedRecorder, CaptureInv, StreamHolds
  <2>2. PICK kept \in 0..size : Feed(size, kept)
    BY <1>2 DEF FeedRecorder
  <2>3. QED
    BY <1>1, <1>2, <2>1, <2>2, FeedKeepsRecorder DEF FeedRecorder
<1>3. ASSUME NEW c \in Callers, RecordRequest(c)
      PROVE  RecorderTypeOK' /\ RingHolds' /\ FileHolds' /\ heard' = heard /\ phase' = phase
  BY <1>1, <1>3, RequestKeepsRecorder DEF RecordRequest, streamVars
<1>4. CASE UNCHANGED recVars /\ ~(phase = "feed" /\ phase' = "fan")
  <2>1. RecorderTypeOK' <=> RecorderTypeOK
    BY <1>4 DEF RecorderTypeOK, recVars, ringVars
  <2>2. RingHolds' <=> RingHolds
    BY <1>4, Zenon DEF RingHolds, recVars, ringVars
  <2>3. FileHolds' <=> FileHolds
    BY <1>4, Zenon DEF FileHolds, IsStretch, IsHeaded, recVars, ringVars
  <2>4. QED
    BY <1>1, <1>4, <2>1, <2>2, <2>3 DEF recVars, ringVars
<1>5. ASSUME ~FeedRecorder, ~(\E c \in Callers : RecordRequest(c))
      PROVE  UNCHANGED recVars /\ ~(phase = "feed" /\ phase' = "fan")
  <2> USE <1>5
  <2>1. CASE TrySize
    BY <2>1 DEF TrySize, Adopt
  <2>2. CASE NoSizeLeft \/ ReadChunk \/ ReadFails
    BY <2>2 DEF NoSizeLeft, ReadChunk, ReadFails
  <2>3. CASE FanOut \/ CloseDevice \/ MarkDown \/ WaitEnds
    BY <2>3 DEF FanOut, CloseDevice, MarkDown, WaitEnds
  <2>4. CASE Stop \/ CodecFails
    BY <2>4 DEF Stop, CodecFails
  <2>5. CASE \E l \in Listeners : Connection(l)
    BY <2>5 DEF Connection, Join, Deliver, Leave, streamVars
  <2>6. CASE UNCHANGED vars
    BY <2>6 DEF vars, streamVars
  <2>7. QED
    BY <2>1, <2>2, <2>3, <2>4, <2>5, <2>6 DEF Next, Supervisor
<1>6. QED
  BY <1>2, <1>3, <1>4, <1>5

\* What a step does to the listeners: nothing, a chunk fanned out, or one of
\* them that comes, is written to, or goes.
LEMMA ListenersStep ==
  ASSUME [Next]_vars
  PROVE  \/ FanOut
         \/ published' = published /\ \E l \in Listeners : Connection(l)
         \/ published' = published /\ listener' = listener
<1>1. CASE TrySize \/ NoSizeLeft \/ ReadChunk \/ ReadFails \/ FeedRecorder
  BY <1>1 DEF TrySize, NoSizeLeft, ReadChunk, ReadFails, FeedRecorder
<1>2. CASE CloseDevice \/ MarkDown \/ WaitEnds \/ Stop \/ CodecFails
  BY <1>2 DEF CloseDevice, MarkDown, WaitEnds, Stop, CodecFails
<1>3. CASE \E l \in Listeners : Connection(l)
  <2>1. PICK l \in Listeners : Connection(l)
    BY <1>3
  <2>2. published' = published
    BY <2>1 DEF Connection, Join, Deliver, Leave
  <2>3. QED
    BY <2>1, <2>2
<1>4. CASE \E c \in Callers : RecordRequest(c)
  BY <1>4 DEF RecordRequest
<1>5. CASE UNCHANGED vars
  BY <1>5 DEF vars
<1>6. QED
  BY <1>1, <1>2, <1>3, <1>4, <1>5 DEF Next, Supervisor

LEMMA StreamKept ==
  ASSUME CaptureInv, [Next]_vars
  PROVE  StreamTypeOK' /\ StreamHolds'
<1>1. StreamTypeOK /\ StreamHolds
  BY TypeOKByParts DEF CaptureInv
<1>2. heard \in Nat /\ published \in Nat /\ MaxEvents \in Nat /\ MaxHeard \in Nat
  BY TypeOKByParts, CaptureAssumption, RecorderAssumption
  DEF CaptureInv, ListenersTypeOK, RecorderTypeOK, Units
<1>3. \A s \in AnySize : s \in Nat \ {0}
  BY LadderFacts
<1>4. size \in Nat
  BY <1>1, <1>3 DEF StreamTypeOK
<1>5. Len(Ladder) \in Nat \ {0} /\ DOMAIN Ladder = 1..Len(Ladder) /\ 1 \in DOMAIN Ladder
      /\ \A i \in DOMAIN Ladder : Ladder[i] \in AnySize
  BY LadderFacts
<1>6. \/ phase = "feed" /\ phase' = "fan" /\ heard' = heard + size /\ size \in AnySize
      \/ heard' = heard /\ ~(phase = "feed" /\ phase' = "fan")
  BY RecorderStep
<1>7. CASE TrySize
  <2>1. CASE Adopt
    <3>1. size' \in AnySize /\ rung' \in DOMAIN Ladder
      BY <1>1, <1>5, <2>1 DEF Adopt, StreamTypeOK
    <3>2. StreamTypeOK'
      BY <1>1, <1>7, <2>1, <3>1 DEF TrySize, Adopt, StreamTypeOK, worldVars
    <3>3. StreamHolds'
      BY <1>1, <1>2, <1>6, <1>7, <2>1, <3>1 DEF TrySize, Adopt, StreamHolds
    <3>4. QED
      BY <3>2, <3>3
  <2>2. CASE rung < Len(Ladder) /\ rung' = rung + 1 /\ UNCHANGED <<phase, handle, size, running>>
    <3>1. rung' \in DOMAIN Ladder
      BY <1>1, <1>5, <2>2 DEF StreamTypeOK
    <3>2. StreamTypeOK'
      BY <1>1, <1>7, <2>2, <3>1 DEF TrySize, StreamTypeOK, worldVars
    <3>3. StreamHolds'
      BY <1>1, <1>2, <1>6, <1>7, <2>2 DEF TrySize, StreamHolds
    <3>4. QED
      BY <3>2, <3>3
  <2>3. QED
    BY <1>7, <2>1, <2>2 DEF TrySize
<1>8. CASE NoSizeLeft \/ ReadFails
  <2>1. StreamTypeOK'
    BY <1>1, <1>5, <1>8 DEF NoSizeLeft, ReadFails, StreamTypeOK, worldVars
  <2>2. StreamHolds'
    BY <1>1, <1>2, <1>6, <1>8 DEF NoSizeLeft, ReadFails, StreamHolds
  <2>3. QED
    BY <2>1, <2>2
<1>9. CASE CloseDevice \/ MarkDown \/ WaitEnds \/ Stop
  <2>1. StreamTypeOK'
    BY <1>1, <1>9 DEF CloseDevice, MarkDown, WaitEnds, Stop, StreamTypeOK, worldVars
  <2>2. StreamHolds'
    BY <1>1, <1>2, <1>6, <1>9 DEF CloseDevice, MarkDown, WaitEnds, Stop, StreamHolds
  <2>3. QED
    BY <2>1, <2>2
<1>10. CASE ReadChunk
  <2>1. StreamTypeOK'
    BY <1>1, <1>10 DEF ReadChunk, StreamTypeOK, worldVars
  <2>2. StreamHolds'
    BY <1>1, <1>2, <1>6, <1>10 DEF ReadChunk, StreamHolds
  <2>3. QED
    BY <2>1, <2>2
<1>11. CASE FeedRecorder
  <2>1. StreamTypeOK'
    BY <1>1, <1>11 DEF FeedRecorder, StreamTypeOK, worldVars
  <2>2. heard' = heard + size /\ size \in AnySize
    BY <1>6, <1>11 DEF FeedRecorder
  <2>3. published < heard + size /\ published <= heard + size
    BY <1>1, <1>2, <1>3, <1>4, <2>2 DEF StreamHolds
  <2>4. StreamHolds'
    BY <1>1, <1>11, <2>2, <2>3 DEF FeedRecorder, StreamHolds
  <2>5. QED
    BY <2>1, <2>4
<1>12. CASE FanOut
  <2>1. StreamTypeOK'
    BY <1>1, <1>12 DEF FanOut, StreamTypeOK, worldVars
  <2>2. StreamHolds'
    BY <1>1, <1>2, <1>6, <1>12 DEF FanOut, StreamHolds
  <2>3. QED
    BY <2>1, <2>2
<1>13. CASE CodecFails
  <2>1. events' \in 0..MaxEvents
    BY <1>1, <1>2, <1>13 DEF CodecFails, StreamTypeOK
  <2>2. StreamTypeOK'
    BY <1>1, <1>13, <2>1 DEF CodecFails, StreamTypeOK
  <2>3. StreamHolds'
    BY <1>1, <1>2, <1>6, <1>13 DEF CodecFails, StreamHolds
  <2>4. QED
    BY <2>2, <2>3
<1>14. ASSUME UNCHANGED <<phase, rung, handle, size, running, stopped, published, works, events>>
       PROVE  StreamTypeOK' /\ StreamHolds'
  <2>1. StreamTypeOK'
    BY <1>1, <1>14 DEF StreamTypeOK
  <2>2. StreamHolds'
    BY <1>1, <1>2, <1>6, <1>14 DEF StreamHolds
  <2>3. QED
    BY <2>1, <2>2
<1>15. CASE \E l \in Listeners : Connection(l)
  BY <1>14, <1>15 DEF Connection, Join, Deliver, Leave, streamVars, worldVars
<1>16. CASE \E c \in Callers : RecordRequest(c)
  BY <1>14, <1>16 DEF RecordRequest, streamVars, worldVars
<1>17. CASE UNCHANGED vars
  BY <1>14, <1>17 DEF vars, streamVars, worldVars
<1>18. QED
  BY <1>7, <1>8, <1>9, <1>10, <1>11, <1>12, <1>13, <1>15, <1>16, <1>17 DEF Next, Supervisor

LEMMA ListenersKept ==
  ASSUME CaptureInv, [Next]_vars
  PROVE  ListenersTypeOK' /\ ListenersHold'
<1>1. ListenersTypeOK /\ ListenersHold /\ MaxHeard \in Nat /\ published \in Nat
  BY TypeOKByParts, RecorderAssumption DEF CaptureInv, ListenersTypeOK, Units
<1>2. ASSUME NEW l \in Listeners, listener[l] # Away
      PROVE  /\ listener[l] \in Accounts /\ AccountHolds(listener[l], published)
             /\ Len(listener[l].queue) <= QueueMax
  BY <1>1, <1>2 DEF ListenersTypeOK, ListenersHold
<1>3. CASE FanOut
  <2>1. published + 1 <= MaxHeard /\ published' = published + 1
    BY <1>1, <1>3, RecorderAssumption
    DEF FanOut, CaptureInv, StreamHolds, TypeOK, RecorderTypeOK, Units
  <2>2. published' \in Units
    BY <1>1, <2>1 DEF Units
  <2>3. ASSUME NEW l \in Listeners, listener[l] # Away
        PROVE  /\ listener'[l] \in Accounts /\ AccountHolds(listener'[l], published')
               /\ Len(listener'[l].queue) <= QueueMax
    <3>1. listener'[l] = Offered(listener[l])
      BY <1>3, <2>3 DEF FanOut
    <3>2. QED
      BY <1>1, <1>2, <2>1, <2>3, <3>1, OfferHolds
  <2>4. ASSUME NEW l \in Listeners, listener[l] = Away PROVE listener'[l] = Away
    BY <1>3, <2>4 DEF FanOut
  <2>5. \A l \in Listeners : listener'[l] \in Accounts \cup {Away}
    BY <2>3, <2>4
  <2>6. listener' \in [Listeners -> Accounts \cup {Away}]
    BY <1>3, <2>5 DEF FanOut
  <2>7. QED
    BY <2>2, <2>3, <2>4, <2>6 DEF ListenersTypeOK, ListenersHold
<1>4. ASSUME published' = published, NEW l \in Listeners, NEW a,
             listener' = [listener EXCEPT ![l] = a],
             a = Away \/ (a \in Accounts /\ AccountHolds(a, published) /\ Len(a.queue) <= QueueMax)
      PROVE  ListenersTypeOK' /\ ListenersHold'
  <2>1. listener' \in [Listeners -> Accounts \cup {Away}]
    BY <1>1, <1>4 DEF ListenersTypeOK
  <2>2. \A m \in Listeners : listener'[m] = IF m = l THEN a ELSE listener[m]
    BY <1>1, <1>4 DEF ListenersTypeOK
  <2>3. ASSUME NEW m \in Listeners, listener'[m] # Away
        PROVE  AccountHolds(listener'[m], published) /\ Len(listener'[m].queue) <= QueueMax
    BY <1>2, <1>4, <2>2, <2>3
  <2>4. QED
    BY <1>1, <1>4, <2>1, <2>3 DEF ListenersTypeOK, ListenersHold
<1>5. ASSUME published' = published, NEW l \in Listeners, Connection(l)
      PROVE  ListenersTypeOK' /\ ListenersHold'
  <2>1. CASE Join(l)
    <3>1. Joined \in Accounts /\ AccountHolds(Joined, published) /\ Len(Joined.queue) <= QueueMax
      BY <1>1, CaptureAssumption DEF Joined, Accounts, AccountHolds, ListenersTypeOK, Units
    <3>2. QED
      BY <1>4, <1>5, <2>1, <3>1 DEF Join
  <2>2. CASE Deliver(l)
    <3>1. listener[l] # Away /\ listener[l].queue # <<>>
      BY <2>2 DEF Deliver
    <3>2. listener' = [listener EXCEPT ![l] = Delivered(listener[l])]
      BY <1>1, <2>2 DEF Deliver, ListenersTypeOK
    <3>3. published \in Units
      BY <1>1 DEF ListenersTypeOK
    <3>4. QED
      BY <1>2, <1>4, <1>5, <3>1, <3>2, <3>3, DeliverHolds
  <2>3. CASE Leave(l)
    BY <1>4, <1>5, <2>3 DEF Leave
  <2>4. QED
    BY <1>5, <2>1, <2>2, <2>3 DEF Connection
<1>6. CASE published' = published /\ listener' = listener
  BY <1>1, <1>6 DEF ListenersTypeOK, ListenersHold
<1>7. QED
  BY <1>3, <1>5, <1>6, ListenersStep

LEMMA CaptureInvariant == Spec => []CaptureInv
<1>1. Init => CaptureInv
  BY InitHolds
<1>2. CaptureInv /\ [Next]_vars => CaptureInv'
  <2>1. SUFFICES ASSUME CaptureInv, [Next]_vars PROVE CaptureInv'
    OBVIOUS
  <2>2. RecorderTypeOK' /\ RingHolds' /\ FileHolds'
    BY <2>1, RecorderStep
  <2>3. StreamTypeOK' /\ StreamHolds' /\ ListenersTypeOK' /\ ListenersHold'
    BY <2>1, StreamKept, ListenersKept
  <2>4. TypeOK'
    BY <2>2, <2>3 DEF TypeOK, StreamTypeOK, ListenersTypeOK
  <2>5. QED
    BY <2>2, <2>3, <2>4 DEF CaptureInv
<1>3. QED
  BY <1>1, <1>2, PTL DEF Spec

-----------------------------------------------------------------------------
(* The theorems                                                            *)

\* Every variable keeps its type; the queues stay within their bound.
THEOREM CaptureTypeCorrect == Spec => []TypeOK
<1>1. CaptureInv => TypeOK
  BY DEF CaptureInv
<1>2. QED
  BY <1>1, CaptureInvariant, PTL

\* A recording is what was received from the moment it began, without a gap,
\* whatever chunk sizes the codec was reopened at and whoever started, stopped or
\* toggled it.  Its header never claims more than is there, and claims all of it
\* unless the disk cut its last samples short or refused its last header.
THEOREM RecordingAlwaysWhatWasHeard == Spec => []RecordingIsWhatWasHeard
<1>1. CaptureInv => RecordingIsWhatWasHeard
  <2>1. SUFFICES ASSUME CaptureInv PROVE RecordingIsWhatWasHeard
    OBVIOUS
  <2>2. file \in Files /\ IsStretch(file, heard) /\ IsHeaded(file)
    BY <2>1 DEF CaptureInv, TypeOK, RecorderTypeOK, FileHolds
  <2>3. PICK data : data = file.data
    OBVIOUS
  <2>4. data \in Seq(Units) /\ DOMAIN data = 1..Len(data) /\ data \in [1..Len(data) -> Units]
    BY <2>2, <2>3, LenProperties DEF Files
  <2>5. \A i \in 1..Len(data) : data[i] = file.from + i
    BY <2>2, <2>3 DEF IsStretch
  <2>6. data = [i \in DOMAIN data |-> file.from + i]
    BY <2>4, <2>5
  <2>7. /\ file.header <= Len(data)
        /\ file.open => file.from + Len(data) = heard
        /\ file.whole => file.header = Len(data)
    BY <2>2, <2>3 DEF IsStretch, IsHeaded
  <2>8. QED
    BY <2>3, <2>6, <2>7 DEF RecordingIsWhatWasHeard, Recording
<1>2. QED
  BY <1>1, CaptureInvariant, PTL

\* A replay is the end of what was received, oldest first and without a gap,
\* however large the chunks are against the ring they were laid into.
THEOREM ReplayIsAlwaysTheTail == Spec => []ReplayIsTheTail
<1>1. CaptureInv => ReplayIsTheTail
  <2>1. SUFFICES ASSUME CaptureInv PROVE ReplayIsTheTail
    OBVIOUS
  <2>2. RecorderTypeOK /\ RingHolds
    BY <2>1 DEF CaptureInv, TypeOK
  <2>3. /\ RingMax \in Nat \ {0} /\ at \in 0..(RingMax - 1) /\ heard \in Nat
        /\ ring \in [0..(RingMax - 1) -> Int]
    BY <2>2, RecorderAssumption DEF RecorderTypeOK, Units
  <2> DEFINE newest == [i \in 1..at |-> ring[i - 1]]
             oldest == [i \in 1..(RingMax - at) |-> ring[at + i - 1]]
  <2>4. \A i \in 1..at : newest[i] = heard - at + i
    <3>1. SUFFICES ASSUME NEW i \in 1..at PROVE newest[i] = heard - at + i
      OBVIOUS
    <3>2. PICK k : k = i - 1
      OBVIOUS
    <3>3. k \in 0..(at - 1) /\ newest[i] = ring[k]
      BY <2>3, <3>2
    <3>4. ring[k] = heard - at + 1 + k
      BY <2>2, <3>3 DEF RingHolds
    <3>5. QED
      BY <2>3, <3>2, <3>3, <3>4
  <2>5. newest \in Seq(Int) /\ Len(newest) = at
    <3>1. at \in Nat /\ newest \in [1..at -> Int]
      BY <2>3
    <3>2. QED
      BY <3>1, FunctionIsSeq
  <2>6. CASE ~full
    <3>1. at = heard /\ heard < RingMax
      BY <2>2, <2>3, <2>6 DEF RingHolds
    <3>2. <<>> \o newest = newest
      BY <2>5, ConcatEmptySeq
    <3>3. Replay = newest
      BY <2>6, <3>2 DEF Replay
    <3>4. newest = [i \in 1..heard |-> heard - heard + i]
      BY <2>4, <3>1
    <3>5. QED
      BY <3>1, <3>3, <3>4, Zenon DEF ReplayIsTheTail
  <2>7. CASE full
    <3>1. heard >= RingMax
      BY <2>2, <2>7 DEF RingHolds
    <3>2. \A i \in 1..(RingMax - at) : oldest[i] = heard - RingMax + i
      <4>1. SUFFICES ASSUME NEW i \in 1..(RingMax - at) PROVE oldest[i] = heard - RingMax + i
        OBVIOUS
      <4>2. PICK k : k = at + i - 1
        OBVIOUS
      <4>3. k \in at..(RingMax - 1) /\ oldest[i] = ring[k]
        BY <2>3, <4>2
      <4>4. ring[k] = heard - at + 1 + k - RingMax
        BY <2>2, <2>7, <4>3 DEF RingHolds
      <4>5. QED
        BY <2>3, <4>2, <4>3, <4>4
    <3>3. oldest \in Seq(Int) /\ Len(oldest) = RingMax - at
      <4>1. PICK m : m = RingMax - at
        OBVIOUS
      <4>2. m \in Nat /\ oldest \in [1..m -> Int]
        BY <2>3, <4>1
      <4>3. QED
        BY <4>1, <4>2, FunctionIsSeq
    <3> DEFINE target == [i \in 1..RingMax |-> heard - RingMax + i]
    <3>4. target \in Seq(Int) /\ Len(target) = RingMax
          /\ \A i \in 1..RingMax : target[i] = heard - RingMax + i
      <4>1. RingMax \in Nat /\ target \in [1..RingMax -> Int]
        BY <2>3
      <4>2. target \in Seq(Int) /\ Len(target) = RingMax
        BY <4>1, FunctionIsSeq, Zenon
      <4>3. QED
        BY <4>2
    <3> HIDE DEF newest, oldest, target
    <3>5. PICK whole : whole = oldest \o newest
      OBVIOUS
    <3>6. whole \in Seq(Int) /\ Len(whole) = (RingMax - at) + at
          /\ \A i \in 1..((RingMax - at) + at) :
                 whole[i] = IF i <= RingMax - at THEN oldest[i] ELSE newest[i - (RingMax - at)]
      BY <2>5, <3>3, <3>5, ConcatProperties
    <3>7. (RingMax - at) + at = RingMax
      BY <2>3
    <3>8. ASSUME NEW i \in 1..RingMax PROVE whole[i] = heard - RingMax + i
      <4>1. CASE i <= RingMax - at
        <5>1. whole[i] = oldest[i] /\ i \in 1..(RingMax - at)
          BY <2>3, <3>6, <3>7, <4>1
        <5>2. QED
          BY <3>2, <5>1
      <4>2. CASE ~(i <= RingMax - at)
        <5>1. PICK k : k = i - (RingMax - at)
          OBVIOUS
        <5>2. whole[i] = newest[k]
          BY <3>6, <3>7, <4>2, <5>1
        <5>3. k \in 1..at
          BY <2>3, <4>2, <5>1
        <5>4. newest[k] = heard - at + k
          BY <2>4, <5>3
        <5>5. QED
          BY <2>3, <5>1, <5>2, <5>3, <5>4
      <4>3. QED
        BY <4>1, <4>2
    <3>9. whole = target
      BY <3>4, <3>6, <3>7, <3>8, SeqEqual
    <3>10. Replay = whole
      BY <2>7, <3>5 DEF Replay, newest, oldest
    <3>11. ~(heard < RingMax)
      BY <2>3, <3>1
    <3>12. QED
      BY <3>9, <3>10, <3>11, Zenon DEF ReplayIsTheTail, target
  <2>8. QED
    BY <2>6, <2>7
<1>2. QED
  BY <1>1, CaptureInvariant, PTL

\* Every chunk published while a listener is there was written to it, waits for
\* it or was dropped for it, and what it hears is in order.
THEOREM EveryChunkAlwaysAccounted == Spec => []EveryChunkAccounted
<1>1. CaptureInv => EveryChunkAccounted
  <2>1. SUFFICES ASSUME CaptureInv, NEW l \in Listeners, listener[l] # Away
                 PROVE  LET a == listener[l]
                            hears == <<a.last>> \o a.queue
                        IN /\ a.settled + Len(a.queue) = published
                           /\ \A i \in 1..(Len(hears) - 1) : hears[i] < hears[i + 1]
    BY DEF EveryChunkAccounted
  <2>2. PICK a, q, len, last : a = listener[l] /\ q = a.queue /\ len = Len(q) /\ last = a.last
    OBVIOUS
  <2>3. a \in Accounts /\ AccountHolds(a, published) /\ MaxHeard \in Nat
    BY <2>1, <2>2, RecorderAssumption
    DEF CaptureInv, TypeOK, ListenersHold
  <2>4. /\ q \in Seq(Units) /\ q \in [1..len -> 0..MaxHeard] /\ len \in Nat
        /\ last \in Units /\ last \in 0..MaxHeard
    BY <2>2, <2>3, LenProperties DEF Accounts, Units
  <2>5. /\ a.settled + len = published
        /\ \A i \in 1..len : last < q[i]
        /\ \A i, j \in 1..len : i < j => q[i] < q[j]
    BY <2>2, <2>3, Zenon DEF AccountHolds
  <2>6. PICK hears : hears = <<last>> \o q
    OBVIOUS
  <2>7. <<last>> \in Seq(Units) /\ Len(<<last>>) = 1 /\ <<last>>[1] = last
    BY <2>4
  <2>8. Len(hears) = 1 + len
        /\ \A i \in 1..(1 + len) : hears[i] = IF i <= 1 THEN <<last>>[i] ELSE q[i - 1]
    BY <2>2, <2>4, <2>6, <2>7, ConcatProperties
  <2>9. hears[1] = last /\ \A i \in 1..len : hears[i + 1] = q[i]
    <3>1. \A i \in 1..len : i + 1 \in 1..(1 + len) /\ ~(i + 1 <= 1) /\ (i + 1) - 1 = i
      BY <2>4
    <3>2. 1 \in 1..(1 + len) /\ 1 <= 1
      BY <2>4
    <3>3. QED
      BY <2>7, <2>8, <3>1, <3>2
  <2>10. ASSUME NEW i \in 1..len PROVE hears[i] < hears[i + 1]
    <3>1. CASE i = 1
      BY <2>5, <2>9, <3>1
    <3>2. CASE i # 1
      <4>1. PICK j : j = i - 1
        OBVIOUS
      <4>2. j \in 1..len /\ j + 1 = i /\ j < i
        BY <2>4, <3>2, <4>1
      <4>3. hears[i] = q[j] /\ hears[i + 1] = q[i] /\ q[j] < q[i]
        BY <2>5, <2>9, <4>2
      <4>4. QED
        BY <4>3
    <3>3. QED
      BY <3>1, <3>2
  <2>11. Len(hears) - 1 = len
    BY <2>4, <2>8
  <2>12. QED
    BY <2>2, <2>5, <2>6, <2>10, <2>11
<1>2. QED
  BY <1>1, CaptureInvariant, PTL

=============================================================================
