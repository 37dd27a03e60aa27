-------------------------- MODULE RfMeasurementProofs --------------------------
(***************************************************************************)
(* Proofs about the measurement of the DUT's emissions and its judgement,  *)
(* for any packets, grants, reported channels and bounds: the lengths that *)
(* captures trigger on, what the reports of the driver contain, and what a *)
(* verdict says of the packets captured.                                   *)
(***************************************************************************)
EXTENDS RfMeasurement, SpectrumChannelsProofs

(***************************************************************************)
(* The lengths to trigger on.  Durations is a pass over the packets: taken *)
(* is what it has collected after each of them.                            *)
(***************************************************************************)
Pass(pkts, n, taken) ==
  taken = [i \in 0..n |-> IF i = 0 THEN <<>> ELSE TakeDuration(taken[i - 1], pkts[i])]

LEMMA PassExists ==
  ASSUME NEW pkts, NEW n \in Nat
  PROVE  \E taken : Pass(pkts, n, taken)
<1> DEFINE T == {k \in Nat : ~\E taken : Pass(pkts, k, taken)}
<1>1. T = {}
  <2>1. SUFFICES ASSUME T # {} PROVE FALSE
    OBVIOUS
  <2>2. PICK k \in T : \A y \in T : k <= y
    <3>1. T \in SUBSET Nat
      OBVIOUS
    <3> HIDE DEF T
    <3> QED BY <2>1, <3>1, NatHasLeast
  <2>3. k \in Nat /\ ~\E taken : Pass(pkts, k, taken)
    OBVIOUS
  <2>4. CASE k = 0
    <3>1. Pass(pkts, 0, [i \in 0..0 |-> <<>>])
      BY DEF Pass
    <3> QED BY <2>3, <2>4, <3>1
  <2>5. CASE k # 0
    <3>1. k - 1 \in Nat /\ k - 1 \notin T
      <4>1. k - 1 \in Nat /\ ~(k <= k - 1)
        BY <2>3, <2>5
      <4> HIDE DEF T
      <4> QED BY <2>2, <4>1
    <3>2. PICK g : Pass(pkts, k - 1, g)
      BY <3>1
    <3> DEFINE h == [i \in 0..k |-> IF i < k THEN g[i] ELSE TakeDuration(g[k - 1], pkts[k])]
    <3>3. ASSUME NEW i \in 0..k
          PROVE  h[i] = IF i = 0 THEN <<>> ELSE TakeDuration(h[i - 1], pkts[i])
      <4>1. CASE i = 0
        <5>1. h[i] = g[i] /\ g[i] = <<>>
          BY <2>3, <2>5, <3>2, <4>1 DEF Pass
        <5> QED BY <4>1, <5>1
      <4>2. CASE i # 0 /\ i < k
        <5>1. h[i] = g[i] /\ h[i - 1] = g[i - 1]
          BY <2>3, <4>2
        <5>2. g[i] = TakeDuration(g[i - 1], pkts[i])
          BY <2>3, <3>2, <4>2 DEF Pass
        <5> QED BY <4>2, <5>1, <5>2
      <4>3. CASE i = k
        <5>1. h[i] = TakeDuration(g[k - 1], pkts[k]) /\ h[k - 1] = g[k - 1]
          BY <2>3, <2>5, <4>3
        <5> QED BY <2>5, <4>3, <5>1
      <4> QED BY <2>3, <4>1, <4>2, <4>3
    <3>4. Pass(pkts, k, h)
      <4>1. h = [i \in 0..k |-> h[i]]
        OBVIOUS
      <4> HIDE DEF h
      <4> QED BY <3>3, <4>1 DEF Pass
    <3> QED BY <2>3, <3>4
  <2> QED BY <2>4, <2>5
<1> QED BY <1>1

LEMMA DurationsPass ==
  ASSUME NEW n \in Nat, NEW pkts \in [1..n -> Packet]
  PROVE  \E taken : Pass(pkts, n, taken) /\ Durations(pkts) = taken[n]
<1> DEFINE taken == CHOOSE g : Pass(pkts, n, g)
<1>1. Pass(pkts, n, taken)
  BY PassExists
<1>2. Len(pkts) = n
  OBVIOUS
<1>3. Durations(pkts) = taken[n]
  BY <1>2 DEF Durations, Pass
<1> QED BY <1>1, <1>3

\* What a collection of lengths covers.
Covers(durs, pkts, n) ==
  /\ durs \in Seq(Nat)
  /\ \A j \in 1..n : \E i \in DOMAIN durs : Near(durs[i], pkts[j].dur)

LEMMA TakeCovers ==
  ASSUME NEW n \in Nat, NEW pkts, NEW durs, Covers(durs, pkts, n),
         pkts[n + 1].dur \in Nat
  PROVE  Covers(TakeDuration(durs, pkts[n + 1]), pkts, n + 1)
<1> DEFINE d == pkts[n + 1].dur
<1>1. CASE \E i \in DOMAIN durs : Near(durs[i], d)
  <2>1. TakeDuration(durs, pkts[n + 1]) = durs /\ durs \in Seq(Nat)
    BY <1>1 DEF TakeDuration, Covers
  <2>2. ASSUME NEW j \in 1..(n + 1) PROVE \E i \in DOMAIN durs : Near(durs[i], pkts[j].dur)
    <3>1. j = n + 1 \/ j \in 1..n
      OBVIOUS
    <3> QED BY <1>1, <3>1 DEF Covers
  <2> QED BY <2>1, <2>2 DEF Covers
<1>2. CASE ~\E i \in DOMAIN durs : Near(durs[i], d)
  <2>1. TakeDuration(durs, pkts[n + 1]) = Append(durs, d) /\ durs \in Seq(Nat)
    BY <1>2 DEF TakeDuration, Covers
  <2>2. /\ Append(durs, d) \in Seq(Nat) /\ DOMAIN durs = 1..Len(durs) /\ Len(durs) \in Nat
        /\ DOMAIN Append(durs, d) = 1..(Len(durs) + 1)
        /\ \A i \in DOMAIN durs : Append(durs, d)[i] = durs[i]
        /\ Append(durs, d)[Len(durs) + 1] = d
    BY <2>1
  <2>3. Near(d, d)
    BY DEF Near, rfdq_margin_us
  <2>4. ASSUME NEW j \in 1..(n + 1)
        PROVE  \E i \in DOMAIN Append(durs, d) : Near(Append(durs, d)[i], pkts[j].dur)
    <3>1. CASE j = n + 1
      BY <2>2, <2>3, <3>1
    <3>2. CASE j # n + 1
      <4>1. PICK i \in DOMAIN durs : Near(durs[i], pkts[j].dur)
        <5>1. j \in 1..n
          BY <3>2
        <5> QED BY <5>1 DEF Covers
      <4> QED BY <2>2, <4>1
    <3> QED BY <3>1, <3>2
  <2> QED BY <2>1, <2>2, <2>4 DEF Covers
<1> QED BY <1>1, <1>2

LEMMA DurationsCover ==
  ASSUME NEW n \in Nat, NEW pkts \in [1..n -> Packet]
  PROVE  Covers(Durations(pkts), pkts, n)
<1>1. PICK taken : Pass(pkts, n, taken) /\ Durations(pkts) = taken[n]
  BY DurationsPass
<1> DEFINE T == {k \in Nat : k <= n /\ ~Covers(taken[k], pkts, k)}
<1>2. T = {}
  <2>1. SUFFICES ASSUME T # {} PROVE FALSE
    OBVIOUS
  <2>2. PICK k \in T : \A y \in T : k <= y
    <3>1. T \in SUBSET Nat
      OBVIOUS
    <3> HIDE DEF T
    <3> QED BY <2>1, <3>1, NatHasLeast
  <2>3. k \in Nat /\ k <= n /\ ~Covers(taken[k], pkts, k)
    OBVIOUS
  <2>4. CASE k = 0
    <3>1. taken[0] = <<>>
      BY <1>1 DEF Pass
    <3> QED BY <2>3, <2>4, <3>1 DEF Covers
  <2>5. CASE k # 0
    <3>1. k - 1 \in Nat /\ k - 1 \notin T /\ k - 1 <= n /\ (k - 1) + 1 = k
      <4>1. k - 1 \in Nat /\ ~(k <= k - 1) /\ k - 1 <= n /\ (k - 1) + 1 = k
        BY <2>3, <2>5
      <4> HIDE DEF T
      <4> QED BY <2>2, <4>1
    <3>2. Covers(taken[k - 1], pkts, k - 1)
      BY <3>1
    <3>3. taken[k] = TakeDuration(taken[k - 1], pkts[k])
      BY <1>1, <2>3, <2>5 DEF Pass
    <3>4. pkts[k].dur \in Nat
      BY <2>3, <2>5, AnalyzerAssumption DEF IsPacket
    <3>5. Covers(TakeDuration(taken[k - 1], pkts[(k - 1) + 1]), pkts, (k - 1) + 1)
      BY <3>1, <3>2, <3>4, TakeCovers
    <3> QED BY <2>3, <3>1, <3>3, <3>5
  <2> QED BY <2>4, <2>5
<1> QED BY <1>1, <1>2
-----------------------------------------------------------------------------
(* The rows of the packets captured, and the report made of them. *)

LEMMA ConcatFacts ==
  ASSUME NEW S, NEW s \in Seq(S), NEW t \in Seq(S)
  PROVE  /\ s \o t \in Seq(S) /\ Len(s \o t) = Len(s) + Len(t)
         /\ Len(s) \in Nat /\ Len(t) \in Nat
         /\ DOMAIN (s \o t) = 1..(Len(s) + Len(t))
         /\ \A i \in 1..Len(s) : (s \o t)[i] = s[i]
         /\ \A i \in 1..Len(t) : (s \o t)[Len(s) + i] = t[i]
OBVIOUS

LEMMA Singleton ==
  ASSUME NEW S, NEW x \in S
  PROVE  <<x>> \in Seq(S) /\ Len(<<x>>) = 1 /\ <<x>>[1] = x
OBVIOUS

LEMMA ScanFacts ==
  ASSUME NEW chan \in Nat \ {0}, NEW bw \in Width
  PROVE  /\ ScanList(chan, bw) \in Seq(Nat \ {0})
         /\ Len(ScanList(chan, bw)) \in 1..3
         /\ Inland(chan, bw) =>
              /\ ScanList(chan, bw)[1] = chan
              /\ ScanList(chan, bw)[2] = Lower(chan, bw)
              /\ ScanList(chan, bw)[3] = Higher(chan, bw)
         /\ Lower(chan, bw) < chan /\ chan < Higher(chan, bw)
         /\ Lower(chan, bw) \in Int /\ Higher(chan, bw) \in Int
<1> DEFINE low == IF Lower(chan, bw) > 0 THEN <<Lower(chan, bw)>> ELSE <<>>
           high == IF Higher(chan, bw) < 185 THEN <<Higher(chan, bw)>> ELSE <<>>
<1>1. /\ Lower(chan, bw) \in Int /\ Higher(chan, bw) \in Int
      /\ Lower(chan, bw) < chan /\ chan < Higher(chan, bw)
  BY DEF Lower, Higher, Width
<1>2. low \in Seq(Nat \ {0}) /\ high \in Seq(Nat \ {0}) /\ <<chan>> \in Seq(Nat \ {0})
  <2>1. /\ Lower(chan, bw) > 0 => Lower(chan, bw) \in Nat \ {0}
        /\ Higher(chan, bw) \in Nat \ {0}
    BY <1>1
  <2>2. /\ <<>> \in Seq(Nat \ {0}) /\ <<chan>> \in Seq(Nat \ {0})
        /\ <<Higher(chan, bw)>> \in Seq(Nat \ {0})
    BY <2>1, Singleton
  <2>3. low \in Seq(Nat \ {0})
    <3>1. CASE Lower(chan, bw) > 0
      <4>1. <<Lower(chan, bw)>> \in Seq(Nat \ {0})
        BY <2>1, <3>1, Singleton
      <4> QED BY <3>1, <4>1
    <3> QED BY <2>2, <3>1
  <2> QED BY <2>2, <2>3
<1>3. /\ Len(low) = IF Lower(chan, bw) > 0 THEN 1 ELSE 0
      /\ Len(high) = IF Higher(chan, bw) < 185 THEN 1 ELSE 0
      /\ Len(<<chan>>) = 1 /\ <<chan>>[1] = chan
      /\ Len(low) = 1 => low[1] = Lower(chan, bw)
      /\ Len(high) = 1 => high[1] = Higher(chan, bw)
  OBVIOUS
<1>4. ScanList(chan, bw) = (<<chan>> \o low) \o high
  BY DEF ScanList
<1> HIDE DEF low, high
<1>5. /\ ScanList(chan, bw) \in Seq(Nat \ {0})
      /\ Len(ScanList(chan, bw)) = 1 + Len(low) + Len(high)
  <2>1. <<chan>> \o low \in Seq(Nat \ {0}) /\ Len(<<chan>> \o low) = 1 + Len(low)
    BY <1>2, <1>3, ConcatFacts
  <2> QED BY <1>2, <1>4, <2>1, ConcatFacts
<1>6. Len(low) \in 0..1 /\ Len(high) \in 0..1
  BY <1>3
<1>7. ASSUME Inland(chan, bw)
      PROVE  /\ ScanList(chan, bw)[1] = chan
             /\ ScanList(chan, bw)[2] = Lower(chan, bw)
             /\ ScanList(chan, bw)[3] = Higher(chan, bw)
  <2>1. Len(low) = 1 /\ Len(high) = 1
    <3>1. 1 + Len(low) + Len(high) = 3
      BY <1>5, <1>7 DEF Inland
    <3>2. \A a, b \in 0..1 : 1 + a + b = 3 => a = 1 /\ b = 1
      OBVIOUS
    <3> QED BY <1>6, <3>1, <3>2
  <2>2. /\ (<<chan>> \o low) \in Seq(Nat \ {0}) /\ Len(<<chan>> \o low) = 2
        /\ (<<chan>> \o low)[1] = chan /\ (<<chan>> \o low)[1 + 1] = low[1]
    BY <1>2, <1>3, <2>1, ConcatFacts
  <2>3. /\ ((<<chan>> \o low) \o high)[1] = (<<chan>> \o low)[1]
        /\ ((<<chan>> \o low) \o high)[2] = (<<chan>> \o low)[2]
        /\ ((<<chan>> \o low) \o high)[2 + 1] = high[1]
    BY <1>2, <2>1, <2>2, ConcatFacts
  <2>4. 1 + 1 = 2 /\ 2 + 1 = 3
    OBVIOUS
  <2>5. low[1] = Lower(chan, bw) /\ high[1] = Higher(chan, bw)
    BY <1>3, <2>1
  <2> QED BY <1>4, <2>2, <2>3, <2>4, <2>5
<1>8. Len(ScanList(chan, bw)) \in 1..3
  <2>1. \A a, b \in 0..1 : 1 + a + b \in 1..3
    OBVIOUS
  <2> QED BY <1>5, <1>6, <2>1
<1> QED BY <1>1, <1>5, <1>7, <1>8

\* A row of a packet.
RowSet == [freq : Nat \ {0}, eirp : Int, peak : Int, psd : Int]
Row(p, at, chan) ==
  [freq |-> at, eirp |-> p.eirp, peak |-> p.psd, psd |-> Level(p, at, chan)]

LEMMA RowType ==
  ASSUME NEW p \in Packet, NEW at \in Nat \ {0}, NEW chan
  PROVE  Row(p, at, chan) \in RowSet
<1>1. p.eirp \in Int /\ p.psd \in Int /\ p.low \in Int /\ p.high \in Int
  BY AnalyzerAssumption DEF IsPacket
<1>2. Level(p, at, chan) \in Int
  BY <1>1 DEF Level
<1> QED BY <1>1, <1>2 DEF Row, RowSet

LEMMA AllRowsType ==
  ASSUME NEW chan \in Nat \ {0}, NEW bw \in Width,
         NEW n \in Nat, NEW pkts \in [1..n -> Packet]
  PROVE  AllRows(pkts, chan, bw) \in Seq(RowSet)
<1> DEFINE each == Len(ScanList(chan, bw))
<1>1. each \in 1..3 /\ ScanList(chan, bw) \in Seq(Nat \ {0}) /\ Len(pkts) = n
  BY ScanFacts
<1>2. ASSUME NEW i \in 1..(each * n)
      PROVE  Rows(pkts[((i - 1) \div each) + 1], chan, bw)[((i - 1) % each) + 1] \in RowSet
  <2> DEFINE a == ((i - 1) \div each) + 1
             j == ((i - 1) % each) + 1
  <2>1. a \in 1..n /\ j \in 1..each
    <3>1. CASE each = 1
      BY <3>1
    <3>2. CASE each = 2
      BY <3>2
    <3>3. CASE each = 3
      BY <3>3
    <3> HIDE DEF each
    <3> QED BY <1>1, <3>1, <3>2, <3>3
  <2>2. pkts[a] \in Packet /\ j \in DOMAIN ScanList(chan, bw)
        /\ ScanList(chan, bw)[j] \in Nat \ {0}
    BY <1>1, <2>1
  <2> HIDE DEF a, j
  <2>3. Rows(pkts[a], chan, bw)[j] = Row(pkts[a], ScanList(chan, bw)[j], chan)
    BY <2>2 DEF Rows, Row
  <2>4. Rows(pkts[a], chan, bw)[j] \in RowSet
    BY <2>2, <2>3, RowType
  <2> QED BY <2>4 DEF a, j
<1>3. each * n \in Nat
  BY <1>1
<1>4. AllRows(pkts, chan, bw) =
        [i \in 1..(each * n) |->
           Rows(pkts[((i - 1) \div each) + 1], chan, bw)[((i - 1) % each) + 1]]
  BY <1>1 DEF AllRows
<1> HIDE DEF each
<1>5. AllRows(pkts, chan, bw) \in [1..(each * n) -> RowSet]
  BY <1>2, <1>4
<1> QED BY <1>3, <1>5

\* On a channel whose neighbours are in the band a packet has three rows.
ThreeRows(list, pkts, n, chan, bw) ==
  /\ DOMAIN list = 1..(3 * n)
  /\ \A k \in 1..n :
       /\ list[3 * k - 2] = Row(pkts[k], chan, chan)
       /\ list[3 * k - 1] = Row(pkts[k], Lower(chan, bw), chan)
       /\ list[3 * k] = Row(pkts[k], Higher(chan, bw), chan)

LEMMA AllRowsThree ==
  ASSUME NEW chan \in Nat \ {0}, NEW bw \in Width, Inland(chan, bw),
         NEW n \in Nat, NEW pkts \in [1..n -> Packet]
  PROVE  ThreeRows(AllRows(pkts, chan, bw), pkts, n, chan, bw)
<1>1. /\ Len(ScanList(chan, bw)) = 3 /\ Len(pkts) = n
      /\ DOMAIN ScanList(chan, bw) = 1..3
      /\ ScanList(chan, bw)[1] = chan
      /\ ScanList(chan, bw)[2] = Lower(chan, bw)
      /\ ScanList(chan, bw)[3] = Higher(chan, bw)
  BY ScanFacts DEF Inland
<1>2. AllRows(pkts, chan, bw) =
        [i \in 1..(3 * n) |-> Rows(pkts[((i - 1) \div 3) + 1], chan, bw)[((i - 1) % 3) + 1]]
  BY <1>1 DEF AllRows
<1>3. ASSUME NEW k \in 1..n, NEW j \in 1..3
      PROVE  AllRows(pkts, chan, bw)[3 * k - 3 + j] = Row(pkts[k], ScanList(chan, bw)[j], chan)
  <2>1. /\ 3 * k - 3 + j \in 1..(3 * n)
        /\ ((3 * k - 3 + j - 1) \div 3) + 1 = k /\ ((3 * k - 3 + j - 1) % 3) + 1 = j
    OBVIOUS
  <2>2. AllRows(pkts, chan, bw)[3 * k - 3 + j] = Rows(pkts[k], chan, bw)[j]
    BY <1>2, <2>1
  <2> QED BY <1>1, <2>2 DEF Rows, Row
<1>4. ASSUME NEW k \in 1..n
      PROVE  /\ AllRows(pkts, chan, bw)[3 * k - 2] = Row(pkts[k], chan, chan)
             /\ AllRows(pkts, chan, bw)[3 * k - 1] = Row(pkts[k], Lower(chan, bw), chan)
             /\ AllRows(pkts, chan, bw)[3 * k] = Row(pkts[k], Higher(chan, bw), chan)
  <2>1. 3 * k - 3 + 1 = 3 * k - 2 /\ 3 * k - 3 + 2 = 3 * k - 1 /\ 3 * k - 3 + 3 = 3 * k
    OBVIOUS
  <2>2. /\ AllRows(pkts, chan, bw)[3 * k - 3 + 1] = Row(pkts[k], chan, chan)
        /\ AllRows(pkts, chan, bw)[3 * k - 3 + 2] = Row(pkts[k], Lower(chan, bw), chan)
        /\ AllRows(pkts, chan, bw)[3 * k - 3 + 3] = Row(pkts[k], Higher(chan, bw), chan)
    BY <1>1, <1>3
  <2> QED BY <2>1, <2>2
<1> QED BY <1>2, <1>4 DEF ThreeRows

LEMMA ThreeRowsJoin ==
  ASSUME NEW chan, NEW bw, NEW n \in Nat, NEW m \in Nat,
         NEW list, NEW more, NEW pkts, NEW new,
         ThreeRows(list, pkts, n, chan, bw), ThreeRows(more, new, m, chan, bw),
         NEW S, list \in Seq(S), more \in Seq(S), NEW T,
         pkts \in [1..n -> T], new \in [1..m -> T]
  PROVE  ThreeRows(list \o more, pkts \o new, n + m, chan, bw)
<1>1. Len(list) = 3 * n /\ Len(more) = 3 * m
  BY DEF ThreeRows
<1> DEFINE both == pkts \o new
           joined == list \o more
<1>2. /\ \A i \in 1..n : both[i] = pkts[i]
      /\ \A i \in 1..m : both[n + i] = new[i]
  <2>1. pkts \in Seq(T) /\ Len(pkts) = n /\ new \in Seq(T) /\ Len(new) = m
    OBVIOUS
  <2>2. /\ \A i \in 1..Len(pkts) : both[i] = pkts[i]
        /\ \A i \in 1..Len(new) : both[Len(pkts) + i] = new[i]
    BY <2>1, ConcatFacts
  <2> QED BY <2>1, <2>2
<1>3. DOMAIN joined = 1..(3 * (n + m))
  <2>1. 3 * n + 3 * m = 3 * (n + m)
    OBVIOUS
  <2>2. DOMAIN joined = 1..(Len(list) + Len(more))
    BY ConcatFacts
  <2> QED BY <1>1, <2>1, <2>2
<1>4. /\ \A x \in 1..(3 * n) : joined[x] = list[x]
      /\ \A x \in 1..(3 * m) : joined[3 * n + x] = more[x]
  <2>1. /\ \A x \in 1..Len(list) : joined[x] = list[x]
        /\ \A x \in 1..Len(more) : joined[Len(list) + x] = more[x]
    BY ConcatFacts
  <2> QED BY <1>1, <2>1
<1> HIDE DEF both, joined
<1>5. ASSUME NEW k \in 1..(n + m)
      PROVE  /\ joined[3 * k - 2] = Row(both[k], chan, chan)
             /\ joined[3 * k - 1] = Row(both[k], Lower(chan, bw), chan)
             /\ joined[3 * k] = Row(both[k], Higher(chan, bw), chan)
  <2>1. CASE k <= n
    <3>1. k \in 1..n /\ both[k] = pkts[k]
      BY <1>2, <2>1
    <3>2. /\ joined[3 * k - 2] = list[3 * k - 2]
          /\ joined[3 * k - 1] = list[3 * k - 1]
          /\ joined[3 * k] = list[3 * k]
      <4>1. 3 * k - 2 \in 1..(3 * n) /\ 3 * k - 1 \in 1..(3 * n) /\ 3 * k \in 1..(3 * n)
        BY <2>1
      <4> QED BY <1>4, <4>1
    <3> QED BY <3>1, <3>2 DEF ThreeRows
  <2>2. CASE k > n
    <3>1. PICK j \in 1..m : k = n + j
      <4>1. k - n \in 1..m /\ k = n + (k - n)
        BY <2>2
      <4> QED BY <4>1
    <3>2. both[k] = new[j]
      BY <1>2, <3>1
    <3>3. /\ 3 * j - 2 \in 1..(3 * m) /\ 3 * j - 1 \in 1..(3 * m) /\ 3 * j \in 1..(3 * m)
          /\ 3 * k - 2 = 3 * n + (3 * j - 2) /\ 3 * k - 1 = 3 * n + (3 * j - 1)
          /\ 3 * k = 3 * n + 3 * j
      BY <3>1
    <3>5. /\ joined[3 * n + (3 * j - 2)] = more[3 * j - 2]
          /\ joined[3 * n + (3 * j - 1)] = more[3 * j - 1]
          /\ joined[3 * n + 3 * j] = more[3 * j]
      BY <1>4, <3>3
    <3>6. /\ more[3 * j - 2] = Row(new[j], chan, chan)
          /\ more[3 * j - 1] = Row(new[j], Lower(chan, bw), chan)
          /\ more[3 * j] = Row(new[j], Higher(chan, bw), chan)
      BY DEF ThreeRows
    <3>7. /\ joined[3 * k - 2] = more[3 * j - 2]
          /\ joined[3 * k - 1] = more[3 * j - 1]
          /\ joined[3 * k] = more[3 * j]
      BY <3>3, <3>5
    <3> QED BY <3>2, <3>6, <3>7
  <2> QED BY <2>1, <2>2
<1> QED BY <1>3, <1>5 DEF ThreeRows, both, joined

\* An item is of one packet: its power, and the rows of it.
LEMMA ItemOfPacket ==
  ASSUME NEW chan \in Nat \ {0}, NEW bw \in Width, NEW n \in Nat, NEW pkts,
         NEW list, ThreeRows(list, pkts, n, chan, bw), NEW k \in 1..n
  PROVE  Item(list, chan, k) =
           [maxEirp |-> pkts[k].eirp, maxPSD |-> pkts[k].psd,
            freqPsdPerMHz |-> {Row(pkts[k], chan, chan),
                               Row(pkts[k], Lower(chan, bw), chan),
                               Row(pkts[k], Higher(chan, bw), chan)}]
<1>1. /\ list[3 * k - 2] = Row(pkts[k], chan, chan)
      /\ list[3 * k - 1] = Row(pkts[k], Lower(chan, bw), chan)
      /\ list[3 * k] = Row(pkts[k], Higher(chan, bw), chan)
  BY DEF ThreeRows
<1>2. Lower(chan, bw) # chan /\ Higher(chan, bw) # chan
  BY ScanFacts
<1>3. CenterRow(list, chan, 3 * k) = 3 * k - 2
  <2> DEFINE LastOne(i) == list[i].freq = chan /\ \A j \in (i + 1)..(3 * k) : list[j].freq # chan
  <2>1. 3 * k - 2 \in 1..(3 * k) /\ LastOne(3 * k - 2)
    <3>1. \A j \in ((3 * k - 2) + 1)..(3 * k) : j = 3 * k - 1 \/ j = 3 * k
      OBVIOUS
    <3> QED BY <1>1, <1>2, <3>1 DEF Row
  <2>2. ASSUME NEW i \in 1..(3 * k), LastOne(i) PROVE i = 3 * k - 2
    <3>1. list[3 * k - 2].freq = chan /\ list[3 * k - 1].freq # chan /\ list[3 * k].freq # chan
      BY <1>1, <1>2 DEF Row
    <3>2. i # 3 * k - 1 /\ i # 3 * k
      BY <2>2, <3>1
    <3>3. ~(3 * k - 2 \in (i + 1)..(3 * k))
      BY <2>2, <3>1
    <3> QED BY <3>2, <3>3
  <2>3. CenterRow(list, chan, 3 * k) = CHOOSE i \in 1..(3 * k) : LastOne(i)
    BY DEF CenterRow
  <2> HIDE DEF LastOne
  <2> QED BY <2>1, <2>2, <2>3
<1>4. {list[i] : i \in (3 * k - 2)..(3 * k)} =
        {list[3 * k - 2], list[3 * k - 1], list[3 * k]}
  <2>1. (3 * k - 2)..(3 * k) = {3 * k - 2, 3 * k - 1, 3 * k}
    OBVIOUS
  <2> QED BY <2>1
<1>5. list[3 * k - 2].eirp = pkts[k].eirp /\ list[3 * k - 2].peak = pkts[k].psd
  BY <1>1 DEF Row
<1>6. Item(list, chan, k) =
        [maxEirp |-> list[3 * k - 2].eirp, maxPSD |-> list[3 * k - 2].peak,
         freqPsdPerMHz |-> {list[i] : i \in (3 * k - 2)..(3 * k)}]
  BY <1>3 DEF Item
<1> QED BY <1>1, <1>4, <1>5, <1>6

LEMMA ReportOfPackets ==
  ASSUME NEW chan \in Nat \ {0}, NEW bw \in Width, NEW n \in Nat \ {0}, NEW pkts,
         NEW S, NEW list \in Seq(S), ThreeRows(list, pkts, n, chan, bw)
  PROVE  LET rep == generate_report(chan, bw, list) IN
         /\ rep.found /\ rep.chan = chan /\ rep.bw = bw
         /\ DOMAIN rep.data = 1..n
         /\ \A k \in 1..n : rep.data[k] = Item(list, chan, k)
<1>1. Len(list) = 3 * n /\ (3 * n) \div 3 = n /\ list # <<>>
  BY DEF ThreeRows
<1> QED BY <1>1 DEF generate_report, Report
-----------------------------------------------------------------------------
(***************************************************************************)
(* The inductive invariant: where the script and the driver are, what they *)
(* work on, what the driver has collected, and what was made of it.        *)
(***************************************************************************)
AtInv ==
  /\ script = "start" => doing = "idle" /\ operation = NoOperation
  /\ script = "measure" => mode \in Modes /\ doing \in {"pre_run", "analyze", "returned"}
  /\ script = "monitor" => mode \in Sweep /\ doing \in {"sweep", "returned"}
  /\ script = "end" => doing = "returned" \/ (doing = "idle" /\ mode \in Modes)
  /\ doing = "idle" => script \in {"start", "end"} /\ verdict = Failed

ResponseInv == \E m \in Mask : sent_response = Response(m, mode)

\* What is measured was reported by the DUT and is granted.
JobInv ==
  doing # "idle" /\ mode \in Modes =>
    /\ operation \in Operation
    /\ job = <<MeasuredCfi(operation), operation.bw>> /\ job[1] # 0
    /\ SpLimitGiven(sent_response, mode, job[1], job[2])

\* The rows are those of the packets captured.
RowsInv ==
  doing # "idle" /\ mode \in Modes =>
    /\ rows \in Seq(RowSet) /\ heard \in Seq(Packet)
    /\ doing = "pre_run" => heard = <<>>
    /\ Inland(job[1], job[2]) => ThreeRows(rows, heard, Len(heard), job[1], job[2])

ReportInv ==
  doing = "returned" /\ mode \in Modes =>
    /\ reports \in {<<NoReport>>, <<generate_report(job[1], job[2], rows)>>}
    /\ ~raised /\ heard # <<>> => reports = <<generate_report(job[1], job[2], rows)>>

\* What a sweep captured, channel by channel, is what it heard.
HeardInv ==
  doing # "idle" /\ mode \in Sweep =>
    /\ \A c \in DOMAIN captured_packets : captured_packets[c] # <<>>
    /\ \A i \in DOMAIN heard : \E c \in DOMAIN captured_packets :
         \E k \in DOMAIN captured_packets[c] : captured_packets[c][k] = heard[i]
    /\ \A c \in DOMAIN captured_packets : \A k \in DOMAIN captured_packets[c] :
         \E i \in DOMAIN heard : heard[i] = captured_packets[c][k]

\* A sweep goes over the channels of the band and makes a report of each.
SweepInv ==
  /\ doing = "sweep" => todo \in Seq(Range(all_channels_6g))
  /\ doing = "returned" /\ mode \in Sweep /\ ~raised =>
       Range(reports) = {sweep_report(c[1], c[2], captured_packets[c]) :
                           c \in DOMAIN captured_packets}

VerdictInv ==
  script = "end" /\ doing = "returned" =>
    /\ mode \in Modes => verdict = validate_rf_measurement(sent_response, mode, reports[1])
    /\ mode \in Sweep => verdict = Verdict(ValidateSweep(reports, mode), TRUE)

Inv ==
  /\ TypeOK /\ EveryLengthTriggered
  /\ AtInv /\ ResponseInv /\ JobInv /\ RowsInv /\ ReportInv
  /\ HeardInv /\ SweepInv /\ VerdictInv
-----------------------------------------------------------------------------
(* Facts about the constants and the operators that the steps need. *)

LEMMA ModeFacts == Mode \subseteq Modes \cup Sweep /\ Modes \cap Sweep = {}
BY RfAssumption DEF Modes, Sweep

LEMMA MaskFacts == ASSUME NEW m \in Mask PROVE MaskOK(m)
<1>1. DOMAIN m \subseteq Cfi[20] /\ \A ch \in DOMAIN m : m[ch] \in Int
  BY RfAssumption
<1>2. Cfi[20] \subseteq {ch \in Int : ch % 4 = 1}
  BY LowestPart DEF Width, Reach
<1> QED BY <1>1, <1>2 DEF MaskOK

LEMMA OperatingType ==
  ASSUME NEW bw \in {40, 80, 160, 320}
  PROVE  OperatingCfi(bw) \subseteq Nat \ {0}
BY DEF OperatingCfi, Every

\* A channel of another width than 20 and 320 MHz contains the channel that
\* the DUT reported.
LEMMA MeasuredFacts ==
  ASSUME NEW op \in Operation, MeasuredCfi(op) # 0
  PROVE  /\ MeasuredCfi(op) \in Nat \ {0} /\ op.bw \in Width /\ op.channel \in Nat
         /\ op.bw \in {20, 320} => MeasuredCfi(op) = op.channel
         /\ op.bw \notin {20, 320} =>
              /\ MeasuredCfi(op) \in OperatingCfi(op.bw)
              /\ MeasuredCfi(op) - (op.bw \div 10) < op.channel
              /\ op.channel < MeasuredCfi(op) + (op.bw \div 10)
              /\ op.channel % 4 = 1
<1>1. op.bw \in Width /\ op.channel \in Nat
  BY RfAssumption
<1>2. CASE op.bw \in {20, 320}
  BY <1>1, <1>2 DEF MeasuredCfi
<1>3. CASE op.bw \notin {20, 320}
  <2> DEFINE fits == {cfi \in OperatingCfi(op.bw) :
                        cfi - (op.bw \div 10) < op.channel /\ op.channel < cfi + (op.bw \div 10)}
  <2>1. MeasuredCfi(op) = get_cfi_from_op_channel(op.channel, op.bw)
    BY <1>3 DEF MeasuredCfi
  <2>2. /\ op.channel % 4 = 1 /\ fits # {}
        /\ MeasuredCfi(op) = CHOOSE cfi \in fits : \A other \in fits : cfi <= other
    BY <2>1 DEF get_cfi_from_op_channel
  <2>3. OperatingCfi(op.bw) \subseteq Nat \ {0}
    BY <1>1, <1>3, OperatingType DEF Width
  <2>4. \E cfi \in fits : \A other \in fits : cfi <= other
    <3>1. fits \in SUBSET Nat
      BY <2>3
    <3> HIDE DEF fits
    <3> QED BY <2>2, <3>1, NatHasLeast
  <2>5. MeasuredCfi(op) \in fits
    <3> HIDE DEF fits
    <3> QED BY <2>2, <2>4
  <2> QED BY <1>1, <1>3, <2>2, <2>3, <2>5
<1> QED BY <1>2, <1>3

\* A set made into a sequence.
LEMMA SetToSeqFacts ==
  ASSUME NEW S, IsFiniteSet(S)
  PROVE  /\ SetToSeq(S) \in [1..Cardinality(S) -> S]
         /\ Range(SetToSeq(S)) = S
<1> DEFINE n == Cardinality(S)
<1>1. n \in Nat /\ IsFiniteSet(1..n) /\ Cardinality(1..n) = n
  BY FS_CardinalityType, FS_Interval
<1>2. \E f \in [1..n -> S] : IsInjective(f)
  <2>1. Bijection(1..n, S) # {}
    BY FS_CardinalityType DEF ExistsBijection
  <2> QED BY <2>1 DEF Bijection, Injection
<1>3. SetToSeq(S) \in [1..n -> S] /\ IsInjective(SetToSeq(S))
  BY <1>2 DEF SetToSeq
<1>4. SetToSeq(S) \in Injection(1..n, S)
  BY <1>3 DEF Injection
<1>5. SetToSeq(S) \in Surjection(1..n, S)
  BY <1>1, <1>4, FS_Injection
<1> QED BY <1>3, <1>5 DEF Surjection, Range

LEMMA SweepReports ==
  ASSUME NEW captured, DOMAIN captured \subseteq Range(all_channels_6g)
  PROVE  IsFiniteSet({sweep_report(c[1], c[2], captured[c]) : c \in DOMAIN captured})
<1> DEFINE f == [c \in DOMAIN captured |-> sweep_report(c[1], c[2], captured[c])]
           T == {sweep_report(c[1], c[2], captured[c]) : c \in DOMAIN captured}
<1>1. IsFiniteSet(Range(all_channels_6g))
  <2>1. all_channels_6g \in Surjection(DOMAIN all_channels_6g, Range(all_channels_6g))
    BY DEF Surjection, Range, all_channels_6g
  <2>2. PICK n \in Int : DOMAIN all_channels_6g = 1..n
    BY DEF all_channels_6g
  <2>3. IsFiniteSet(1..n)
    BY FS_Interval
  <2> QED BY <2>1, <2>2, <2>3, FS_Surjection
<1>2. IsFiniteSet(DOMAIN captured)
  BY <1>1, FS_Subset
<1>3. f \in Surjection(DOMAIN captured, T)
  BY DEF Surjection
<1> QED BY <1>2, <1>3, FS_Surjection

LEMMA SweepList ==
  /\ all_channels_6g \in Seq(Range(all_channels_6g))
  /\ \A c \in Range(all_channels_6g) : c \in Nat \X Width
<1>1. /\ DOMAIN all_channels_6g = 1..6
      /\ \A i \in 1..6 : all_channels_6g[i] \in Nat \X Width
  BY DEF all_channels_6g, Width
<1>2. all_channels_6g = [i \in 1..6 |-> all_channels_6g[i]]
  BY DEF all_channels_6g
<1> QED BY <1>1, <1>2 DEF Range

LEMMA ReportType ==
  ASSUME NEW chan, NEW bw \in Width, NEW list
  PROVE  generate_report(chan, bw, list).found \in BOOLEAN
         /\ generate_report(chan, bw, list).bw \in Width
         /\ NoReport.found = FALSE /\ NoReport.bw \in Width
BY DEF generate_report, Report, NoReport, Width

LEMMA OneReport ==
  ASSUME NEW r, r.found \in BOOLEAN, r.bw \in Width
  PROVE  \A i \in DOMAIN <<r>> : <<r>>[i].found \in BOOLEAN /\ <<r>>[i].bw \in Width
<1>1. \A i \in DOMAIN <<r>> : <<r>>[i] = r
  OBVIOUS
<1> QED BY <1>1

LEMMA SweepReportFacts ==
  ASSUME NEW chan, NEW bw, NEW pkts
  PROVE  LET rep == sweep_report(chan, bw, pkts) IN
         /\ rep.found = TRUE /\ rep.bw = bw
         /\ DOMAIN rep.data = {i \in DOMAIN pkts : pkts[i] # Blank}
         /\ \A k \in DOMAIN rep.data : rep.data[k].maxPSD = pkts[k].psd
BY DEF sweep_report, Report

LEMMA NoRows == ASSUME NEW chan, NEW bw PROVE ThreeRows(<<>>, <<>>, 0, chan, bw)
BY DEF ThreeRows

\* What the script is at while the driver works.
LEMMA Where ==
  ASSUME TypeOK, AtInv
  PROVE  /\ doing \in {"pre_run", "analyze"} => script = "measure" /\ mode \in Modes
         /\ doing = "sweep" => script = "monitor" /\ mode \in Sweep
         /\ mode \in Modes \cup Sweep /\ ~(mode \in Modes /\ mode \in Sweep)
BY ModeFacts DEF TypeOK, DriverTypeOK, AtInv
-----------------------------------------------------------------------------
(* The steps. *)

Script == <<script, sent_response, mode, operation, verdict>>

LEMMA EmptyFacts ==
  /\ <<>> \in Seq(Nat) /\ <<>> \in Seq(Packet \cup {Blank}) /\ DOMAIN <<>> = {}
  /\ DOMAIN NoPackets = {}
BY DEF NoPackets

LEMMA InitInv == Init => Inv
<1> SUFFICES ASSUME Init PROVE Inv
  OBVIOUS
<1> USE DEF Init, DriverInit
<1>1. TypeOK
  <2>1. sent_response.mask \in Mask
    BY DEF Response
  <2>2. DriverTypeOK
    <3>1. job \in Int \X Width /\ round \in 0..MaxRound
      BY AnalyzerAssumption DEF NoJob, Width
    <3> QED BY <3>1, EmptyFacts DEF DriverTypeOK
  <2> QED BY <2>1, <2>2 DEF TypeOK, Failed, Verdict
<1>2. EveryLengthTriggered /\ AtInv /\ JobInv /\ RowsInv /\ ReportInv
  BY DEF EveryLengthTriggered, AtInv, JobInv, RowsInv, ReportInv
<1>3. ResponseInv /\ HeardInv /\ SweepInv /\ VerdictInv
  BY DEF ResponseInv, HeardInv, SweepInv, VerdictInv
<1> QED BY <1>1, <1>2, <1>3 DEF Inv

LEMMA MeasureStep ==
  ASSUME Inv, NEW op \in Operation, Measure(op)
  PROVE  Inv'
<1> DEFINE cfi == MeasuredCfi(op)
<1>1. /\ script = "start" /\ mode \in Modes /\ doing = "idle" /\ operation' = op
      /\ UNCHANGED <<sent_response, mode>>
  BY DEF Measure, Inv, AtInv
<1>2. mode \notin Sweep
  BY <1>1, ModeFacts
<1>3. ResponseInv'
  BY <1>1 DEF Inv, ResponseInv
<1>4. CASE /\ script' = "end" /\ verdict' = Failed /\ UNCHANGED driver
  <2> USE <1>1, <1>2, <1>4 DEF driver
  <2>1. TypeOK'
    BY DEF Inv, TypeOK, DriverTypeOK, Failed, Verdict
  <2>2. EveryLengthTriggered' /\ AtInv' /\ JobInv' /\ RowsInv' /\ ReportInv'
    BY DEF EveryLengthTriggered, AtInv, JobInv, RowsInv, ReportInv
  <2>3. HeardInv' /\ SweepInv' /\ VerdictInv'
    BY DEF HeardInv, SweepInv, VerdictInv
  <2> QED BY <1>3, <2>1, <2>2, <2>3 DEF Inv
<1>5. CASE /\ cfi # 0 /\ SpLimitGiven(sent_response, mode, cfi, op.bw)
           /\ script' = "measure" /\ spectrum_analyze(cfi, op.bw) /\ UNCHANGED verdict
  <2> HIDE DEF cfi
  <2>1. cfi \in Nat \ {0} /\ op.bw \in Width
    BY <1>5, MeasuredFacts DEF cfi
  <2>2. /\ doing' = "pre_run" /\ job' = <<cfi, op.bw>> /\ packet_duration_list' = <<>>
        /\ todo' = <<>> /\ round' = 1 /\ rows' = <<>> /\ captured_packets' = NoPackets
        /\ reports' = <<>> /\ seen' = {} /\ heard' = <<>> /\ raised' = FALSE
    BY <1>5 DEF spectrum_analyze, NewDriver
  <2>3. TypeOK'
    <3>1. job' \in Int \X Width /\ round' \in 0..MaxRound
      BY <2>1, <2>2, AnalyzerAssumption
    <3>2. DriverTypeOK'
      BY <2>2, <3>1, EmptyFacts DEF DriverTypeOK
    <3> QED BY <1>1, <1>5, <3>2 DEF Inv, TypeOK
  <2>4. EveryLengthTriggered' /\ AtInv'
    BY <1>1, <1>5, <2>2 DEF EveryLengthTriggered, AtInv
  <2>5. JobInv'
    BY <1>1, <1>5, <2>1, <2>2 DEF JobInv, cfi
  <2>6. RowsInv'
    <3>1. rows' \in Seq(RowSet) /\ heard' \in Seq(Packet) /\ Len(heard') = 0
      BY <2>2
    <3> QED BY <2>2, <3>1, NoRows DEF RowsInv
  <2>7. ReportInv' /\ HeardInv' /\ SweepInv' /\ VerdictInv'
    BY <1>1, <1>2, <1>5, <2>2 DEF ReportInv, HeardInv, SweepInv, VerdictInv
  <2> QED BY <1>3, <2>3, <2>4, <2>5, <2>6, <2>7 DEF Inv
<1> QED BY <1>4, <1>5 DEF Measure

LEMMA MonitorStep ==
  ASSUME Inv, Monitor
  PROVE  Inv'
<1>1. /\ script = "start" /\ mode \in Sweep /\ doing = "idle" /\ mode \notin Modes
      /\ script' = "monitor" /\ UNCHANGED <<sent_response, mode, operation, verdict>>
  BY ModeFacts DEF Monitor, Inv, AtInv
<1>2. /\ doing' = "sweep" /\ job' = <<0, 20>> /\ packet_duration_list' = <<>>
      /\ todo' = all_channels_6g /\ round' = 1 /\ rows' = <<>>
      /\ captured_packets' = NoPackets
      /\ reports' = <<>> /\ seen' = {} /\ heard' = <<>> /\ raised' = FALSE
  BY DEF Monitor, spectrum_analyze_all, NewDriver
<1>3. TypeOK'
  <2>1. job' \in Int \X Width /\ round' \in 0..MaxRound
    BY <1>2, AnalyzerAssumption DEF Width
  <2>2. DriverTypeOK'
    BY <1>2, <2>1, EmptyFacts DEF DriverTypeOK
  <2> QED BY <1>1, <2>2 DEF Inv, TypeOK
<1>4. EveryLengthTriggered' /\ AtInv' /\ JobInv' /\ RowsInv' /\ ReportInv'
  BY <1>1, <1>2 DEF EveryLengthTriggered, AtInv, JobInv, RowsInv, ReportInv
<1>5. ResponseInv' /\ VerdictInv'
  BY <1>1, <1>2 DEF Inv, ResponseInv, VerdictInv
<1>6. HeardInv' /\ SweepInv'
  <2>1. DOMAIN captured_packets' = {} /\ DOMAIN heard' = {}
    BY <1>2 DEF NoPackets
  <2> QED BY <1>2, <2>1, SweepList DEF HeardInv, SweepInv
<1> QED BY <1>3, <1>4, <1>5, <1>6 DEF Inv

LEMMA PairType ==
  ASSUME NEW a \in BOOLEAN, NEW b \in BOOLEAN
  PROVE  Verdict(a, b) \in [power : BOOLEAN, adjacent : BOOLEAN]
BY DEF Verdict

LEMMA VerdictType ==
  ASSUME NEW resp, NEW md \in Modes, NEW rep, rep.found \in BOOLEAN
  PROVE  validate_rf_measurement(resp, md, rep) \in [power : BOOLEAN, adjacent : BOOLEAN]
<1>1. /\ TransmitPowerByFreq(resp, rep) \in BOOLEAN
      /\ TransmitPowerByChan(resp, rep) \in BOOLEAN
      /\ PsdAdjacentFrequencies(resp, rep) \in BOOLEAN
  BY DEF TransmitPowerByFreq, TransmitPowerByChan, PsdAdjacentFrequencies
<1>2. Failed \in [power : BOOLEAN, adjacent : BOOLEAN]
  BY DEF Failed, Verdict
<1>3. CASE ~rep.found
  BY <1>2, <1>3 DEF validate_rf_measurement
<1>4. CASE rep.found /\ md = "freq"
  BY <1>1, <1>4 DEF validate_rf_measurement, Verdict
<1>5. CASE rep.found /\ md = "chan"
  BY <1>1, <1>5 DEF validate_rf_measurement, Verdict
<1>6. CASE rep.found /\ md = "both"
  BY <1>1, <1>2, <1>6 DEF validate_rf_measurement, Verdict
<1> QED BY <1>3, <1>4, <1>5, <1>6 DEF Modes

LEMMA JudgeStep ==
  ASSUME Inv, Judge
  PROVE  Inv'
<1>1. /\ doing = "returned" /\ script' = "end"
      /\ UNCHANGED <<sent_response, mode, operation, driver>>
  BY DEF Judge
<1>2. /\ mode \in Modes =>
           verdict' = validate_rf_measurement(sent_response, mode, reports[1])
      /\ mode \in Sweep => verdict' = Verdict(ValidateSweep(reports, mode), TRUE)
      /\ mode \in Modes \cup Sweep
  BY ModeFacts DEF Judge, Inv, AtInv, TypeOK
<1>3. verdict' \in [power : BOOLEAN, adjacent : BOOLEAN]
  <2>1. CASE mode \in Modes
    <3>1. reports[1].found \in BOOLEAN
      BY <1>1, <2>1, ReportType DEF Inv, ReportInv, TypeOK, DriverTypeOK
    <3> QED BY <1>2, <2>1, <3>1, VerdictType
  <2>2. CASE mode \in Sweep
    <3>1. ValidateSweep(reports, mode) \in BOOLEAN
      BY DEF ValidateSweep
    <3>2. Verdict(ValidateSweep(reports, mode), TRUE) \in [power : BOOLEAN, adjacent : BOOLEAN]
      BY <3>1, PairType
    <3> QED BY <1>2, <2>2, <3>2
  <2> QED BY <1>2, <2>1, <2>2
<1>4. TypeOK'
  BY <1>1, <1>3 DEF Inv, TypeOK, DriverTypeOK, driver
<1>5. EveryLengthTriggered' /\ AtInv' /\ ResponseInv'
  BY <1>1 DEF Inv, EveryLengthTriggered, AtInv, ResponseInv, driver
<1>6. JobInv' /\ RowsInv' /\ ReportInv'
  BY <1>1 DEF Inv, JobInv, RowsInv, ReportInv, driver
<1>7. HeardInv' /\ SweepInv'
  BY <1>1 DEF Inv, HeardInv, SweepInv, driver
<1>8. VerdictInv'
  BY <1>1, <1>2 DEF VerdictInv, driver
<1> QED BY <1>4, <1>5, <1>6, <1>7, <1>8 DEF Inv

LEMMA PreRunStep ==
  ASSUME Inv, PreRun, UNCHANGED Script
  PROVE  Inv'
<1>1. /\ doing = "pre_run" /\ script = "measure" /\ mode \in Modes /\ mode \notin Sweep
      /\ UNCHANGED <<job, round, rows, captured_packets, heard, raised>>
      /\ UNCHANGED <<script, sent_response, mode, operation, verdict>>
  BY Where DEF PreRun, Inv, Script
<1>2. heard = <<>> /\ doing' # "idle"
  BY <1>1 DEF PreRun, Return, Inv, RowsInv
<1>3. /\ packet_duration_list' \in Seq(Nat) /\ seen' \subseteq Packet
      /\ \/ doing' = "returned" /\ reports' = <<NoReport>>
         \/ doing' = "analyze" /\ reports' = reports
      /\ EveryLengthTriggered'
  <2>1. CASE /\ Return(<<NoReport>>) /\ UNCHANGED <<packet_duration_list, todo, seen>>
    BY <2>1 DEF Return, EveryLengthTriggered, Inv, TypeOK, DriverTypeOK
  <2>2. CASE \E pkts \in UNION {[1..n -> Packet] : n \in 1..MaxCaptured} :
                /\ packet_duration_list' = Durations(pkts) /\ seen' = Range(pkts)
                /\ doing' = "analyze" /\ reports' = reports
    <3>1. PICK pkts \in UNION {[1..n -> Packet] : n \in 1..MaxCaptured} :
            /\ packet_duration_list' = Durations(pkts) /\ seen' = Range(pkts)
            /\ doing' = "analyze" /\ reports' = reports
      BY <2>2
    <3>2. PICK n \in 1..MaxCaptured : pkts \in [1..n -> Packet]
      OBVIOUS
    <3>3. n \in Nat
      BY AnalyzerAssumption
    <3>4. Covers(Durations(pkts), pkts, n)
      BY <3>2, <3>3, DurationsCover
    <3>5. packet_duration_list' \in Seq(Nat)
      BY <3>1, <3>4 DEF Covers
    <3>6. seen' \subseteq Packet /\ seen' = {pkts[j] : j \in 1..n}
      BY <3>1, <3>2 DEF Range
    <3>7. EveryLengthTriggered'
      BY <3>1, <3>4, <3>6 DEF EveryLengthTriggered, Covers
    <3> QED BY <3>1, <3>5, <3>6, <3>7
  <2> QED BY <2>1, <2>2 DEF PreRun
<1>4. TypeOK'
  <2>1. \A i \in DOMAIN reports' : reports'[i].found \in BOOLEAN /\ reports'[i].bw \in Width
    <3>1. NoReport.found \in BOOLEAN /\ NoReport.bw \in Width
      BY DEF NoReport, Width
    <3> QED BY <1>3, <3>1 DEF Inv, TypeOK, DriverTypeOK
  <2>2. DriverTypeOK'
    BY <1>1, <1>3, <2>1 DEF Inv, TypeOK, DriverTypeOK
  <2> QED BY <1>1, <2>2 DEF Inv, TypeOK
<1>5. AtInv' /\ ResponseInv' /\ VerdictInv'
  BY <1>1, <1>3 DEF Inv, AtInv, ResponseInv, VerdictInv
<1>6. JobInv' /\ RowsInv'
  BY <1>1, <1>2, <1>3 DEF Inv, JobInv, RowsInv
<1>7. ReportInv' /\ HeardInv' /\ SweepInv'
  BY <1>1, <1>2, <1>3 DEF Inv, ReportInv, HeardInv, SweepInv
<1> QED BY <1>3, <1>4, <1>5, <1>6, <1>7 DEF Inv

LEMMA CaptureStep ==
  ASSUME Inv, Capture, UNCHANGED Script
  PROVE  Inv'
<1>1. /\ doing = "analyze" /\ script = "measure" /\ mode \in Modes /\ mode \notin Sweep
      /\ UNCHANGED <<doing, job, packet_duration_list, round, captured_packets, reports,
                     seen, raised>>
      /\ UNCHANGED <<script, sent_response, mode, operation, verdict>>
  BY Where DEF Capture, Inv, Script
<1>2. /\ rows \in Seq(RowSet) /\ heard \in Seq(Packet)
      /\ Inland(job[1], job[2]) => ThreeRows(rows, heard, Len(heard), job[1], job[2])
  BY <1>1 DEF Inv, RowsInv
<1>3. job[1] \in Nat \ {0} /\ job[2] \in Width
  BY <1>1, MeasuredFacts DEF Inv, JobInv
<1>4. /\ rows' \in Seq(RowSet) /\ heard' \in Seq(Packet)
      /\ Inland(job[1], job[2]) => ThreeRows(rows', heard', Len(heard'), job[1], job[2])
  <2>1. CASE UNCHANGED <<rows, heard>>
    BY <1>2, <2>1
  <2>2. CASE \E n \in 0..MaxCaptured :
             \E pkts \in [1..n -> {p \in Packet : Near(p.dur, Head(todo))}] :
                /\ rows' = rows \o AllRows(pkts, job[1], job[2]) /\ heard' = heard \o pkts
    <3>1. PICK n \in 0..MaxCaptured :
             \E pkts \in [1..n -> {p \in Packet : Near(p.dur, Head(todo))}] :
               /\ rows' = rows \o AllRows(pkts, job[1], job[2]) /\ heard' = heard \o pkts
      BY <2>2
    <3>2. PICK pkts \in [1..n -> {p \in Packet : Near(p.dur, Head(todo))}] :
            /\ rows' = rows \o AllRows(pkts, job[1], job[2]) /\ heard' = heard \o pkts
      BY <3>1
    <3>3. n \in Nat /\ pkts \in [1..n -> Packet]
      BY AnalyzerAssumption
    <3>4. pkts \in Seq(Packet) /\ Len(pkts) = n
      BY <3>3
    <3> DEFINE more == AllRows(pkts, job[1], job[2])
    <3>5. more \in Seq(RowSet)
      BY <1>3, <3>3, AllRowsType
    <3>6. rows' \in Seq(RowSet)
      <4>1. rows \o more \in Seq(RowSet)
        <5> HIDE DEF more
        <5> QED BY <1>2, <3>5, ConcatFacts
      <4> QED BY <3>2, <4>1
    <3>7. heard' \in Seq(Packet) /\ Len(heard') = Len(heard) + n
      BY <1>2, <3>2, <3>4, ConcatFacts
    <3>8. ASSUME Inland(job[1], job[2])
          PROVE  ThreeRows(rows', heard', Len(heard'), job[1], job[2])
      <4>1. ThreeRows(more, pkts, n, job[1], job[2])
        BY <1>3, <3>3, <3>8, AllRowsThree
      <4>2. Len(heard) \in Nat /\ heard \in [1..Len(heard) -> Packet]
        BY <1>2
      <4>3. ThreeRows(rows, heard, Len(heard), job[1], job[2])
        BY <1>2, <3>8
      <4> HIDE DEF more
      <4>4. ThreeRows(rows \o more, heard \o pkts, Len(heard) + n, job[1], job[2])
        BY <1>2, <3>3, <3>5, <4>1, <4>2, <4>3, ThreeRowsJoin
      <4> QED BY <3>2, <3>7, <4>4 DEF more
    <3> QED BY <3>6, <3>7, <3>8
  <2> QED BY <2>1, <2>2 DEF Capture
<1>5. TypeOK'
  <2>1. heard' \in Seq(Packet \cup {Blank})
    BY <1>4
  <2>2. \A i \in DOMAIN rows' : rows'[i].freq > 0 /\ rows'[i].eirp \in Int
    <3>1. \A i \in DOMAIN rows' : rows'[i] \in RowSet
      BY <1>4
    <3> QED BY <3>1 DEF RowSet
  <2>3. DriverTypeOK'
    BY <1>1, <2>1, <2>2 DEF Inv, TypeOK, DriverTypeOK
  <2> QED BY <1>1, <2>3 DEF Inv, TypeOK
<1>6. EveryLengthTriggered' /\ AtInv' /\ ResponseInv' /\ VerdictInv'
  BY <1>1 DEF Inv, EveryLengthTriggered, AtInv, ResponseInv, VerdictInv
<1>7. JobInv' /\ RowsInv'
  BY <1>1, <1>4 DEF Inv, JobInv, RowsInv
<1>8. ReportInv' /\ HeardInv' /\ SweepInv'
  BY <1>1 DEF ReportInv, HeardInv, SweepInv
<1> QED BY <1>5, <1>6, <1>7, <1>8 DEF Inv

\* What one more packet p of channel c adds to the packets of a sweep.
LEMMA ExtendFacts ==
  ASSUME NEW S, NEW c, NEW p \in S, Extend(c, <<p>>),
         \A x \in DOMAIN captured_packets : captured_packets[x] \in Seq(S)
  PROVE  /\ DOMAIN captured_packets' = DOMAIN captured_packets \cup {c}
         /\ \A x \in DOMAIN captured_packets' :
              captured_packets'[x] \in Seq(S)
         /\ \A x \in DOMAIN captured_packets \ {c} :
              captured_packets'[x] = captured_packets[x]
         /\ captured_packets'[c] # <<>>
         /\ c \in DOMAIN captured_packets => \A k \in DOMAIN captured_packets[c] :
              k \in DOMAIN captured_packets'[c] /\ captured_packets'[c][k] = captured_packets[c][k]
         /\ \E k \in DOMAIN captured_packets'[c] : captured_packets'[c][k] = p
         /\ \A k \in DOMAIN captured_packets'[c] :
              \/ captured_packets'[c][k] = p
              \/ /\ c \in DOMAIN captured_packets /\ k \in DOMAIN captured_packets[c]
                 /\ captured_packets'[c][k] = captured_packets[c][k]
<1> DEFINE old == IF c \in DOMAIN captured_packets THEN captured_packets[c] ELSE <<>>
           new == old \o <<p>>
<1>1. /\ DOMAIN captured_packets' = DOMAIN captured_packets \cup {c}
      /\ \A x \in DOMAIN captured_packets \ {c} : captured_packets'[x] = captured_packets[x]
      /\ captured_packets'[c] = new
  BY DEF Extend
<1>2. old \in Seq(S)
  OBVIOUS
<1>3. <<p>> \in Seq(S) /\ Len(<<p>>) = 1 /\ <<p>>[1] = p
  BY Singleton
<1>4. DOMAIN old = 1..Len(old) /\ Len(old) \in Nat
  <2> HIDE DEF old
  <2> QED BY <1>2
<1>5. /\ new \in Seq(S) /\ Len(new) = Len(old) + 1 /\ DOMAIN new = 1..(Len(old) + 1)
      /\ \A i \in 1..Len(old) : new[i] = old[i]
      /\ new[Len(old) + 1] = p
  <2> HIDE DEF old
  <2>1. /\ new \in Seq(S) /\ Len(new) = Len(old) + Len(<<p>>)
        /\ DOMAIN new = 1..(Len(old) + Len(<<p>>))
        /\ \A i \in 1..Len(old) : new[i] = old[i]
        /\ \A i \in 1..Len(<<p>>) : new[Len(old) + i] = <<p>>[i]
    BY <1>2, <1>3, ConcatFacts
  <2> HIDE DEF new
  <2> QED BY <1>3, <2>1
<1> HIDE DEF new
<1>6. new # <<>>
  BY <1>4, <1>5
<1>7. c \in DOMAIN captured_packets => old = captured_packets[c]
  OBVIOUS
<1>8. c \notin DOMAIN captured_packets => DOMAIN old = {}
  BY EmptyFacts
<1> HIDE DEF old
<1>9. /\ Len(old) + 1 \in DOMAIN new
      /\ \A k \in DOMAIN old : k \in DOMAIN new /\ new[k] = old[k]
      /\ \A k \in DOMAIN new : k = Len(old) + 1 \/ k \in DOMAIN old
  BY <1>4, <1>5
<1> QED BY <1>1, <1>5, <1>6, <1>7, <1>8, <1>9

LEMMA SweepOneStep ==
  ASSUME Inv, SweepOne, UNCHANGED Script
  PROVE  Inv'
<1>1. /\ doing = "sweep" /\ script = "monitor" /\ mode \in Sweep /\ mode \notin Modes
      /\ todo # <<>> /\ todo' = Tail(todo)
      /\ UNCHANGED <<doing, job, packet_duration_list, round, rows, reports, seen, raised>>
      /\ UNCHANGED <<script, sent_response, mode, operation, verdict>>
  BY Where DEF SweepOne, Inv, Script
<1>2. todo \in Seq(Range(all_channels_6g))
  BY <1>1 DEF Inv, SweepInv
<1>3. todo' \in Seq(Range(all_channels_6g)) /\ Head(todo) \in Range(all_channels_6g)
  BY <1>1, <1>2
<1>4. /\ DOMAIN captured_packets' \subseteq Range(all_channels_6g)
      /\ \A c \in DOMAIN captured_packets' : captured_packets'[c] \in Seq(Packet \cup {Blank})
      /\ heard' \in Seq(Packet \cup {Blank})
      /\ HeardInv'
  <2>1. CASE UNCHANGED <<captured_packets, heard>>
    BY <1>1, <2>1 DEF Inv, TypeOK, DriverTypeOK, HeardInv
  <2>2. CASE \E p \in Packet \cup {Blank} :
               Extend(Head(todo), <<p>>) /\ heard' = Append(heard, p)
    <3> DEFINE S == Packet \cup {Blank}
               c == Head(todo)
    <3>1. PICK p \in S : Extend(c, <<p>>) /\ heard' = Append(heard, p)
      BY <2>2
    <3>2. /\ heard \in Seq(S) /\ DOMAIN captured_packets \subseteq Range(all_channels_6g)
          /\ \A x \in DOMAIN captured_packets : captured_packets[x] \in Seq(S)
      BY DEF Inv, TypeOK, DriverTypeOK
    <3> HIDE DEF S, c
    <3>3. /\ heard' \in Seq(S) /\ DOMAIN heard' = DOMAIN heard \cup {Len(heard) + 1}
          /\ \A i \in DOMAIN heard : heard'[i] = heard[i]
          /\ heard'[Len(heard) + 1] = p
      BY <3>1, <3>2
    <3>4. /\ DOMAIN captured_packets' = DOMAIN captured_packets \cup {c}
          /\ \A x \in DOMAIN captured_packets' : captured_packets'[x] \in Seq(S)
          /\ \A x \in DOMAIN captured_packets \ {c} :
               captured_packets'[x] = captured_packets[x]
          /\ captured_packets'[c] # <<>>
          /\ c \in DOMAIN captured_packets => \A k \in DOMAIN captured_packets[c] :
               k \in DOMAIN captured_packets'[c] /\ captured_packets'[c][k] = captured_packets[c][k]
          /\ \E k \in DOMAIN captured_packets'[c] : captured_packets'[c][k] = p
          /\ \A k \in DOMAIN captured_packets'[c] :
               \/ captured_packets'[c][k] = p
               \/ /\ c \in DOMAIN captured_packets /\ k \in DOMAIN captured_packets[c]
                  /\ captured_packets'[c][k] = captured_packets[c][k]
      BY <3>1, <3>2, ExtendFacts
    <3>5. /\ \A x \in DOMAIN captured_packets : captured_packets[x] # <<>>
          /\ \A i \in DOMAIN heard : \E x \in DOMAIN captured_packets :
               \E k \in DOMAIN captured_packets[x] : captured_packets[x][k] = heard[i]
          /\ \A x \in DOMAIN captured_packets : \A k \in DOMAIN captured_packets[x] :
               \E i \in DOMAIN heard : heard[i] = captured_packets[x][k]
      BY <1>1 DEF Inv, HeardInv
    <3>6. \A x \in DOMAIN captured_packets' : captured_packets'[x] # <<>>
      BY <3>4, <3>5
    <3>7. ASSUME NEW i \in DOMAIN heard'
          PROVE  \E x \in DOMAIN captured_packets' : \E k \in DOMAIN captured_packets'[x] :
                   captured_packets'[x][k] = heard'[i]
      <4>1. CASE i = Len(heard) + 1
        BY <3>3, <3>4, <4>1
      <4>2. CASE i \in DOMAIN heard
        <5>1. PICK x \in DOMAIN captured_packets :
                \E k \in DOMAIN captured_packets[x] : captured_packets[x][k] = heard[i]
          BY <3>5, <4>2
        <5>2. PICK k \in DOMAIN captured_packets[x] : captured_packets[x][k] = heard[i]
          BY <5>1
        <5>3. heard'[i] = heard[i] /\ x \in DOMAIN captured_packets'
          BY <3>3, <3>4, <4>2
        <5>4. k \in DOMAIN captured_packets'[x] /\ captured_packets'[x][k] = captured_packets[x][k]
          BY <3>4
        <5> QED BY <5>2, <5>3, <5>4
      <4> QED BY <3>3, <4>1, <4>2
    <3>8. ASSUME NEW x \in DOMAIN captured_packets', NEW k \in DOMAIN captured_packets'[x]
          PROVE  \E i \in DOMAIN heard' : heard'[i] = captured_packets'[x][k]
      <4>1. CASE captured_packets'[x][k] = p
        BY <3>3, <4>1
      <4>2. CASE captured_packets'[x][k] # p
        <5>1. /\ x \in DOMAIN captured_packets /\ k \in DOMAIN captured_packets[x]
              /\ captured_packets'[x][k] = captured_packets[x][k]
          BY <3>4, <4>2
        <5>2. PICK i \in DOMAIN heard : heard[i] = captured_packets[x][k]
          BY <3>5, <5>1
        <5> QED BY <3>3, <5>1, <5>2
      <4> QED BY <4>1, <4>2
    <3>9. HeardInv'
      BY <3>6, <3>7, <3>8 DEF HeardInv
    <3>10. c \in Range(all_channels_6g)
      BY <1>3 DEF c
    <3> QED BY <3>2, <3>3, <3>4, <3>9, <3>10 DEF S
  <2> QED BY <2>1, <2>2 DEF SweepOne
<1>5. TypeOK'
  <2>1. DriverTypeOK'
    BY <1>1, <1>4 DEF Inv, TypeOK, DriverTypeOK
  <2> QED BY <1>1, <2>1 DEF Inv, TypeOK
<1>6. EveryLengthTriggered' /\ AtInv' /\ ResponseInv' /\ VerdictInv'
  BY <1>1 DEF Inv, EveryLengthTriggered, AtInv, ResponseInv, VerdictInv
<1>7. JobInv' /\ RowsInv' /\ ReportInv' /\ SweepInv'
  BY <1>1, <1>3 DEF JobInv, RowsInv, ReportInv, SweepInv
<1> QED BY <1>4, <1>5, <1>6, <1>7 DEF Inv

LEMMA RoundEndsStep ==
  ASSUME Inv, RoundEnds, UNCHANGED Script
  PROVE  Inv'
<1>1. /\ round < MaxRound /\ round' = round + 1 /\ doing \in {"analyze", "sweep"}
      /\ doing = "sweep" => todo' = all_channels_6g
      /\ UNCHANGED <<doing, job, packet_duration_list, rows, captured_packets, reports,
                     seen, heard, raised>>
      /\ UNCHANGED <<script, sent_response, mode, operation, verdict>>
  BY DEF RoundEnds, AnotherRound, Script
<1>2. TypeOK'
  <2>1. round' \in 0..MaxRound
    BY <1>1, AnalyzerAssumption DEF Inv, TypeOK, DriverTypeOK
  <2>2. DriverTypeOK'
    BY <1>1, <2>1 DEF Inv, TypeOK, DriverTypeOK
  <2> QED BY <1>1, <2>2 DEF Inv, TypeOK
<1>3. EveryLengthTriggered' /\ AtInv' /\ ResponseInv' /\ VerdictInv'
  BY <1>1 DEF Inv, EveryLengthTriggered, AtInv, ResponseInv, VerdictInv
<1>4. JobInv' /\ RowsInv' /\ ReportInv' /\ HeardInv'
  BY <1>1 DEF Inv, JobInv, RowsInv, ReportInv, HeardInv
<1>5. SweepInv'
  BY <1>1, SweepList DEF SweepInv
<1> QED BY <1>2, <1>3, <1>4, <1>5 DEF Inv

LEMMA TimeUpStep ==
  ASSUME Inv, TimeUp, UNCHANGED Script
  PROVE  Inv'
<1>1. /\ doing \in {"analyze", "sweep"} /\ doing' = "returned"
      /\ script \in {"measure", "monitor"}
      /\ doing = "analyze" => script = "measure" /\ mode \in Modes /\ mode \notin Sweep
      /\ doing = "sweep" => script = "monitor" /\ mode \in Sweep /\ mode \notin Modes
      /\ UNCHANGED <<job, packet_duration_list, round, rows, captured_packets,
                     seen, heard, raised>>
      /\ UNCHANGED <<script, sent_response, mode, operation, verdict>>
  BY Where DEF TimeUp, Return, Script, Inv
<1> DEFINE All == {sweep_report(c[1], c[2], captured_packets[c]) : c \in DOMAIN captured_packets}
<1>2. /\ doing = "analyze" => reports' = <<generate_report(job[1], job[2], rows)>>
      /\ doing = "sweep" => reports' = SetToSeq(All)
  BY DEF TimeUp, Return
<1>3. doing = "sweep" => /\ Range(reports') = All
                         /\ \A i \in DOMAIN reports' : reports'[i] \in All
  <2>1. IsFiniteSet(All)
    BY SweepReports DEF Inv, TypeOK, DriverTypeOK
  <2> HIDE DEF All
  <2> QED BY <1>2, <2>1, SetToSeqFacts
<1>4. TypeOK'
  <2>1. \A i \in DOMAIN reports' : reports'[i].found \in BOOLEAN /\ reports'[i].bw \in Width
    <3>1. CASE doing = "analyze"
      <4>1. job[2] \in Width
        BY DEF Inv, TypeOK, DriverTypeOK
      <4>2. /\ generate_report(job[1], job[2], rows).found \in BOOLEAN
            /\ generate_report(job[1], job[2], rows).bw \in Width
        BY <4>1, ReportType
      <4> QED BY <1>2, <3>1, <4>2, OneReport
    <3>2. CASE doing = "sweep"
      <4>1. \A c \in DOMAIN captured_packets : c[2] \in Width
        BY SweepList DEF Inv, TypeOK, DriverTypeOK
      <4>2. \A r \in All : r.found \in BOOLEAN /\ r.bw \in Width
        <5>1. ASSUME NEW c \in DOMAIN captured_packets
              PROVE  /\ sweep_report(c[1], c[2], captured_packets[c]).found = TRUE
                     /\ sweep_report(c[1], c[2], captured_packets[c]).bw \in Width
          BY <4>1 DEF sweep_report, Report
        <5> QED BY <5>1
      <4> HIDE DEF All
      <4> QED BY <1>3, <3>2, <4>2
    <3> QED BY <1>1, <3>1, <3>2
  <2>2. DriverTypeOK'
    BY <1>1, <2>1 DEF Inv, TypeOK, DriverTypeOK
  <2> QED BY <1>1, <2>2 DEF Inv, TypeOK
<1>5. EveryLengthTriggered' /\ AtInv' /\ ResponseInv' /\ VerdictInv'
  BY <1>1 DEF Inv, EveryLengthTriggered, AtInv, ResponseInv, VerdictInv
<1>6. JobInv' /\ RowsInv' /\ HeardInv'
  BY <1>1 DEF Inv, JobInv, RowsInv, HeardInv
<1>7. ReportInv'
  BY <1>1, <1>2 DEF ReportInv
<1>8. SweepInv'
  BY <1>1, <1>3 DEF SweepInv
<1> QED BY <1>4, <1>5, <1>6, <1>7, <1>8 DEF Inv

LEMMA RaiseStep ==
  ASSUME Inv, Raise, UNCHANGED Script
  PROVE  Inv'
<1>1. /\ doing' = "returned" /\ raised' = TRUE
      /\ doing \in {"pre_run", "analyze", "sweep"} /\ script \in {"measure", "monitor"}
      /\ \/ reports' = <<NoReport>>
         \/ reports' = <<>> /\ mode \in Sweep /\ mode \notin Modes
      /\ UNCHANGED <<job, packet_duration_list, todo, round, rows, captured_packets,
                     seen, heard>>
      /\ UNCHANGED <<script, sent_response, mode, operation, verdict>>
  BY Where DEF Raise, Return, Script, Inv
<1>2. TypeOK'
  <2>1. \A i \in DOMAIN reports' : reports'[i].found \in BOOLEAN /\ reports'[i].bw \in Width
    <3>1. NoReport.found \in BOOLEAN /\ NoReport.bw \in Width
      BY DEF NoReport, Width
    <3>2. CASE reports' = <<NoReport>>
      BY <3>1, <3>2, OneReport
    <3>3. CASE reports' = <<>>
      BY <3>3, EmptyFacts
    <3> QED BY <1>1, <3>2, <3>3
  <2>2. DriverTypeOK'
    BY <1>1, <2>1 DEF Inv, TypeOK, DriverTypeOK
  <2> QED BY <1>1, <2>2 DEF Inv, TypeOK
<1>3. EveryLengthTriggered' /\ AtInv' /\ ResponseInv' /\ VerdictInv'
  BY <1>1 DEF Inv, EveryLengthTriggered, AtInv, ResponseInv, VerdictInv
<1>4. JobInv' /\ RowsInv' /\ HeardInv'
  BY <1>1 DEF Inv, JobInv, RowsInv, HeardInv
<1>5. ReportInv' /\ SweepInv'
  BY <1>1 DEF ReportInv, SweepInv
<1> QED BY <1>2, <1>3, <1>4, <1>5 DEF Inv

LEMMA Invariance == Spec => []Inv
<1>1. Inv /\ [Next]_vars => Inv'
  <2>1. SUFFICES ASSUME Inv, [Next]_vars PROVE Inv'
    OBVIOUS
  <2>2. CASE UNCHANGED vars
    <3>1. /\ TypeOK' /\ EveryLengthTriggered' /\ AtInv' /\ ResponseInv' /\ JobInv'
      BY <2>1, <2>2 DEF Inv, vars, driver, TypeOK, DriverTypeOK, EveryLengthTriggered, AtInv,
                        ResponseInv, JobInv
    <3>2. RowsInv' /\ ReportInv' /\ VerdictInv'
      BY <2>1, <2>2 DEF Inv, vars, driver, RowsInv, ReportInv, VerdictInv
    <3>3. HeardInv'
      BY <2>1, <2>2 DEF Inv, vars, driver, HeardInv
    <3>4. SweepInv'
      BY <2>1, <2>2 DEF Inv, vars, driver, SweepInv
    <3> QED BY <3>1, <3>2, <3>3, <3>4 DEF Inv
  <2>3. ASSUME NEW op \in Operation, Measure(op) PROVE Inv'
    BY <2>1, <2>3, MeasureStep
  <2>4. CASE Drive
    <3>1. UNCHANGED Script
      BY <2>4 DEF Drive, Script
    <3> QED BY <2>1, <2>4, <3>1, PreRunStep, CaptureStep, SweepOneStep, RoundEndsStep,
               TimeUpStep, RaiseStep DEF Drive, DriverNext
  <2> QED BY <2>1, <2>2, <2>3, <2>4, MonitorStep, JudgeStep DEF Next
<1> QED BY InitInv, <1>1, PTL DEF Spec
-----------------------------------------------------------------------------
(* What a verdict says. *)

\* The type of the state: the driver's reports can always be judged.
THEOREM TypeCorrect == Spec => []TypeOK
<1>1. Inv => TypeOK
  BY DEF Inv
<1> QED BY <1>1, Invariance, PTL

\* A packet seen in the pre-run is of a length that some capture triggers on,
\* whatever lengths the DUT sends and in whatever order.
THEOREM LengthsTriggered == Spec => []EveryLengthTriggered
<1>1. Inv => EveryLengthTriggered
  BY DEF Inv
<1> QED BY <1>1, Invariance, PTL

LEMMA VerdictFacts ==
  ASSUME NEW resp, NEW md \in Modes, NEW rep, rep.found \in BOOLEAN
  PROVE  LET v == validate_rf_measurement(resp, md, rep)
             byFreq == TransmitPowerByFreq(resp, rep)
             byChan == TransmitPowerByChan(resp, rep)
             beside == PsdAdjacentFrequencies(resp, rep) IN
         /\ v.power <=> /\ rep.found
                        /\ md \in {"freq", "both"} => byFreq
                        /\ md \in {"chan", "both"} => byChan
         /\ v.adjacent <=> /\ rep.found
                           /\ md \in {"freq", "both"} => beside
                           /\ md = "both" => byFreq /\ byChan
<1> DEFINE byFreq == TransmitPowerByFreq(resp, rep)
           byChan == TransmitPowerByChan(resp, rep)
           beside == PsdAdjacentFrequencies(resp, rep)
<1>1. byFreq \in BOOLEAN /\ byChan \in BOOLEAN /\ beside \in BOOLEAN
  BY DEF TransmitPowerByFreq, TransmitPowerByChan, PsdAdjacentFrequencies
<1>2. /\ ~rep.found => validate_rf_measurement(resp, md, rep) = Verdict(FALSE, FALSE)
      /\ rep.found /\ md = "freq" =>
           validate_rf_measurement(resp, md, rep) = Verdict(byFreq, beside)
      /\ rep.found /\ md = "chan" =>
           validate_rf_measurement(resp, md, rep) = Verdict(byChan, TRUE)
      /\ rep.found /\ md = "both" /\ byFreq /\ byChan =>
           validate_rf_measurement(resp, md, rep) = Verdict(TRUE, beside)
      /\ rep.found /\ md = "both" /\ ~(byFreq /\ byChan) =>
           validate_rf_measurement(resp, md, rep) = Verdict(FALSE, FALSE)
  BY DEF validate_rf_measurement, Failed
<1>3. \A a, b \in BOOLEAN : (Verdict(a, b).power <=> a) /\ (Verdict(a, b).adjacent <=> b)
  BY DEF Verdict
<1> HIDE DEF byFreq, byChan, beside
<1>4. CASE ~rep.found
  BY <1>2, <1>3, <1>4
<1>5. CASE rep.found /\ md = "freq"
  BY <1>1, <1>2, <1>3, <1>5 DEF byFreq, byChan, beside
<1>6. CASE rep.found /\ md = "chan"
  BY <1>1, <1>2, <1>3, <1>6 DEF byFreq, byChan, beside
<1>7. CASE rep.found /\ md = "both"
  BY <1>1, <1>2, <1>3, <1>7 DEF byFreq, byChan, beside
<1> QED BY <1>4, <1>5, <1>6, <1>7 DEF Modes

\* The report of a measurement on an inland channel has an item for each
\* packet captured, with its power and its level in the three channels.
LEMMA ReportedPackets ==
  ASSUME Inv, Measured, Inland(job[1], job[2]), reports[1].found
  PROVE  LET rep == reports[1] IN
         /\ rep.chan = job[1] /\ rep.bw = job[2]
         /\ DOMAIN rep.data = DOMAIN heard /\ heard # <<>>
         /\ \A i \in DOMAIN heard :
              /\ rep.data[i].maxEirp = heard[i].eirp /\ rep.data[i].maxPSD = heard[i].psd
              /\ rep.data[i].freqPsdPerMHz =
                   {Row(heard[i], job[1], job[1]), Row(heard[i], Lower(job[1], job[2]), job[1]),
                    Row(heard[i], Higher(job[1], job[2]), job[1])}
<1>1. /\ rows \in Seq(RowSet) /\ heard \in Seq(Packet)
      /\ ThreeRows(rows, heard, Len(heard), job[1], job[2])
      /\ reports \in {<<NoReport>>, <<generate_report(job[1], job[2], rows)>>}
  BY DEF Inv, Measured, RowsInv, ReportInv
<1>2. job[1] \in Nat \ {0} /\ job[2] \in Width
  BY MeasuredFacts DEF Inv, Measured, JobInv
<1>3. reports[1] = generate_report(job[1], job[2], rows) /\ rows # <<>>
  <2>1. reports[1] # NoReport
    BY DEF NoReport
  <2>2. reports[1] = generate_report(job[1], job[2], rows)
    BY <1>1, <2>1
  <2> QED BY <2>1, <2>2 DEF generate_report
<1>4. Len(heard) \in Nat \ {0} /\ DOMAIN heard = 1..Len(heard) /\ heard # <<>>
  <2>1. DOMAIN rows # {}
    BY <1>1, <1>3
  <2>2. Len(heard) # 0
    BY <1>1, <2>1 DEF ThreeRows
  <2> QED BY <1>1, <2>2
<1>5. /\ reports[1].chan = job[1] /\ reports[1].bw = job[2]
      /\ DOMAIN reports[1].data = 1..Len(heard)
      /\ \A k \in 1..Len(heard) : reports[1].data[k] = Item(rows, job[1], k)
  BY <1>1, <1>2, <1>3, <1>4, ReportOfPackets
<1>6. ASSUME NEW k \in 1..Len(heard)
      PROVE  Item(rows, job[1], k) =
               [maxEirp |-> heard[k].eirp, maxPSD |-> heard[k].psd,
                freqPsdPerMHz |-> {Row(heard[k], job[1], job[1]),
                                   Row(heard[k], Lower(job[1], job[2]), job[1]),
                                   Row(heard[k], Higher(job[1], job[2]), job[1])}]
  <2>1. Len(heard) \in Nat /\ ThreeRows(rows, heard, Len(heard), job[1], job[2])
    BY <1>1, <1>4
  <2> DEFINE chan == job[1]
             bw == job[2]
             n == Len(heard)
  <2>2. chan \in Nat \ {0} /\ bw \in Width /\ n \in Nat /\ k \in 1..n
        /\ ThreeRows(rows, heard, n, chan, bw)
    BY <1>2, <2>1
  <2> HIDE DEF chan, bw, n
  <2>3. Item(rows, chan, k) =
          [maxEirp |-> heard[k].eirp, maxPSD |-> heard[k].psd,
           freqPsdPerMHz |-> {Row(heard[k], chan, chan),
                              Row(heard[k], Lower(chan, bw), chan),
                              Row(heard[k], Higher(chan, bw), chan)}]
    BY <2>2, ItemOfPacket
  <2> QED BY <2>3 DEF chan, bw
<1>7. ASSUME NEW i \in DOMAIN heard
      PROVE  /\ reports[1].data[i].maxEirp = heard[i].eirp
             /\ reports[1].data[i].maxPSD = heard[i].psd
             /\ reports[1].data[i].freqPsdPerMHz =
                  {Row(heard[i], job[1], job[1]), Row(heard[i], Lower(job[1], job[2]), job[1]),
                   Row(heard[i], Higher(job[1], job[2]), job[1])}
  <2> DEFINE it == [maxEirp |-> heard[i].eirp, maxPSD |-> heard[i].psd,
                    freqPsdPerMHz |-> {Row(heard[i], job[1], job[1]),
                                       Row(heard[i], Lower(job[1], job[2]), job[1]),
                                       Row(heard[i], Higher(job[1], job[2]), job[1])}]
  <2>1. reports[1].data[i] = Item(rows, job[1], i) /\ i \in 1..Len(heard)
    BY <1>4, <1>5
  <2>2. Item(rows, job[1], i) = it
    BY <1>6, <2>1
  <2>3. reports[1].data[i] = it
    BY <2>1, <2>2
  <2>4. /\ it.maxEirp = heard[i].eirp /\ it.maxPSD = heard[i].psd
        /\ it.freqPsdPerMHz =
             {Row(heard[i], job[1], job[1]), Row(heard[i], Lower(job[1], job[2]), job[1]),
              Row(heard[i], Higher(job[1], job[2]), job[1])}
    OBVIOUS
  <2> HIDE DEF it
  <2> QED BY <2>3, <2>4
<1> QED BY <1>4, <1>5, <1>7

\* The level of a packet in each of the three channels.
LEMMA RowLevels ==
  ASSUME NEW p, NEW chan \in Nat \ {0}, NEW bw \in Width
  PROVE  /\ Row(p, chan, chan).freq = chan /\ Row(p, chan, chan).psd = p.psd
         /\ Row(p, Lower(chan, bw), chan).freq = Lower(chan, bw)
         /\ Row(p, Lower(chan, bw), chan).psd = p.low
         /\ Row(p, Higher(chan, bw), chan).freq = Higher(chan, bw)
         /\ Row(p, Higher(chan, bw), chan).psd = p.high
         /\ Lower(chan, bw) # chan /\ Higher(chan, bw) # chan
<1>1. /\ Lower(chan, bw) < chan /\ chan < Higher(chan, bw)
      /\ Lower(chan, bw) \in Int /\ Higher(chan, bw) \in Int
  BY ScanFacts
<1>2. Lower(chan, bw) # chan /\ Higher(chan, bw) # chan /\ ~(Higher(chan, bw) < chan)
  BY <1>1
<1> QED BY <1>1, <1>2 DEF Row, Level

\* The verdict on a measurement, in terms of its report.
LEMMA JudgedReport ==
  ASSUME Inv, Measured
  PROVE  LET rep == reports[1]
             byFreq == TransmitPowerByFreq(sent_response, rep)
             byChan == TransmitPowerByChan(sent_response, rep)
             beside == PsdAdjacentFrequencies(sent_response, rep) IN
         /\ verdict.power <=> /\ rep.found
                              /\ mode \in {"freq", "both"} => byFreq
                              /\ mode \in {"chan", "both"} => byChan
         /\ verdict.adjacent <=> /\ rep.found
                                 /\ mode \in {"freq", "both"} => beside
                                 /\ mode = "both" => byFreq /\ byChan
<1>1. verdict = validate_rf_measurement(sent_response, mode, reports[1]) /\ mode \in Modes
  BY DEF Inv, VerdictInv, Measured
<1>2. reports[1].found \in BOOLEAN
  <2>1. reports \in {<<NoReport>>, <<generate_report(job[1], job[2], rows)>>}
    BY DEF Inv, ReportInv, Measured
  <2> QED BY <2>1 DEF Inv, TypeOK, DriverTypeOK
<1> QED BY <1>1, <1>2, VerdictFacts

\* The measurement of a channel with both neighbours in the band can be
\* trusted: when its verdict is good, every packet captured kept to the limits
\* of the response, in the channel and next to it.
THEOREM PacketsJudged == Spec => []EveryPacketJudged
<1>1. ASSUME Inv PROVE EveryPacketJudged
  <2>1. SUFFICES ASSUME Measured, Inland(job[1], job[2]), NEW i \in DOMAIN heard
                 PROVE  /\ verdict.power => InBandWithin(heard[i])
                        /\ verdict.adjacent => OutOfBandWithin(heard[i])
    BY DEF EveryPacketJudged
  <2> DEFINE rep == reports[1]
             p == heard[i]
  <2>2. job[1] \in Nat \ {0} /\ job[2] \in Width
    BY <1>1, <2>1, MeasuredFacts DEF Inv, Measured, JobInv
  <2>3. ASSUME rep.found
        PROVE  /\ rep.chan = job[1] /\ rep.bw = job[2] /\ i \in DOMAIN rep.data
               /\ rep.data[i].maxEirp = p.eirp /\ rep.data[i].maxPSD = p.psd
               /\ Row(p, Lower(job[1], job[2]), job[1]) \in rep.data[i].freqPsdPerMHz
               /\ Row(p, Higher(job[1], job[2]), job[1]) \in rep.data[i].freqPsdPerMHz
    BY <1>1, <2>1, <2>3, ReportedPackets
  <2>4. ASSUME verdict.power PROVE InBandWithin(p)
    <3>1. /\ rep.found
          /\ mode \in {"freq", "both"} => TransmitPowerByFreq(sent_response, rep)
          /\ mode \in {"chan", "both"} => TransmitPowerByChan(sent_response, rep)
      BY <1>1, <2>1, <2>4, JudgedReport
    <3> HIDE DEF rep, p
    <3> QED BY <2>3, <3>1 DEF InBandWithin, Within, TransmitPowerByFreq, TransmitPowerByChan
  <2>5. ASSUME verdict.adjacent PROVE OutOfBandWithin(p)
    <3>1. /\ rep.found
          /\ mode \in {"freq", "both"} => PsdAdjacentFrequencies(sent_response, rep)
      BY <1>1, <2>1, <2>5, JudgedReport
    <3> HIDE DEF rep
    <3>2. ASSUME mode \in {"freq", "both"}
          PROVE  /\ ValidatePsd(sent_response, rep, Row(p, Lower(job[1], job[2]), job[1]))
                 /\ ValidatePsd(sent_response, rep, Row(p, Higher(job[1], job[2]), job[1]))
      BY <2>3, <3>1, <3>2 DEF PsdAdjacentFrequencies
    <3> HIDE DEF p
    <3>3. /\ Row(p, Lower(job[1], job[2]), job[1]).freq = Lower(job[1], job[2])
          /\ Row(p, Lower(job[1], job[2]), job[1]).psd = p.low
          /\ Row(p, Higher(job[1], job[2]), job[1]).freq = Higher(job[1], job[2])
          /\ Row(p, Higher(job[1], job[2]), job[1]).psd = p.high
      <4> DEFINE chan == job[1]
                 bw == job[2]
      <4>1. chan \in Nat \ {0} /\ bw \in Width
        BY <2>2
      <4> HIDE DEF chan, bw
      <4>2. /\ Row(p, chan, chan).freq = chan /\ Row(p, chan, chan).psd = p.psd
            /\ Row(p, Lower(chan, bw), chan).freq = Lower(chan, bw)
            /\ Row(p, Lower(chan, bw), chan).psd = p.low
            /\ Row(p, Higher(chan, bw), chan).freq = Higher(chan, bw)
            /\ Row(p, Higher(chan, bw), chan).psd = p.high
            /\ Lower(chan, bw) # chan /\ Higher(chan, bw) # chan
        BY <4>1, RowLevels
      <4> QED BY <4>2 DEF chan, bw
    <3> QED BY <2>3, <3>1, <3>2, <3>3 DEF OutOfBandWithin, Within, ValidatePsd
  <2> QED BY <2>4, <2>5
<1> QED BY <1>1, Invariance, PTL

\* A DUT is not failed because of how its packets were captured: when the
\* driver met no exception and every packet kept to the limits of a channel
\* with both neighbours in the band, the verdict is good.
THEOREM ConformantDUTPasses == Spec => []ConformantPasses
<1>1. ASSUME Inv PROVE ConformantPasses
  <2>1. SUFFICES ASSUME Measured, Inland(job[1], job[2]), ~raised, heard # <<>>,
                        \A i \in DOMAIN heard : InBandWithin(heard[i]) /\ OutOfBandWithin(heard[i])
                 PROVE  verdict.power /\ verdict.adjacent
    BY DEF ConformantPasses
  <2> DEFINE rep == reports[1]
  <2>2. job[1] \in Nat \ {0} /\ job[2] \in Width
    BY <1>1, <2>1, MeasuredFacts DEF Inv, Measured, JobInv
  <2>3. /\ rows \in Seq(RowSet) /\ heard \in Seq(Packet)
        /\ ThreeRows(rows, heard, Len(heard), job[1], job[2])
        /\ rep = generate_report(job[1], job[2], rows)
    BY <1>1, <2>1 DEF Inv, Measured, RowsInv, ReportInv
  <2>4. rep.found
    <3>1. Len(heard) \in Nat \ {0}
      BY <2>1, <2>3
    <3> HIDE DEF rep
    <3> QED BY <2>2, <2>3, <3>1, ReportOfPackets
  <2>5. /\ rep.chan = job[1] /\ rep.bw = job[2]
        /\ DOMAIN rep.data = DOMAIN heard /\ DOMAIN heard # {}
        /\ \A i \in DOMAIN heard :
             /\ rep.data[i].maxEirp = heard[i].eirp /\ rep.data[i].maxPSD = heard[i].psd
             /\ rep.data[i].freqPsdPerMHz =
                  {Row(heard[i], job[1], job[1]), Row(heard[i], Lower(job[1], job[2]), job[1]),
                   Row(heard[i], Higher(job[1], job[2]), job[1])}
    <3>1. DOMAIN heard # {}
      <4> HIDE DEF rep
      <4>1. Len(heard) \in Nat \ {0} /\ DOMAIN heard = 1..Len(heard)
        BY <2>1, <2>3
      <4> QED BY <4>1
    <3> QED BY <1>1, <2>1, <2>4, <3>1, ReportedPackets
  <2>6. SpLimitGiven(sent_response, mode, job[1], job[2])
    BY <1>1, <2>1 DEF Inv, Measured, JobInv
  <2>7. mode \in {"freq", "both"} => TransmitPowerByFreq(sent_response, rep)
    <3> HIDE DEF rep
    <3> QED BY <2>1, <2>5, <2>6 DEF SpLimitGiven, TransmitPowerByFreq, InBandWithin, Within
  <2>8. mode \in {"chan", "both"} => TransmitPowerByChan(sent_response, rep)
    <3> HIDE DEF rep
    <3> QED BY <2>1, <2>5, <2>6 DEF SpLimitGiven, TransmitPowerByChan, InBandWithin, Within
  <2>9. mode \in {"freq", "both"} => PsdAdjacentFrequencies(sent_response, rep)
    <3> HIDE DEF rep
    <3>1. SUFFICES ASSUME mode \in {"freq", "both"}, NEW i \in DOMAIN heard,
                          NEW info \in rep.data[i].freqPsdPerMHz
                   PROVE  ValidatePsd(sent_response, rep, info)
      BY <2>5 DEF PsdAdjacentFrequencies
    <3> DEFINE p == heard[i]
    <3>2. /\ Within(get_sp_limit_by_freq(sent_response, job[1], job[2]), p.psd)
          /\ Within(get_sp_limit_by_freq(sent_response, Lower(job[1], job[2]), job[2]), p.low)
          /\ Within(get_sp_limit_by_freq(sent_response, Higher(job[1], job[2]), job[2]), p.high)
          /\ get_sp_limit_by_freq(sent_response, job[1], job[2]).granted
      BY <2>1, <2>6, <3>1 DEF InBandWithin, OutOfBandWithin, SpLimitGiven
    <3>3. \/ info = Row(p, job[1], job[1])
          \/ info = Row(p, Lower(job[1], job[2]), job[1])
          \/ info = Row(p, Higher(job[1], job[2]), job[1])
      BY <2>5, <3>1
    <3> HIDE DEF p
    <3>4. \/ info.freq = job[1] /\ info.psd = p.psd
          \/ info.freq = Lower(job[1], job[2]) /\ info.psd = p.low /\ info.freq # job[1]
          \/ info.freq = Higher(job[1], job[2]) /\ info.psd = p.high /\ info.freq # job[1]
      BY <2>2, <3>3, RowLevels
    <3> QED BY <2>5, <3>2, <3>4 DEF ValidatePsd, Within
  <2>10. mode \in Modes
    BY <2>1 DEF Measured
  <2> QED BY <1>1, <2>1, <2>4, <2>7, <2>8, <2>9, <2>10, JudgedReport
<1> QED BY <1>1, Invariance, PTL

\* What is measured is the channel that the DUT occupies: it contains the
\* primary channel the DUT reported.
THEOREM PrimaryMeasured == Spec => []PrimaryIsMeasured
<1>1. ASSUME Inv PROVE PrimaryIsMeasured
  <2>1. SUFFICES ASSUME script = "measure", operation.bw # 320
                 PROVE  operation.channel \in Parts(job[1], job[2])
    BY DEF PrimaryIsMeasured
  <2>2. /\ operation \in Operation /\ MeasuredCfi(operation) # 0
        /\ job[1] = MeasuredCfi(operation) /\ job[2] = operation.bw
    BY <1>1, <2>1 DEF Inv, AtInv, JobInv
  <2> DEFINE cfi == MeasuredCfi(operation)
             ch == operation.channel
             bw == operation.bw
  <2>3. /\ cfi \in Nat \ {0} /\ bw \in Width /\ ch \in Nat
        /\ bw = 20 => cfi = ch
        /\ bw \notin {20, 320} =>
             /\ cfi \in OperatingCfi(bw) /\ ch % 4 = 1
             /\ cfi - (bw \div 10) < ch /\ ch < cfi + (bw \div 10)
    BY <2>2, MeasuredFacts
  <2>4. bw # 320
    BY <2>1
  <2> HIDE DEF cfi, ch, bw
  <2>5. ch \in Parts(cfi, bw)
    <3>1. CASE bw = 20
      BY <2>3, <3>1 DEF Parts, Reach
    <3>2. CASE bw = 40
      BY <2>3, <3>2 DEF Parts, Reach, OperatingCfi, Every
    <3>3. CASE bw = 80
      BY <2>3, <3>3 DEF Parts, Reach, OperatingCfi, Every
    <3>4. CASE bw = 160
      BY <2>3, <3>4 DEF Parts, Reach, OperatingCfi, Every
    <3> QED BY <2>3, <2>4, <3>1, <3>2, <3>3, <3>4 DEF Width
  <2> QED BY <2>2, <2>5 DEF cfi, ch, bw
<1> QED BY <1>1, Invariance, PTL

\* The number of a channel tells its width.
Residue(ch, bw) ==
  CASE bw = 20 -> ch % 4 = 1 [] bw = 40 -> ch % 8 = 3 [] bw = 80 -> ch % 16 = 7
    [] bw = 160 -> ch % 32 = 15 [] bw = 320 -> ch % 32 = 31

LEMMA OneWidth ==
  ASSUME NEW ch \in Int, NEW bw \in Width, NEW w \in Width, Residue(ch, bw), Residue(ch, w)
  PROVE  bw = w
<1>1. ASSUME NEW v \in Width, Residue(ch, v)
      PROVE  /\ v = 20 => ch % 4 = 1
             /\ v = 40 => ch % 4 = 3 /\ ch % 8 = 3
             /\ v = 80 => ch % 8 = 7 /\ ch % 16 = 7 /\ ch % 4 = 3
             /\ v = 160 => ch % 16 = 15 /\ ch % 32 = 15 /\ ch % 8 = 7 /\ ch % 4 = 3
             /\ v = 320 => ch % 16 = 15 /\ ch % 32 = 31 /\ ch % 8 = 7 /\ ch % 4 = 3
  <2>1. CASE v = 20
    BY <1>1, <2>1 DEF Residue
  <2>2. CASE v = 40
    BY <1>1, <2>2 DEF Residue
  <2>3. CASE v = 80
    BY <1>1, <2>3 DEF Residue
  <2>4. CASE v = 160
    BY <1>1, <2>4 DEF Residue
  <2>5. CASE v = 320
    BY <1>1, <2>5 DEF Residue
  <2> QED BY <2>1, <2>2, <2>3, <2>4, <2>5 DEF Width
<1> QED BY <1>1 DEF Width

LEMMA CfiResidue ==
  ASSUME NEW bw \in Width, NEW cfi \in Cfi[bw]
  PROVE  Residue(cfi, bw)
<1>1. CASE bw = 20
  BY <1>1 DEF Residue, Cfi, CfiUS, CfiCA, Every, Width
<1>2. CASE bw = 40
  BY <1>2 DEF Residue, Cfi, CfiUS, CfiCA, Every, Width
<1>3. CASE bw = 80
  BY <1>3 DEF Residue, Cfi, CfiUS, CfiCA, Every, Width
<1>4. CASE bw = 160
  BY <1>4 DEF Residue, Cfi, CfiUS, CfiCA, Every, Width
<1>5. CASE bw = 320
  BY <1>5 DEF Residue, Cfi, CfiUS, CfiCA, Every, Width
<1> QED BY <1>1, <1>2, <1>3, <1>4, <1>5 DEF Width

LEMMA OperatingResidue ==
  ASSUME NEW bw \in {40, 80, 160, 320}, NEW cfi \in OperatingCfi(bw)
  PROVE  Residue(cfi, bw)
<1>1. CASE bw = 40
  BY <1>1 DEF Residue, OperatingCfi, Every
<1>2. CASE bw = 80
  BY <1>2 DEF Residue, OperatingCfi, Every
<1>3. CASE bw = 160
  BY <1>3 DEF Residue, OperatingCfi, Every
<1>4. CASE bw = 320
  BY <1>4 DEF Residue, OperatingCfi, Every
<1> QED BY <1>1, <1>2, <1>3, <1>4

\* The limit of a channel of some width is that of a channel granted whole.
LEMMA LimitedIsGranted ==
  ASSUME NEW m \in Mask, NEW bw \in Width, NEW cfi \in DOMAIN Limits(m, bw)
  PROVE  cfi \in Int /\ Residue(cfi, bw) /\ Parts(cfi, bw) \subseteq DOMAIN m
<1>1. MaskOK(m)
  BY MaskFacts
<1>2. CASE bw = 20
  <2>1. cfi \in DOMAIN m /\ cfi \in Int /\ cfi % 4 = 1
    BY <1>1, <1>2 DEF Limits, MaskOK
  <2>2. Parts(cfi, 20) \subseteq {cfi}
    BY <2>1 DEF Parts, Reach
  <2> QED BY <1>2, <2>1, <2>2 DEF Residue
<1>3. CASE bw # 20
  BY <1>1, <1>3, LimitsFacts, CfiResidue
<1> QED BY <1>2, <1>3

\* The use of an unavailable spectrum fails the DUT when it is judged by
\* channel: it passes only where each 20 MHz part of the channel it reported
\* was granted.  A limit is looked up by the number of the channel alone, and
\* the numbers of the widths are disjoint.
THEOREM AvailableJudged == Spec => []AvailableWideSpectrum
<1>1. ASSUME Inv PROVE AvailableWideSpectrum
  <2>1. SUFFICES ASSUME mode \in {"chan", "both"}, OfItsWidth(operation),
                        script = "end", verdict.power
                 PROVE  Parts(MeasuredCfi(operation), operation.bw)
                          \subseteq DOMAIN sent_response.mask
    BY DEF AvailableWideSpectrum, OnOwnSpectrum
  <2> DEFINE cfi == MeasuredCfi(operation)
  <2>2. /\ doing = "returned" /\ operation \in Operation /\ cfi # 0
        /\ get_sp_limit_by_chan(sent_response, cfi).granted
    <3>1. doing # "idle" /\ mode \in Modes
      BY <1>1, <2>1 DEF Inv, AtInv, Failed, Verdict, Modes
    <3> QED BY <1>1, <2>1, <3>1 DEF Inv, AtInv, JobInv, SpLimitGiven
  <2>3. PICK m \in Mask : sent_response = Response(m, mode)
    BY <1>1 DEF Inv, ResponseInv
  <2>4. sent_response.mask = m /\ \A bw \in Width : sent_response.chan[bw] = Limits(m, bw)
    BY <2>1, <2>3 DEF Response, Vector, TestVectorOf
  <2>5. PICK bw \in Width : cfi \in DOMAIN Limits(m, bw)
    BY <2>2, <2>4 DEF get_sp_limit_by_chan, NoLimit, Limit
  <2>6. cfi \in Int /\ Residue(cfi, bw) /\ Parts(cfi, bw) \subseteq DOMAIN m
    <3> HIDE DEF cfi
    <3> QED BY <2>5, LimitedIsGranted
  <2>7. operation.bw \in Width /\ Residue(cfi, operation.bw)
    <3>1. /\ operation.bw \in Width
          /\ operation.bw \in {20, 320} => cfi = operation.channel
          /\ operation.bw \notin {20, 320} => cfi \in OperatingCfi(operation.bw)
      BY <2>2, MeasuredFacts
    <3> HIDE DEF cfi
    <3>2. operation.bw # 20 => cfi \in OperatingCfi(operation.bw)
      BY <2>1, <3>1 DEF OfItsWidth
    <3>3. CASE operation.bw = 20
      BY <2>1, <3>1, <3>3 DEF OfItsWidth, Residue
    <3>4. CASE operation.bw # 20
      BY <3>1, <3>2, <3>4, OperatingResidue DEF Width
    <3> QED BY <3>1, <3>3, <3>4
  <2>8. operation.bw = bw
    <3> HIDE DEF cfi
    <3> QED BY <2>6, <2>7, OneWidth
  <2> QED BY <2>4, <2>6, <2>8
<1> QED BY <1>1, Invariance, PTL

LEMMA QuietFacts ==
  ASSUME NEW list, NEW md \in Sweep
  PROVE  ValidateSweep(list, md) <=>
           \A i \in DOMAIN list :
             /\ md = "lpi" => QuietReport(list[i], LpiPsd)
             /\ md = "fc" => QuietReport(list[i], FcPsd)
             /\ md # "sp"
<1>1. CASE md = "lpi"
  BY <1>1 DEF ValidateSweep
<1>2. CASE md = "sp"
  BY <1>2 DEF ValidateSweep
<1>3. CASE md = "fc"
  BY <1>3 DEF ValidateSweep
<1> QED BY <1>1, <1>2, <1>3 DEF Sweep

\* A sweep that met no exception judges every packet it heard in whatever
\* round: it blames the DUT for a packet above what the mode allows and, when
\* the power of every signal was measured, only for one.
THEOREM SweepJudged == Spec => []SweepIsSound
<1>1. ASSUME Inv PROVE SweepIsSound
  <2>1. SUFFICES ASSUME Swept, ~raised
                 PROVE  /\ verdict.power =>
                             \A i \in DOMAIN heard : heard[i] # Blank => Allowed(heard[i])
                        /\ (\A i \in DOMAIN heard : heard[i] # Blank /\ Allowed(heard[i]))
                             => verdict.power
    BY DEF SweepIsSound
  <2> DEFINE Rep(c) == sweep_report(c[1], c[2], captured_packets[c])
             Ceiling == IF mode = "lpi" THEN LpiPsd ELSE FcPsd
  <2>2. mode \in Sweep /\ mode \notin Modes /\ doing = "returned"
    BY <1>1, <2>1, ModeFacts DEF Inv, AtInv, Swept
  <2>3. verdict.power <=> ValidateSweep(reports, mode)
    <3>1. verdict = Verdict(ValidateSweep(reports, mode), TRUE)
      BY <1>1, <2>1, <2>2 DEF Inv, VerdictInv, Swept
    <3>2. ValidateSweep(reports, mode) \in BOOLEAN
      BY DEF ValidateSweep
    <3> QED BY <3>1, <3>2 DEF Verdict
  <2>4. Range(reports) = {Rep(c) : c \in DOMAIN captured_packets}
    BY <1>1, <2>1, <2>2 DEF Inv, SweepInv
  <2>5. /\ \A c \in DOMAIN captured_packets : \E j \in DOMAIN reports : reports[j] = Rep(c)
        /\ \A j \in DOMAIN reports : \E c \in DOMAIN captured_packets : reports[j] = Rep(c)
    BY <2>4 DEF Range
  <2>6. ASSUME NEW c \in DOMAIN captured_packets
        PROVE  /\ DOMAIN Rep(c).data =
                    {k \in DOMAIN captured_packets[c] : captured_packets[c][k] # Blank}
               /\ \A k \in DOMAIN Rep(c).data : Rep(c).data[k].maxPSD = captured_packets[c][k].psd
    BY DEF sweep_report, Report
  <2>7. /\ \A c \in DOMAIN captured_packets : captured_packets[c] # <<>>
        /\ \A i \in DOMAIN heard : \E c \in DOMAIN captured_packets :
             \E k \in DOMAIN captured_packets[c] : captured_packets[c][k] = heard[i]
        /\ \A c \in DOMAIN captured_packets : \A k \in DOMAIN captured_packets[c] :
             \E i \in DOMAIN heard : heard[i] = captured_packets[c][k]
        /\ \A c \in DOMAIN captured_packets :
             captured_packets[c] \in Seq(Packet \cup {Blank})
    BY <1>1, <2>2 DEF Inv, HeardInv, TypeOK, DriverTypeOK
  <2>8. /\ ValidateSweep(reports, mode) <=>
             \A j \in DOMAIN reports : mode # "sp" /\ QuietReport(reports[j], Ceiling)
        /\ \A p : Allowed(p) <=> mode # "sp" /\ p.psd <= Ceiling
    <3>1. CASE mode = "lpi"
      BY <2>2, <3>1, QuietFacts DEF Allowed
    <3>2. CASE mode = "sp"
      BY <2>2, <3>2, QuietFacts DEF Allowed
    <3>3. CASE mode = "fc"
      BY <2>2, <3>3, QuietFacts DEF Allowed
    <3> QED BY <2>2, <3>1, <3>2, <3>3 DEF Sweep
  <2> HIDE DEF Rep, Ceiling
  <2>9. ASSUME verdict.power, NEW i \in DOMAIN heard, heard[i] # Blank
        PROVE  Allowed(heard[i])
    <3>1. PICK c \in DOMAIN captured_packets :
            \E k \in DOMAIN captured_packets[c] : captured_packets[c][k] = heard[i]
      BY <2>7
    <3>2. PICK k \in DOMAIN captured_packets[c] : captured_packets[c][k] = heard[i]
      BY <3>1
    <3>3. PICK j \in DOMAIN reports : reports[j] = Rep(c)
      BY <2>5
    <3>4. mode # "sp" /\ QuietReport(Rep(c), Ceiling)
      BY <2>3, <2>8, <2>9, <3>3
    <3>5. k \in DOMAIN Rep(c).data /\ Rep(c).data[k].maxPSD = heard[i].psd
      BY <2>6, <2>9, <3>2
    <3> QED BY <2>8, <3>4, <3>5 DEF QuietReport
  <2>10. ASSUME \A i \in DOMAIN heard : heard[i] # Blank /\ Allowed(heard[i])
         PROVE  verdict.power
    <3>1. ASSUME NEW j \in DOMAIN reports
          PROVE  mode # "sp" /\ QuietReport(reports[j], Ceiling)
      <4>1. PICK c \in DOMAIN captured_packets : reports[j] = Rep(c)
        BY <2>5
      <4>2. ASSUME NEW k \in DOMAIN captured_packets[c]
            PROVE  captured_packets[c][k] # Blank /\ Allowed(captured_packets[c][k])
        BY <2>7, <2>10
      <4>3. 1 \in DOMAIN captured_packets[c]
        <5>1. captured_packets[c] # <<>> /\ captured_packets[c] \in Seq(Packet \cup {Blank})
          BY <2>7
        <5> QED BY <5>1
      <4>4. mode # "sp"
        BY <2>8, <4>2, <4>3
      <4>5. DOMAIN Rep(c).data = DOMAIN captured_packets[c]
        BY <2>6, <4>2
      <4>6. \A k \in DOMAIN Rep(c).data : Rep(c).data[k].maxPSD <= Ceiling
        BY <2>6, <2>8, <4>2, <4>5
      <4> QED BY <4>1, <4>3, <4>4, <4>5, <4>6 DEF QuietReport
    <3> QED BY <2>3, <2>8, <3>1
  <2> QED BY <2>9, <2>10
<1> QED BY <1>1, Invariance, PTL
=============================================================================
