------------------------- MODULE SpectrumChannelsProofs ------------------------
(***************************************************************************)
(* What SpectrumChannels computes, for either country and any powers: the  *)
(* parts of a channel, the least power of those granted, and the limit of  *)
(* a wide channel made of it.                                              *)
(***************************************************************************)
EXTENDS SpectrumChannels, FiniteSetTheorems, WellFoundedInduction, TLAPS

LEMMA NatHasLeast ==
  ASSUME NEW T \in SUBSET Nat, T # {}
  PROVE  \E n \in T : \A y \in T : n <= y
<1> DEFINE R == OpToRel(<, Nat)
<1>1. IsWellFoundedOn(R, Nat)
  BY NatLessThanWellFounded
<1>2. PICK n \in T : \A y \in T : ~(<<y, n>> \in R)
  <2> HIDE DEF R
  <2> QED BY <1>1, WFMin
<1>3. ASSUME NEW y \in T PROVE ~(y < n)
  BY <1>2 DEF OpToRel
<1> HIDE DEF R
<1> QED BY <1>3

LEMMA FiniteHasLeast ==
  ASSUME NEW S \in SUBSET Int, IsFiniteSet(S), S # {}
  PROVE  \E m \in S : \A s \in S : m <= s
<1> DEFINE HasLeast(U) == \E m \in U : \A s \in U : m <= s
           T == {n \in Nat : \E U \in SUBSET Int :
                   IsFiniteSet(U) /\ U # {} /\ Cardinality(U) = n /\ ~HasLeast(U)}
<1>1. T = {}
  <2>1. SUFFICES ASSUME T # {} PROVE FALSE
    OBVIOUS
  <2>2. PICK n \in T : \A y \in T : n <= y
    <3>1. T \in SUBSET Nat
      OBVIOUS
    <3> HIDE DEF T
    <3> QED BY <2>1, <3>1, NatHasLeast
  <2>3. PICK U \in SUBSET Int : /\ IsFiniteSet(U) /\ U # {}
                                /\ Cardinality(U) = n /\ ~HasLeast(U)
    <3> HIDE DEF HasLeast
    <3> QED BY <2>2
  <2>4. PICK x \in U : TRUE
    BY <2>3
  <2>5. /\ IsFiniteSet(U \ {x}) /\ Cardinality(U \ {x}) = n - 1 /\ n - 1 \in Nat
    <3>1. IsFiniteSet(U \ {x}) /\ Cardinality(U \ {x}) = Cardinality(U) - 1
      BY <2>3, <2>4, FS_RemoveElement
    <3>2. Cardinality(U \ {x}) \in Nat
      BY <3>1, FS_CardinalityType
    <3> HIDE DEF HasLeast, T
    <3> QED BY <2>3, <3>1, <3>2
  <2>6. x \in Int
    BY <2>4
  <2>7. CASE U \ {x} = {}
    <3>1. \A s \in U : s = x
      BY <2>7
    <3>2. HasLeast(U)
      BY <2>4, <2>6, <3>1
    <3> QED BY <2>3, <3>2
  <2>8. CASE U \ {x} # {}
    <3>1. n - 1 \notin T
      <4>1. n \in Int
        OBVIOUS
      <4> HIDE DEF T
      <4> QED BY <2>2, <4>1
    <3>2. HasLeast(U \ {x})
      <4> HIDE DEF HasLeast
      <4> QED BY <2>5, <2>8, <3>1
    <3>3. PICK y \in U \ {x} : \A s \in U \ {x} : y <= s
      BY <3>2
    <3>4. y \in Int /\ y \in U
      BY <3>3
    <3>5. CASE x <= y
      <4>1. ASSUME NEW s \in U PROVE x <= s
        <5>1. s \in Int /\ (s = x \/ y <= s)
          BY <3>3
        <5> QED BY <2>6, <3>4, <3>5, <5>1
      <4> QED BY <2>3, <2>4, <4>1
    <3>6. CASE ~(x <= y)
      <4>1. ASSUME NEW s \in U PROVE y <= s
        <5>1. s \in Int /\ (s = x \/ y <= s)
          BY <3>3
        <5> QED BY <2>6, <3>4, <3>6, <5>1
      <4> QED BY <2>3, <3>4, <4>1
    <3> QED BY <3>5, <3>6
  <2> QED BY <2>7, <2>8
<1>2. Cardinality(S) \in Nat
  BY FS_CardinalityType
<1>3. HasLeast(S)
  <2> HIDE DEF HasLeast
  <2> QED BY <1>1, <1>2
<1> QED BY <1>3

LEMMA PartsCount ==
  ASSUME NEW bw \in Width, NEW cfi \in Int
  PROVE  IsFiniteSet(Parts(cfi, bw)) /\ Cardinality(Parts(cfi, bw)) = bw \div 20
<1> DEFINE n == bw \div 20
           a == cfi - Reach(bw)
           f == [i \in 1..n |-> a + 4 * (i - 1)]
<1>1. n \in Nat /\ a \in Int /\ Reach(bw) \in Nat /\ cfi + Reach(bw) = a + 4 * (n - 1)
  BY DEF Width, Reach
<1>2. f \in Bijection(1..n, Parts(cfi, bw))
  <2>0. Parts(cfi, bw) = {ch \in a..(a + 4 * (n - 1)) : (ch - a) % 4 = 0}
    BY <1>1 DEF Parts
  <2> HIDE DEF n, a
  <2>1. \A i \in 1..n : f[i] \in Parts(cfi, bw)
    BY <1>1, <2>0
  <2>2. \A i, j \in 1..n : f[i] = f[j] => i = j
    BY <1>1
  <2>3. ASSUME NEW ch \in Parts(cfi, bw) PROVE \E i \in 1..n : f[i] = ch
    <3>1. ch \in Int /\ a <= ch /\ ch <= a + 4 * (n - 1) /\ (ch - a) % 4 = 0
      BY <1>1, <2>0
    <3>2. PICK k \in Int : ch - a = 4 * k
      BY <1>1, <3>1
    <3>3. k + 1 \in 1..n /\ f[k + 1] = ch
      BY <1>1, <3>1, <3>2
    <3> QED BY <3>3
  <2>4. f \in [1..n -> Parts(cfi, bw)]
    BY <2>1
  <2> HIDE DEF f
  <2> QED BY <2>2, <2>3, <2>4 DEF Bijection, Injection, Surjection, IsInjective
<1>3. IsFiniteSet(1..n) /\ Cardinality(1..n) = n
  <2> HIDE DEF n
  <2>1. n \in Int /\ 1 \in Int /\ (IF 1 > n THEN 0 ELSE n - 1 + 1) = n
    BY <1>1
  <2> QED BY <2>1, FS_Interval, Zenon
<1> QED
  <2> HIDE DEF n, f
  <2> QED BY <1>2, <1>3, FS_Bijection DEF ExistsBijection, n

\* The lowest part of a channel is a 20 MHz channel.
LEMMA LowestPart ==
  ASSUME NEW bw \in Width, NEW cfi \in Cfi[bw]
  PROVE  cfi \in Int /\ Reach(bw) \in Nat /\ (cfi - Reach(bw)) % 4 = 1
<1>1. CASE bw = 20
  BY <1>1 DEF Cfi, CfiUS, CfiCA, Every, Reach, Width
<1>2. CASE bw = 40
  BY <1>2 DEF Cfi, CfiUS, CfiCA, Every, Reach, Width
<1>3. CASE bw = 80
  BY <1>3 DEF Cfi, CfiUS, CfiCA, Every, Reach, Width
<1>4. CASE bw = 160
  BY <1>4 DEF Cfi, CfiUS, CfiCA, Every, Reach, Width
<1>5. CASE bw = 320
  BY <1>5 DEF Cfi, CfiUS, CfiCA, Every, Reach, Width
<1> QED BY <1>1, <1>2, <1>3, <1>4, <1>5 DEF Width

LEMMA CfiFinite ==
  ASSUME NEW bw \in Width
  PROVE  IsFiniteSet(Cfi[bw])
<1>1. IsFiniteSet(1..181)
  <2>1. 1 \in Int /\ 181 \in Int
    OBVIOUS
  <2> QED BY <2>1, FS_Interval, Zenon
<1>2. Cfi[bw] \subseteq 1..181
  <2>1. CASE bw = 20
    BY <2>1 DEF Cfi, CfiUS, CfiCA, Every, Width
  <2>2. CASE bw = 40
    BY <2>2 DEF Cfi, CfiUS, CfiCA, Every, Width
  <2>3. CASE bw = 80
    BY <2>3 DEF Cfi, CfiUS, CfiCA, Every, Width
  <2>4. CASE bw = 160
    BY <2>4 DEF Cfi, CfiUS, CfiCA, Every, Width
  <2>5. CASE bw = 320
    BY <2>5 DEF Cfi, CfiUS, CfiCA, Every, Width
  <2> QED BY <2>1, <2>2, <2>3, <2>4, <2>5 DEF Width
<1> QED BY <1>1, <1>2, FS_Subset

LEMMA DisjointParts ==
  ASSUME NEW bw \in {80, 160}, NEW c \in Cfi[bw], NEW d \in Cfi[bw], c # d
  PROVE  Parts(c, bw) \cap Parts(d, bw) = {}
<1>1. CASE bw = 80
  BY <1>1 DEF Cfi, CfiUS, CfiCA, Every, Reach, Width, Parts
<1>2. CASE bw = 160
  BY <1>2 DEF Cfi, CfiUS, CfiCA, Every, Reach, Width, Parts
<1> QED BY <1>1, <1>2
-----------------------------------------------------------------------------
(* Masks and the limits computed from them. *)

\* What a mask is: powers of 20 MHz channels.
MaskOK(m) ==
  /\ DOMAIN m \subseteq {ch \in Int : ch % 4 = 1}
  /\ \A ch \in DOMAIN m : m[ch] \in Int

LEMMA PartsType ==
  ASSUME NEW bw \in Width, NEW cfi \in Cfi[bw]
  PROVE  Parts(cfi, bw) \subseteq {ch \in Int : ch % 4 = 1}
BY LowestPart DEF Parts

\* Between the outermost parts of a channel there are only its parts.
LEMMA ListedIsParts ==
  ASSUME NEW m, MaskOK(m), NEW bw \in Width, NEW cfi \in Cfi[bw]
  PROVE  Listed(m, cfi, bw) = Parts(cfi, bw) \cap DOMAIN m
<1>1. cfi \in Int /\ Reach(bw) \in Nat /\ (cfi - Reach(bw)) % 4 = 1
  BY LowestPart
<1>2. ASSUME NEW ch \in Listed(m, cfi, bw) PROVE ch \in Parts(cfi, bw)
  <2>1. ch \in Int /\ ch % 4 = 1 /\ cfi - Reach(bw) <= ch /\ ch <= cfi + Reach(bw)
    BY DEF Listed, MaskOK
  <2> QED BY <1>1, <2>1 DEF Parts
<1>3. ASSUME NEW ch \in Parts(cfi, bw) \cap DOMAIN m PROVE ch \in Listed(m, cfi, bw)
  BY <1>1 DEF Parts, Listed
<1> QED BY <1>2, <1>3 DEF Listed

LEMMA LeastIsLeast ==
  ASSUME NEW m, MaskOK(m), NEW bw \in Width, NEW cfi \in Int, Listed(m, cfi, bw) # {}
  PROVE  /\ \E ch \in Listed(m, cfi, bw) : LeastPsd(m, cfi, bw) = m[ch]
         /\ \A ch \in Listed(m, cfi, bw) : LeastPsd(m, cfi, bw) <= m[ch]
         /\ LeastPsd(m, cfi, bw) \in Int
<1> DEFINE L == Listed(m, cfi, bw)
           S == {m[ch] : ch \in L}
<1>1. \A ch \in L : m[ch] \in Int
  BY DEF Listed, MaskOK
<1>2. \E least \in S : \A s \in S : least <= s
  <2>1. S \in SUBSET Int /\ S # {}
    BY <1>1
  <2>2. IsFiniteSet(L)
    <3>1. cfi - Reach(bw) \in Int /\ cfi + Reach(bw) \in Int
      BY DEF Reach, Width
    <3>2. IsFiniteSet((cfi - Reach(bw))..(cfi + Reach(bw)))
      BY <3>1, FS_Interval, Zenon
    <3>3. L \in SUBSET ((cfi - Reach(bw))..(cfi + Reach(bw)))
      BY <3>1 DEF Listed, MaskOK
    <3> QED BY <3>2, <3>3, FS_Subset
  <2>3. IsFiniteSet(S)
    <3> DEFINE g == [ch \in L |-> m[ch]]
    <3>1. g \in Surjection(L, S)
      BY DEF Surjection
    <3> HIDE DEF g, L, S
    <3> QED BY <2>2, <3>1, FS_Surjection
  <2> HIDE DEF S
  <2> QED BY <2>1, <2>3, FiniteHasLeast
<1>3. LeastPsd(m, cfi, bw) = CHOOSE psd \in S : \A ch \in L : psd <= m[ch]
  BY DEF LeastPsd
<1>4. \E psd \in S : \A ch \in L : psd <= m[ch]
  BY <1>2
<1>5. LeastPsd(m, cfi, bw) \in S /\ \A ch \in L : LeastPsd(m, cfi, bw) <= m[ch]
  <2> HIDE DEF S, L
  <2> QED BY <1>3, <1>4
<1> QED BY <1>1, <1>5

LEMMA GrantedParts ==
  ASSUME NEW m, MaskOK(m), NEW bw \in Width, NEW cfi \in Cfi[bw]
  PROVE  /\ Granted(m, cfi, bw) =>
              /\ Parts(cfi, bw) \subseteq DOMAIN m
              /\ Listed(m, cfi, bw) = Parts(cfi, bw) /\ Parts(cfi, bw) # {}
         /\ Parts(cfi, bw) \subseteq DOMAIN m /\ (\A ch \in Parts(cfi, bw) : m[ch] # 0)
              => Granted(m, cfi, bw)
<1>0. cfi \in Int
  BY LowestPart
<1>1. IsFiniteSet(Parts(cfi, bw)) /\ Cardinality(Parts(cfi, bw)) = bw \div 20
  BY <1>0, PartsCount
<1>2. Listed(m, cfi, bw) = Parts(cfi, bw) \cap DOMAIN m
  BY ListedIsParts
<1>3. Parts(cfi, bw) # {}
  <2>1. bw \div 20 # 0
    BY DEF Width
  <2> QED BY <1>1, <2>1, FS_EmptySet
<1>4. ASSUME Granted(m, cfi, bw) PROVE Listed(m, cfi, bw) = Parts(cfi, bw)
  <2>1. Cardinality(Listed(m, cfi, bw)) = Cardinality(Parts(cfi, bw))
    BY <1>1, <1>4 DEF Granted
  <2>2. Listed(m, cfi, bw) \in SUBSET Parts(cfi, bw)
    BY <1>2
  <2> QED BY <1>1, <2>1, <2>2, FS_Subset
<1>5. ASSUME Parts(cfi, bw) \subseteq DOMAIN m, \A ch \in Parts(cfi, bw) : m[ch] # 0
      PROVE  Granted(m, cfi, bw)
  <2>1. Listed(m, cfi, bw) = Parts(cfi, bw)
    BY <1>2, <1>5
  <2>2. LeastPsd(m, cfi, bw) # 0
    BY <1>0, <1>3, <1>5, <2>1, LeastIsLeast
  <2> QED BY <1>1, <2>1, <2>2 DEF Granted
<1> QED BY <1>2, <1>3, <1>4, <1>5

LEMMA GainType == ASSUME NEW bw \in Width PROVE Gain(bw) \in Int
BY DEF Width, Gain

\* The limit of a wide channel.
LEMMA LimitsFacts ==
  ASSUME NEW m, MaskOK(m), NEW bw \in Width \ {20}, NEW cfi \in DOMAIN Limits(m, bw)
  PROVE  /\ cfi \in Cfi[bw] /\ cfi \in Int /\ Limits(m, bw)[cfi] \in Int
         /\ Parts(cfi, bw) \subseteq DOMAIN m
         /\ \A ch \in Parts(cfi, bw) : Limits(m, bw)[cfi] <= m[ch] + Gain(bw)
         /\ Limits(m, bw)[cfi] <= MaxEirp
<1>1. /\ cfi \in Cfi[bw] /\ Granted(m, cfi, bw)
      /\ Limits(m, bw)[cfi] = WideLimit(m, cfi, bw)
  BY DEF Limits
<1>2. /\ Parts(cfi, bw) \subseteq DOMAIN m /\ Listed(m, cfi, bw) = Parts(cfi, bw)
      /\ Parts(cfi, bw) # {} /\ cfi \in Int
  BY <1>1, GrantedParts, LowestPart
<1>3. /\ \A ch \in Parts(cfi, bw) : LeastPsd(m, cfi, bw) <= m[ch]
      /\ LeastPsd(m, cfi, bw) \in Int
  BY <1>2, LeastIsLeast
<1>4. \A ch \in Parts(cfi, bw) : m[ch] \in Int
  BY <1>2 DEF MaskOK
<1>5. /\ WideLimit(m, cfi, bw) \in Int /\ WideLimit(m, cfi, bw) <= MaxEirp
      /\ WideLimit(m, cfi, bw) <= LeastPsd(m, cfi, bw) + Gain(bw)
  BY <1>3, GainType DEF WideLimit, MaxEirp
<1> QED BY <1>1, <1>2, <1>3, <1>4, <1>5, GainType
=============================================================================
