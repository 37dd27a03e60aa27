-------------------------- MODULE SpectrumMaskProofs --------------------------
(***************************************************************************)
(* Proofs about the random vectors for either country, any inquiries, any  *)
(* settings and whatever random.uniform draws: the limits of wide channels *)
(* follow from their parts, what is picked is granted, and the second      *)
(* phase offers no channel of the first.                                   *)
(***************************************************************************)
EXTENDS SpectrumMask, SpectrumChannelsProofs

LEMMA LimitsType ==
  ASSUME NEW m, MaskOK(m), NEW bw \in Width
  PROVE  IsPower(Limits(m, bw))
<1>1. CASE bw = 20
  <2>1. Limits(m, bw) = [ch \in DOMAIN m |-> m[ch] + 130]
    BY <1>1 DEF Limits, Gain
  <2>2. ASSUME NEW ch \in DOMAIN m PROVE ch \in Int /\ m[ch] + 130 \in Int
    <3>1. m[ch] \in Int /\ ch \in Int
      BY DEF MaskOK
    <3> QED BY <3>1
  <2> QED BY <2>1, <2>2 DEF IsPower
<1>2. CASE bw # 20
  BY <1>2, LimitsFacts DEF IsPower
<1> QED BY <1>1, <1>2
-----------------------------------------------------------------------------
(* What every reachable state is made of. *)
MaskInv ==
  /\ setting \in Setting
  /\ random_picks \subseteq Int /\ requested \subseteq Int /\ offered \subseteq Int
  /\ MaskOK(mask)
  /\ inquiry \in Inquiry \cup {NoInquiry}
  /\ \/ vectors = Empty /\ mask = Nothing
     \/ vectors.built /\ vectors.freq = Vector(mask, setting.testVector).freq
                      /\ vectors.chan = Vector(mask, setting.testVector).chan
  /\ \/ sent_response \in {NotSent, Sent("error", Empty)}
     \/ /\ vectors.built /\ inquiry \in Inquiry
        /\ sent_response = Sent("ok", Filtered(vectors, inquiry))

\* The vector is about the last picks.
PickInv ==
  LET bw == setting.channelWidth IN
  vectors.built /\ ~setting.onlyRandomPower =>
    /\ random_picks \subseteq Cfi[bw]
    /\ DOMAIN mask = UNION {Parts(cfi, bw) : cfi \in random_picks}

\* Until a vector is built, what the setting before offered are the last picks.
OfferInv ==
  LET bw == setting.channelWidth IN
  /\ ~vectors.built =>
       offered \subseteq UNION {Parts(cfi, bw) : cfi \in random_picks \cap Cfi[bw]}
  /\ /\ vectors.built /\ setting.difference_last_picks /\ ~setting.onlyRandomPower
     /\ bw # 320 /\ Cardinality(requested) >= 2
     => DOMAIN mask \cap offered = {}

Inv == MaskInv /\ PickInv /\ OfferInv

LEMMA NothingOK == MaskOK(Nothing) /\ DOMAIN Nothing = {} /\ IsPower(Nothing)
BY DEF Nothing, MaskOK, IsPower

LEMMA SettingType ==
  ASSUME NEW tc \in Setting
  PROVE  /\ tc.channelWidth \in {80, 160, 320} /\ tc.channelWidth \in Width
         /\ tc.testVector \in 1..3
         /\ tc.onlyRandomPower \in BOOLEAN /\ tc.difference_last_picks \in BOOLEAN
BY MaskAssumption DEF IsSetting, Width

LEMMA RequestedType ==
  ASSUME NEW inq, NEW bw
  PROVE  Requested(inq, bw) \subseteq Cfi[bw]
BY DEF Requested, get_cfi_by_inquired_channels_bw, get_cfi_by_inquired_freq_ranges_bw

LEMMA InitInv == Init => Inv
<1> SUFFICES ASSUME Init PROVE Inv
  OBVIOUS
<1>1. ~vectors.built
  BY DEF Init, Empty
<1> QED BY <1>1, NothingOK DEF Init, Inv, MaskInv, PickInv, OfferInv

\* What a new vector is made of, in whatever way its CFIs are picked.
LEMMA BuildInv ==
  ASSUME Inv, ~vectors.built, NEW req \in SUBSET Cfi[setting.channelWidth], NEW picks,
         NEW power, build_random_vector(req, picks, power), UNCHANGED <<setting, offered>>
  PROVE  /\ MaskOK(mask') /\ random_picks' \subseteq Int /\ requested' \subseteq Int
         /\ vectors'.built
         /\ vectors'.freq = Vector(mask', setting.testVector).freq
         /\ vectors'.chan = Vector(mask', setting.testVector).chan
         /\ PickInv' /\ OfferInv'
<1> DEFINE bw == setting.channelWidth
           new == [ch \in MaskChannels(picks) |-> power[ch]]
<1>0. setting \in Setting /\ bw \in {80, 160, 320} /\ bw \in Width
      /\ 20 \in Width
  BY SettingType DEF Inv, MaskInv, Width
<1>1. /\ random_picks' = picks /\ mask' = new /\ requested' = req /\ picks \in Picks(req)
      /\ vectors' = [built |-> TRUE, freq |-> Vector(new, setting.testVector).freq,
                     chan |-> Vector(new, setting.testVector).chan]
      /\ \A ch \in MaskChannels(picks) : InPsdRange(power[ch])
  BY DEF build_random_vector
<1>2. req \subseteq Int /\ Cfi[bw] \subseteq Int
  BY <1>0, LowestPart
<1>3. ~setting.onlyRandomPower => picks \subseteq req
  BY <1>1 DEF Picks
<1>4. picks \subseteq Int
  BY <1>1, <1>2, <1>3 DEF Picks, Inv, MaskInv
<1>5. MaskChannels(picks) \subseteq {ch \in Int : ch % 4 = 1}
  <2>1. CASE setting.onlyRandomPower
    <3>1. ASSUME NEW ch \in Cfi[20] PROVE ch \in Int /\ ch % 4 = 1
      BY <1>0, <3>1, LowestPart DEF Reach
    <3> QED BY <2>1, <3>1 DEF MaskChannels
  <2>2. CASE ~setting.onlyRandomPower
    BY <1>0, <1>3, <2>2, PartsType DEF MaskChannels
  <2> QED BY <2>1, <2>2
<1>6. MaskOK(mask')
  <2>1. \A ch \in MaskChannels(picks) : power[ch] \in -50..250
    BY <1>1 DEF InPsdRange
  <2> QED BY <1>1, <1>5, <2>1 DEF MaskOK
<1>7. PickInv'
  BY <1>1, <1>3 DEF PickInv, MaskChannels
<1>8. OfferInv'
  <2>1. SUFFICES ASSUME setting.difference_last_picks, ~setting.onlyRandomPower, bw # 320,
                        Cardinality(req) >= 2
                 PROVE  DOMAIN mask' \cap offered = {}
    BY <1>1 DEF OfferInv
  <2>2. picks = req \ random_picks
    <3>1. Cardinality(req) \in Nat
      BY <1>0, CfiFinite, FS_Subset, FS_CardinalityType
    <3>2. ~(Cardinality(req) < 2)
      BY <2>1, <3>1
    <3> QED BY <1>1, <2>1, <3>2 DEF Picks
  <2>3. ASSUME NEW c \in picks, NEW d \in random_picks \cap Cfi[bw]
        PROVE  Parts(c, bw) \cap Parts(d, bw) = {}
    <3>1. bw \in {80, 160} /\ c \in Cfi[bw] /\ d \in Cfi[bw] /\ c # d
      BY <1>0, <2>1, <2>2
    <3> QED BY <3>1, DisjointParts
  <2>4. DOMAIN mask' = UNION {Parts(c, bw) : c \in picks}
    BY <1>1, <2>1 DEF MaskChannels
  <2>5. offered \subseteq UNION {Parts(d, bw) : d \in random_picks \cap Cfi[bw]}
    BY DEF Inv, OfferInv
  <2> QED BY <2>3, <2>4, <2>5
<1> QED BY <1>1, <1>2, <1>4, <1>6, <1>7, <1>8

LEMMA NextInv == Inv /\ [Next]_vars => Inv'
<1> SUFFICES ASSUME Inv, [Next]_vars PROVE Inv'
  OBVIOUS
<1>1. ASSUME NEW tc \in Setting, SetResponse(tc) PROVE Inv'
  <2>1. ~vectors'.built /\ vectors' = Empty /\ mask' = Nothing /\ sent_response' = NotSent
    BY <1>1 DEF SetResponse, Empty
  <2>2. offered' \subseteq UNION {Parts(cfi, tc.channelWidth) :
                                   cfi \in random_picks \cap Cfi[tc.channelWidth]}
    <3>1. CASE setting.onlyRandomPower \/ tc.channelWidth # setting.channelWidth
      BY <1>1, <3>1 DEF SetResponse
    <3>2. CASE ~(setting.onlyRandomPower \/ tc.channelWidth # setting.channelWidth)
      <4>1. offered' = DOMAIN mask
        BY <1>1, <3>2 DEF SetResponse
      <4>2. CASE vectors = Empty /\ mask = Nothing
        BY <4>1, <4>2, NothingOK
      <4>3. CASE vectors.built
        <5>1. random_picks \subseteq Cfi[setting.channelWidth]
              /\ DOMAIN mask = UNION {Parts(cfi, setting.channelWidth) : cfi \in random_picks}
          BY <3>2, <4>3 DEF Inv, PickInv
        <5> QED BY <3>2, <4>1, <5>1
      <4> QED BY <4>2, <4>3 DEF Inv, MaskInv
    <3> QED BY <3>1, <3>2
  <2>3. offered' \subseteq Int
    BY <1>1 DEF SetResponse, Inv, MaskInv, MaskOK
  <2>4. MaskInv'
    BY <1>1, <2>1, <2>3, NothingOK DEF SetResponse, Inv, MaskInv
  <2> QED BY <1>1, <2>1, <2>2, <2>4 DEF SetResponse, Inv, PickInv, OfferInv
<1>2. ASSUME NEW inq \in Inquiry, Inquire(inq) PROVE Inv'
  <2>1. inquiry' = inq /\ UNCHANGED <<setting, offered>>
    BY <1>2 DEF Inquire
  <2>2. CASE /\ sent_response' = Sent("error", Empty)
             /\ UNCHANGED <<vectors, random_picks, mask, requested>>
    BY <2>1, <2>2 DEF Inv, MaskInv, PickInv, OfferInv
  <2>3. CASE /\ sent_response' = Sent("ok", Filtered(vectors', inq)) /\ vectors.built
             /\ UNCHANGED <<vectors, random_picks, mask, requested>>
    <3>1. vectors # Empty
      BY <2>3 DEF Empty
    <3> QED BY <2>1, <2>3, <3>1 DEF Inv, MaskInv, PickInv, OfferInv
  <2>4. ASSUME sent_response' = Sent("ok", Filtered(vectors', inq)), ~vectors.built,
               NEW picks \in Picks(Requested(inq, setting.channelWidth)), NEW power \in Draw,
               build_random_vector(Requested(inq, setting.channelWidth), picks, power)
        PROVE  Inv'
    <3>1. Requested(inq, setting.channelWidth) \in SUBSET Cfi[setting.channelWidth]
      BY RequestedType
    <3>2. /\ MaskOK(mask') /\ random_picks' \subseteq Int /\ requested' \subseteq Int
          /\ vectors'.built
          /\ vectors'.freq = Vector(mask', setting.testVector).freq
          /\ vectors'.chan = Vector(mask', setting.testVector).chan
          /\ PickInv' /\ OfferInv'
      BY <2>1, <2>4, <3>1, BuildInv
    <3>3. MaskInv'
      BY <2>1, <2>4, <3>2 DEF Inv, MaskInv
    <3> QED BY <3>2, <3>3 DEF Inv
  <2> QED BY <1>2, <2>2, <2>3, <2>4 DEF Inquire
<1>3. CASE UNCHANGED vars
  BY <1>3 DEF vars, Inv, MaskInv, PickInv, OfferInv
<1> QED BY <1>1, <1>2, <1>3 DEF Next
LEMMA SpecInv == Spec => []Inv
BY InitInv, NextInv, PTL DEF Spec
-----------------------------------------------------------------------------
(* What the invariant says of the response sent. *)

LEMMA WidthTwenty == 20 \in Width
BY DEF Width

LEMMA NothingSent ==
  ASSUME sent_response \in {NotSent, Sent("error", Empty)}
  PROVE  /\ sent_response.code \in {"none", "error"} /\ sent_response.code # "ok"
         /\ sent_response.freq = Nothing
         /\ sent_response.chan = [bw \in Width |-> Nothing]
BY DEF NotSent, Sent, Empty, NoLimits

\* A power that is sent is the one of the mask.
LEMMA SentOfMask ==
  ASSUME MaskInv, ~(sent_response \in {NotSent, Sent("error", Empty)})
  PROVE  /\ vectors.built /\ sent_response.code = "ok" /\ inquiry \in Inquiry
         /\ sent_response = Sent("ok", Filtered(vectors, inquiry))
         /\ vectors.freq = Vector(mask, setting.testVector).freq
         /\ vectors.chan = Vector(mask, setting.testVector).chan
BY DEF MaskInv, Sent, Empty

LEMMA VectorType ==
  ASSUME MaskInv, vectors.built
  PROVE  /\ IsPower(vectors.freq) /\ DOMAIN vectors.freq \subseteq DOMAIN mask
         /\ DOMAIN vectors.chan = Width
         /\ \A bw \in Width : vectors.chan[bw] \in {Limits(mask, bw), Nothing}
         /\ \A bw \in Width : IsPower(vectors.chan[bw])
<1>1. /\ vectors.freq = Vector(mask, setting.testVector).freq
      /\ vectors.chan = Vector(mask, setting.testVector).chan /\ MaskOK(mask)
  BY DEF MaskInv, Empty
<1>2. vectors.freq \in {mask, Nothing}
  BY <1>1 DEF Vector
<1>3. \A bw \in Width : vectors.chan[bw] \in {Limits(mask, bw), Nothing}
  BY <1>1 DEF Vector
<1>4. IsPower(mask)
  BY <1>1 DEF MaskOK, IsPower
<1> QED BY <1>1, <1>2, <1>3, <1>4, NothingOK, LimitsType DEF Vector

\* Filtering only drops entries.
LEMMA FilteredOf ==
  ASSUME NEW vec, NEW inq, DOMAIN vec.chan = Width
  PROVE  /\ DOMAIN Filtered(vec, inq).freq \subseteq DOMAIN vec.freq
         /\ \A ch \in DOMAIN Filtered(vec, inq).freq :
              Filtered(vec, inq).freq[ch] = vec.freq[ch]
         /\ DOMAIN Filtered(vec, inq).chan = Width
         /\ \A bw \in Width :
              /\ DOMAIN Filtered(vec, inq).chan[bw] \subseteq DOMAIN vec.chan[bw]
              /\ \A cfi \in DOMAIN Filtered(vec, inq).chan[bw] :
                   Filtered(vec, inq).chan[bw][cfi] = vec.chan[bw][cfi]
<1>1. ASSUME NEW bw \in Width
      PROVE  Filtered(vec, inq).chan[bw] =
               IF bw \notin DOMAIN inq.chan THEN Nothing
               ELSE IF inq.chan[bw] \in {Unlisted, {}} THEN vec.chan[bw]
               ELSE Keep(vec.chan[bw], inq.chan[bw])
  BY DEF Filtered
<1>2. ASSUME NEW bw \in Width
      PROVE  /\ DOMAIN Filtered(vec, inq).chan[bw] \subseteq DOMAIN vec.chan[bw]
             /\ \A cfi \in DOMAIN Filtered(vec, inq).chan[bw] :
                  Filtered(vec, inq).chan[bw][cfi] = vec.chan[bw][cfi]
  BY <1>1, NothingOK DEF Keep
<1> QED BY <1>2 DEF Filtered, Keep

LEMMA SentOf ==
  ASSUME MaskInv
  PROVE  /\ IsPower(sent_response.freq) /\ DOMAIN sent_response.freq \subseteq DOMAIN mask
         /\ DOMAIN sent_response.chan = Width
         /\ \A bw \in Width : IsPower(sent_response.chan[bw])
         /\ \A bw \in Width : \A cfi \in DOMAIN sent_response.chan[bw] :
              /\ cfi \in DOMAIN Limits(mask, bw)
              /\ sent_response.chan[bw][cfi] = Limits(mask, bw)[cfi]
<1>1. CASE sent_response \in {NotSent, Sent("error", Empty)}
  BY <1>1, NothingSent, NothingOK
<1>2. CASE ~(sent_response \in {NotSent, Sent("error", Empty)})
  <2>1. /\ vectors.built
        /\ sent_response.freq = Filtered(vectors, inquiry).freq
        /\ sent_response.chan = Filtered(vectors, inquiry).chan
    BY <1>2, SentOfMask DEF Sent
  <2>2. /\ IsPower(vectors.freq) /\ DOMAIN vectors.freq \subseteq DOMAIN mask
        /\ DOMAIN vectors.chan = Width
        /\ \A bw \in Width : vectors.chan[bw] \in {Limits(mask, bw), Nothing}
        /\ \A bw \in Width : IsPower(vectors.chan[bw])
    BY <2>1, VectorType
  <2>3. /\ DOMAIN sent_response.freq \subseteq DOMAIN vectors.freq
        /\ \A ch \in DOMAIN sent_response.freq : sent_response.freq[ch] = vectors.freq[ch]
        /\ DOMAIN sent_response.chan = Width
        /\ \A bw \in Width :
             /\ DOMAIN sent_response.chan[bw] \subseteq DOMAIN vectors.chan[bw]
             /\ \A cfi \in DOMAIN sent_response.chan[bw] :
                  sent_response.chan[bw][cfi] = vectors.chan[bw][cfi]
    BY <2>1, <2>2, FilteredOf
  <2>4. IsPower(sent_response.freq)
    BY <2>2, <2>3 DEF IsPower
  <2>5. ASSUME NEW bw \in Width PROVE IsPower(sent_response.chan[bw])
    BY <2>2, <2>3 DEF IsPower
  <2>6. ASSUME NEW bw \in Width, NEW cfi \in DOMAIN sent_response.chan[bw]
        PROVE  /\ cfi \in DOMAIN Limits(mask, bw)
               /\ sent_response.chan[bw][cfi] = Limits(mask, bw)[cfi]
    <3>1. cfi \in DOMAIN vectors.chan[bw]
      BY <2>3
    <3>2. vectors.chan[bw] = Limits(mask, bw)
      BY <2>2, <3>1, NothingOK
    <3> QED BY <2>3, <3>1, <3>2
  <2> QED BY <2>2, <2>3, <2>4, <2>5, <2>6
<1> QED BY <1>1, <1>2

\* The state of the random vectors stays well formed: every power that is kept
\* or sent is a number, whatever was drawn.
THEOREM TypeCorrect == Spec => []TypeOK
<1>1. Inv => TypeOK
  <2> SUFFICES ASSUME Inv PROVE TypeOK
    OBVIOUS
  <2>1. MaskInv
    BY DEF Inv
  <2>2. IsPower(mask)
    BY <2>1 DEF MaskInv, MaskOK, IsPower
  <2>3. sent_response.code \in {"none", "error", "ok"}
    BY <2>1, NothingSent, SentOfMask
  <2>4. /\ vectors.built \in BOOLEAN /\ IsPower(vectors.freq)
        /\ DOMAIN vectors.chan = Width /\ \A bw \in Width : IsPower(vectors.chan[bw])
    <3>1. CASE vectors.built = TRUE
      BY <2>1, <3>1, VectorType
    <3>2. CASE vectors = Empty
      BY <3>2, NothingOK DEF Empty, NoLimits
    <3> QED BY <2>1, <3>1, <3>2 DEF MaskInv
  <2> QED BY <2>1, <2>2, <2>3, <2>4, SentOf DEF TypeOK, MaskInv
<1> QED BY <1>1, SpecInv, PTL

\* build_random_vector: a wide channel that is sent is granted as a whole, its
\* limit is covered by the PSD limit of every part of it, and is at most 36 dBm.
THEOREM WideLimitsCovered == Spec => []WideWithinParts
<1>1. Inv => WideWithinParts
  <2> SUFFICES ASSUME Inv, NEW bw \in Width \ {20}, NEW cfi \in DOMAIN sent_response.chan[bw]
               PROVE  /\ Parts(cfi, bw) \subseteq DOMAIN mask
                      /\ \A ch \in Parts(cfi, bw) :
                           sent_response.chan[bw][cfi] <= mask[ch] + Gain(bw)
                      /\ sent_response.chan[bw][cfi] <= MaxEirp
    BY DEF WideWithinParts
  <2>1. MaskInv /\ MaskOK(mask)
    BY DEF Inv, MaskInv
  <2>2. /\ cfi \in DOMAIN Limits(mask, bw)
        /\ sent_response.chan[bw][cfi] = Limits(mask, bw)[cfi]
    BY <2>1, SentOf
  <2> QED BY <2>1, <2>2, LimitsFacts
<1> QED BY <1>1, SpecInv, PTL

\* The second phase of a random vector offers no 20 MHz channel that the first
\* one offered, to a DUT that inquires two channels or more.
THEOREM PhasesDisjoint == Spec => []NoSharedChannel
<1>1. Inv => NoSharedChannel
  <2> SUFFICES ASSUME Inv, setting.difference_last_picks, ~setting.onlyRandomPower,
                      setting.channelWidth # 320, Cardinality(requested) >= 2
               PROVE  (DOMAIN sent_response.freq \cup DOMAIN sent_response.chan[20])
                        \cap offered = {}
    BY DEF NoSharedChannel
  <2>1. MaskInv /\ OfferInv
    BY DEF Inv
  <2>2. DOMAIN sent_response.freq \cup DOMAIN sent_response.chan[20] \subseteq DOMAIN mask
    <3>1. DOMAIN Limits(mask, 20) = DOMAIN mask
      BY DEF Limits
    <3> QED BY <2>1, <3>1, SentOf, WidthTwenty
  <2>3. CASE vectors.built
    BY <2>1, <2>2, <2>3 DEF OfferInv
  <2>4. CASE ~vectors.built
    BY <2>1, <2>2, <2>4, NothingOK DEF MaskInv
  <2> QED BY <2>3, <2>4
<1> QED BY <1>1, SpecInv, PTL

\* What was picked for the DUT is granted to it: each part of a pick that its
\* frequency ranges cover, and a pick it inquired by channel unless a part was
\* drawn 0.0 dBm.
THEOREM PicksReachTheDut == Spec => []PicksAreGranted
<1>1. Inv => PicksAreGranted
  <2> DEFINE bw == setting.channelWidth
             tv == setting.testVector
  <2> SUFFICES ASSUME Inv, sent_response.code = "ok", ~setting.onlyRandomPower,
                      NEW cfi \in random_picks
               PROVE  /\ tv \in {1, 3} /\ Inside(cfi, bw, inquiry)
                           => Parts(cfi, bw) \subseteq DOMAIN sent_response.freq
                      /\ tv \in {2, 3}
                         /\ cfi \in get_cfi_by_inquired_channels_bw(inquiry, bw)
                           => \/ cfi \in DOMAIN sent_response.chan[bw]
                              \/ \E ch \in Parts(cfi, bw) : mask[ch] = 0
    BY DEF PicksAreGranted
  <2>0. MaskInv /\ PickInv /\ setting \in Setting /\ MaskOK(mask)
    BY DEF Inv, MaskInv
  <2>1. ~(sent_response \in {NotSent, Sent("error", Empty)})
    BY NothingSent
  <2>2. /\ vectors.built
        /\ sent_response.freq = Filtered(vectors, inquiry).freq
        /\ sent_response.chan = Filtered(vectors, inquiry).chan
        /\ vectors.freq = Vector(mask, tv).freq /\ vectors.chan = Vector(mask, tv).chan
    BY <2>0, <2>1, SentOfMask DEF Sent
  <2>3. bw \in Width /\ bw # 20 /\ cfi \in Cfi[bw] /\ Parts(cfi, bw) \subseteq DOMAIN mask
    BY <2>0, <2>2, SettingType DEF PickInv
  <2>4. ASSUME tv \in {1, 3}, Inside(cfi, bw, inquiry)
        PROVE  Parts(cfi, bw) \subseteq DOMAIN sent_response.freq
    <3>1. vectors.freq = mask
      BY <2>2, <2>4 DEF Vector
    <3> QED BY <2>2, <2>3, <2>4, <3>1 DEF Filtered, Keep, Inside
  <2>5. ASSUME tv \in {2, 3}, cfi \in get_cfi_by_inquired_channels_bw(inquiry, bw),
               \A ch \in Parts(cfi, bw) : mask[ch] # 0
        PROVE  cfi \in DOMAIN sent_response.chan[bw]
    <3>1. vectors.chan[bw] = Limits(mask, bw)
      BY <2>2, <2>3, <2>5 DEF Vector
    <3>2. Granted(mask, cfi, bw)
      BY <2>0, <2>3, <2>5, GrantedParts
    <3>3. cfi \in DOMAIN vectors.chan[bw]
      BY <2>3, <3>1, <3>2 DEF Limits
    <3>4. bw \in DOMAIN inquiry.chan /\ (inquiry.chan[bw] = Unlisted \/ cfi \in inquiry.chan[bw])
      BY <2>5 DEF get_cfi_by_inquired_channels_bw
    <3>5. sent_response.chan[bw] = IF inquiry.chan[bw] \in {Unlisted, {}} THEN vectors.chan[bw]
                                   ELSE Keep(vectors.chan[bw], inquiry.chan[bw])
      BY <2>2, <2>3, <3>4 DEF Filtered
    <3> QED BY <3>3, <3>4, <3>5 DEF Keep
  <2> QED BY <2>4, <2>5
<1> QED BY <1>1, SpecInv, PTL
=============================================================================
