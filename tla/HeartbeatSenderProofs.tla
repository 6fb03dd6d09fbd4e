------------------------ MODULE HeartbeatSenderProofs ------------------------
(***************************************************************************)
(* Who owns the mbufs of the heartbeat senders, and what they send, for    *)
(* any pool and rings, any sender, and any number of heartbeats.           *)
(*                                                                         *)
(* Ownership is proved by counting: the seven places hold as many mbufs    *)
(* as the pool was made of, and every one of them is in some place, so     *)
(* none is in two.                                                         *)
(***************************************************************************)
EXTENDS HeartbeatSender, SequenceTheorems, FiniteSetTheorems, FunctionTheorems, TLAPS

-----------------------------------------------------------------------------
(***************************************************************************)
(* Sequences of mbufs and what they hold.                                  *)
(***************************************************************************)

LEMMA Nothing == ToSet(<< >>) = {} /\ << >> \in Seq(Mbuf) /\ Len(<< >>) = 0
  BY EmptySeq DEF ToSet

LEMMA Joined ==
  ASSUME NEW s \in Seq(Mbuf), NEW t \in Seq(Mbuf)
  PROVE  /\ s \o t \in Seq(Mbuf)
         /\ ToSet(s \o t) = ToSet(s) \cup ToSet(t)
         /\ Len(s \o t) = Len(s) + Len(t)
  <1>1. s \o t \in Seq(Mbuf) /\ Len(s \o t) = Len(s) + Len(t)
    BY ConcatProperties
  <1>2. Range(s \o t) = Range(s) \cup Range(t)
    BY RangeConcatenation
  <1>3. ToSet(s \o t) = Range(s \o t) /\ ToSet(s) = Range(s) /\ ToSet(t) = Range(t)
    BY DEF ToSet, Range
  <1>4. QED
    BY <1>1, <1>2, <1>3

LEMMA Single ==
  ASSUME NEW m \in Mbuf
  PROVE  <<m>> \in Seq(Mbuf) /\ ToSet(<<m>>) = {m} /\ Len(<<m>>) = 1
  BY DEF ToSet

LEMMA Added ==
  ASSUME NEW s \in Seq(Mbuf), NEW m \in Mbuf
  PROVE  /\ Append(s, m) \in Seq(Mbuf)
         /\ ToSet(Append(s, m)) = ToSet(s) \cup {m}
         /\ Len(Append(s, m)) = Len(s) + 1
  <1>1. Append(s, m) = s \o <<m>>
    BY AppendIsConcat
  <1>2. QED
    BY <1>1, Single, Joined

LEMMA Fronted ==
  ASSUME NEW m \in Mbuf, NEW t \in Seq(Mbuf)
  PROVE  /\ ToSet(<<m>> \o t) = {m} \cup ToSet(t)
         /\ Len(<<m>> \o t) = 1 + Len(t)
  <1> DEFINE one == <<m>>
  <1>1. one \in Seq(Mbuf) /\ ToSet(one) = {m} /\ Len(one) = 1
    BY Single
  <1> HIDE DEF one
  <1>2. ToSet(one \o t) = ToSet(one) \cup ToSet(t) /\ Len(one \o t) = Len(one) + Len(t)
    BY <1>1, Joined
  <1>3. ToSet(one \o t) = {m} \cup ToSet(t) /\ Len(one \o t) = 1 + Len(t)
    BY <1>1, <1>2
  <1>4. QED
    BY <1>3 DEF one

LEMMA Taken ==
  ASSUME NEW s \in Seq(Mbuf), s # << >>
  PROVE  /\ Head(s) \in Mbuf /\ Tail(s) \in Seq(Mbuf)
         /\ ToSet(s) = {Head(s)} \cup ToSet(Tail(s))
         /\ Len(s) = 1 + Len(Tail(s))
  <1>1. Head(s) \in Mbuf /\ Tail(s) \in Seq(Mbuf)
    BY HeadTailProperties
  <1>2. Len(s) \in Nat /\ 1 <= Len(s)
    BY EmptySeq
  <1>3. SubSeq(s, 1, Len(s)) = <<s[1]>> \o SubSeq(s, 2, Len(s))
    BY <1>2, SubSeqRecursiveFirst
  <1>4. s = <<Head(s)>> \o Tail(s)
    BY <1>3, SubSeqFull, TailIsSubSeq, HeadTailOfSubSeq
  <1>5. /\ ToSet(<<Head(s)>> \o Tail(s)) = {Head(s)} \cup ToSet(Tail(s))
        /\ Len(<<Head(s)>> \o Tail(s)) = 1 + Len(Tail(s))
    BY <1>1, Fronted
  <1>6. QED
    BY <1>1, <1>4, <1>5

LEMMA Counted ==
  ASSUME NEW s \in Seq(Mbuf)
  PROVE  IsFiniteSet(ToSet(s)) /\ Cardinality(ToSet(s)) \in Nat /\ Cardinality(ToSet(s)) <= Len(s)
  <1>1. Len(s) \in Nat /\ DOMAIN s = 1 .. Len(s) /\ s \in [1 .. Len(s) -> Mbuf]
    BY LenProperties
  <1>2. s \in Surjection(1 .. Len(s), ToSet(s))
    BY <1>1 DEF Surjection, ToSet, Range
  <1>3. IsFiniteSet(1 .. Len(s)) /\ Cardinality(1 .. Len(s)) = Len(s)
    BY <1>1, FS_Interval
  <1>4. QED
    BY <1>2, <1>3, FS_Surjection, FS_CardinalityType

\* Two sequences that hold all mbufs and are no longer than the pool share none.
LEMMA Apart ==
  ASSUME NEW s \in Seq(Mbuf), NEW t \in Seq(Mbuf),
         ToSet(s) \cup ToSet(t) = Mbuf,
         Len(s) + Len(t) = Cardinality(Mbuf)
  PROVE  ToSet(s) \cap ToSet(t) = {}
  <1> DEFINE A == ToSet(s)
             B == ToSet(t)
  <1>1. /\ IsFiniteSet(A) /\ Cardinality(A) \in Nat /\ Cardinality(A) <= Len(s)
        /\ IsFiniteSet(B) /\ Cardinality(B) \in Nat /\ Cardinality(B) <= Len(t)
    BY Counted
  <1>2. Cardinality(A \cup B) = Cardinality(A) + Cardinality(B) - Cardinality(A \cap B)
    BY <1>1, FS_Union
  <1>3. IsFiniteSet(A \cap B)
    BY <1>1, FS_Intersection
  <1>4. Cardinality(A \cap B) \in Nat
    BY <1>3, FS_CardinalityType
  <1>5. Len(s) \in Nat /\ Len(t) \in Nat
    BY LenProperties
  <1>6. Cardinality(A \cup B) = Len(s) + Len(t)
    OBVIOUS
  <1>7. Cardinality(A \cap B) = 0
    BY <1>1, <1>2, <1>4, <1>5, <1>6
  <1>8. QED
    BY <1>3, <1>7, FS_EmptySet

\* One that holds all mbufs and is no longer than the pool repeats none.
LEMMA NoneTwice ==
  ASSUME NEW s \in Seq(Mbuf), ToSet(s) = Mbuf, Len(s) = Cardinality(Mbuf)
  PROVE  IsInjective(s)
  <1>1. Len(s) \in Nat /\ DOMAIN s = 1 .. Len(s) /\ s \in [1 .. Len(s) -> Mbuf]
    BY LenProperties
  <1>2. s \in Surjection(1 .. Len(s), Mbuf)
    BY <1>1 DEF Surjection, ToSet, Range
  <1>3. IsFiniteSet(1 .. Len(s)) /\ Cardinality(1 .. Len(s)) = Len(s)
    BY <1>1, FS_Interval
  <1>4. s \in Injection(1 .. Len(s), Mbuf)
    BY <1>2, <1>3, SenderConstants, FS_SurjSameCardinalityImpliesInj
  <1>5. QED
    BY <1>4 DEF Injection

\* The order in which the pool hands out its mbufs.
LEMMA PoolOrder ==
  /\ SetToSeq(Mbuf) \in Seq(Mbuf)
  /\ ToSet(SetToSeq(Mbuf)) = Mbuf
  /\ Len(SetToSeq(Mbuf)) = Cardinality(Mbuf)
  <1> DEFINE n == Cardinality(Mbuf)
  <1>1. n \in Nat /\ ExistsBijection(1 .. n, Mbuf)
    BY SenderConstants, FS_CardinalityType
  <1>2. \E f \in [1 .. n -> Mbuf] : IsInjective(f)
    BY <1>1 DEF ExistsBijection, Bijection, Injection
  <1>3. SetToSeq(Mbuf) \in [1 .. n -> Mbuf] /\ IsInjective(SetToSeq(Mbuf))
    BY <1>2 DEF SetToSeq
  <1>4. SetToSeq(Mbuf) \in Injection(1 .. n, Mbuf)
    BY <1>3 DEF Injection
  <1>5. IsFiniteSet(1 .. n) /\ Cardinality(1 .. n) = n
    BY <1>1, FS_Interval
  <1>6. SetToSeq(Mbuf) \in Surjection(1 .. n, Mbuf)
    BY <1>4, <1>5, SenderConstants, FS_Injection
  <1>7. SetToSeq(Mbuf) \in Seq(Mbuf) /\ Len(SetToSeq(Mbuf)) = n
    BY <1>1, <1>3
  <1>8. ToSet(SetToSeq(Mbuf)) = Mbuf
    BY <1>6, <1>3 DEF Surjection, ToSet, Range
  <1>9. QED
    BY <1>7, <1>8

-----------------------------------------------------------------------------
(***************************************************************************)
(* Ownership.                                                              *)
(***************************************************************************)

PlacesTyped ==
  /\ pool \in Seq(Mbuf) /\ rx_ring \in Seq(Mbuf) /\ filled \in Seq(Mbuf)
  /\ polled \in Seq(Mbuf) /\ held \in Seq(Mbuf) /\ tx_ring \in Seq(Mbuf)
  /\ sent \in Seq(Mbuf)

\* Every mbuf is somewhere, and there is room for each only once.
EachSomewhere ==
  /\ ToSet(pool) \cup ToSet(rx_ring) \cup ToSet(filled) \cup ToSet(polled)
       \cup ToSet(held) \cup ToSet(tx_ring) \cup ToSet(sent) = Mbuf
  /\ Len(pool) + Len(rx_ring) + Len(filled) + Len(polled) + Len(held) + Len(tx_ring)
       + Len(sent) = Cardinality(Mbuf)

\* What the rings and the two cores keep from the pool.
PlacesBounded ==
  /\ Len(rx_ring) + Len(filled) <= RX_RING
  /\ Len(polled) <= 1
  /\ Len(tx_ring) + Len(sent) <= TX_RING
  /\ Len(held) <= 1

HeldWhileSending ==
  /\ sender \in {"next", "write", "burst", "ended"}
  /\ sender \in {"next", "ended"} => held = << >>
  /\ sender \in {"write", "burst"} => Len(held) = 1

OwnInv == PlacesTyped /\ EachSomewhere /\ PlacesBounded /\ HeldWhileSending

placeVars == <<pool, rx_ring, filled, polled, held, tx_ring, sent, sender>>

LEMMA OwnKept == OwnInv /\ UNCHANGED placeVars => OwnInv'
  BY DEF OwnInv, PlacesTyped, EachSomewhere, PlacesBounded, HeldWhileSending, placeVars

LEMMA LengthsAreNat ==
  ASSUME PlacesTyped
  PROVE  /\ Len(pool) \in Nat /\ Len(rx_ring) \in Nat /\ Len(filled) \in Nat
         /\ Len(polled) \in Nat /\ Len(held) \in Nat /\ Len(tx_ring) \in Nat
         /\ Len(sent) \in Nat
  BY LenProperties DEF PlacesTyped

LEMMA OwnInit == SenderInit /\ copy.fresh => OwnInv
  <1> SUFFICES ASSUME SenderInit, copy.fresh PROVE OwnInv
    OBVIOUS
  <1> DEFINE order == SetToSeq(Mbuf)
             n == Cardinality(Mbuf)
  <1>1. order \in Seq(Mbuf) /\ ToSet(order) = Mbuf /\ Len(order) = n
    BY PoolOrder
  <1>2. n \in Nat /\ RX_RING \in Nat /\ RX_RING >= 1 /\ TX_RING \in Nat /\ RX_RING + 1 < n
    BY SenderConstants, FS_CardinalityType
  <1>3. /\ rx_ring = SubSeq(order, 1, RX_RING)
        /\ held = SubSeq(order, RX_RING + 1, RX_RING + 0)
        /\ pool = SubSeq(order, RX_RING + 0 + 1, Len(order))
    BY DEF SenderInit
  <1>4. /\ filled = << >> /\ polled = << >> /\ tx_ring = << >> /\ sent = << >>
        /\ sender = "next"
    BY DEF SenderInit
  <1> HIDE DEF order, n
  <1>5. pool = SubSeq(order, RX_RING + 1, Len(order)) /\ held = << >>
    BY <1>2, <1>3, SubSeqEmpty
  <1>6. \A i \in 1 .. n : order[i] \in Mbuf
    BY <1>1, ElementOfSeq
  <1>7. /\ rx_ring \in Seq(Mbuf) /\ Len(rx_ring) = RX_RING
        /\ pool \in Seq(Mbuf) /\ Len(pool) = n - RX_RING
    BY <1>1, <1>2, <1>3, <1>5, <1>6, SubSeqProperties
  <1>8. rx_ring \o pool = order
    BY <1>1, <1>2, <1>3, <1>5, ConcatAdjacentSubSeq, SubSeqFull
  <1>9. ToSet(rx_ring) \cup ToSet(pool) = Mbuf
    BY <1>1, <1>7, <1>8, Joined
  <1>10. PlacesTyped
    BY <1>4, <1>5, <1>7, Nothing DEF PlacesTyped
  <1>11. EachSomewhere
    <2>1. Len(<< >>) = 0 /\ ToSet(<< >>) = {}
      BY Nothing
    <2>2. Len(pool) + Len(rx_ring) = n
      BY <1>2, <1>7
    <2>3. Len(pool) + Len(rx_ring) + Len(filled) + Len(polled) + Len(held) + Len(tx_ring)
            + Len(sent) = n
      BY <1>2, <1>4, <1>5, <1>7, <2>1, <2>2
    <2>4. QED
      BY <1>4, <1>5, <1>9, <2>1, <2>3 DEF EachSomewhere, n
  <1>12. PlacesBounded
    BY <1>2, <1>4, <1>5, <1>7, Nothing DEF PlacesBounded
  <1>13. HeldWhileSending
    BY <1>4, <1>5 DEF HeldWhileSending
  <1>14. QED
    BY <1>10, <1>11, <1>12, <1>13 DEF OwnInv

\* The kinds of move: the head of one place to the end of another, and a whole
\* place to the end of another.
LEMMA AllocateOwns == ASSUME OwnInv, copy.fresh, Allocate PROVE OwnInv'
  <1>1. pool # << >>
    <2>1. SUFFICES ASSUME pool = << >> PROVE FALSE
      OBVIOUS
    <2>2. Len(pool) = 0 /\ Len(held) = 0
      BY <2>1, Nothing DEF OwnInv, HeldWhileSending, Allocate
    <2>3. /\ Len(rx_ring) + Len(filled) <= RX_RING /\ Len(polled) <= 1
          /\ Len(tx_ring) + Len(sent) <= TX_RING
      BY DEF OwnInv, PlacesBounded
    <2>4. Cardinality(Mbuf) > RX_RING + TX_RING + 1 /\ RX_RING \in Nat /\ TX_RING \in Nat
      BY SenderConstants
    <2>5. Len(pool) + Len(rx_ring) + Len(filled) + Len(polled) + Len(held) + Len(tx_ring)
            + Len(sent) = Cardinality(Mbuf)
      BY DEF OwnInv, EachSomewhere
    <2>6. QED
      BY <2>2, <2>3, <2>4, <2>5, LengthsAreNat DEF OwnInv
  <1>2. /\ held' = <<Head(pool)>> /\ pool' = Tail(pool) /\ sender' = "write"
        /\ UNCHANGED <<rx_ring, filled, polled, tx_ring, sent>>
    BY <1>1 DEF Allocate, receiveVars, transmitVars
  <1>3. held = << >> /\ Len(held) = 0 /\ ToSet(held) = {}
    BY Nothing DEF OwnInv, HeldWhileSending, Allocate
  <1>4. /\ Head(pool) \in Mbuf /\ Tail(pool) \in Seq(Mbuf)
        /\ ToSet(pool) = {Head(pool)} \cup ToSet(pool') /\ Len(pool) = 1 + Len(pool')
    BY <1>1, <1>2, Taken DEF OwnInv, PlacesTyped
  <1>5. held' \in Seq(Mbuf) /\ ToSet(held') = {Head(pool)} /\ Len(held') = 1
    BY <1>2, <1>4, Single
  <1>6. PlacesTyped'
    BY <1>2, <1>4, <1>5 DEF OwnInv, PlacesTyped
  <1>7. EachSomewhere'
    BY <1>2, <1>3, <1>4, <1>5, <1>6, LengthsAreNat DEF OwnInv, EachSomewhere, PlacesTyped
  <1>8. PlacesBounded' /\ HeldWhileSending'
    BY <1>2, <1>5 DEF OwnInv, PlacesBounded, HeldWhileSending
  <1>9. QED
    BY <1>6, <1>7, <1>8 DEF OwnInv

LEMMA BurstOwns == ASSUME OwnInv, copy.fresh, Burst PROVE OwnInv'
  <1>1. Len(held) = 1 /\ sender = "burst"
    BY DEF OwnInv, HeldWhileSending, Burst
  <1>2. /\ sent' = << >> /\ held' = << >> /\ sender' \in {"next", "ended"}
        /\ UNCHANGED <<rx_ring, filled, polled>>
    BY DEF Burst, receiveVars
  <1>3. held[1] \in Mbuf /\ DOMAIN held = 1 .. 1
    <2>1. held \in Seq(Mbuf) /\ 1 \in 1 .. Len(held)
      BY <1>1 DEF OwnInv, PlacesTyped
    <2>2. held[1] \in Mbuf
      BY <2>1, ElementOfSeq
    <2>3. DOMAIN held = 1 .. Len(held)
      BY <2>1, LenProperties
    <2>4. QED
      BY <1>1, <2>2, <2>3
  <1>4. ToSet(held) = {held[1]}
    BY <1>3 DEF ToSet
  <1>5. /\ Len(sent') = 0 /\ ToSet(sent') = {} /\ Len(held') = 0 /\ ToSet(held') = {}
        /\ sent' \in Seq(Mbuf) /\ held' \in Seq(Mbuf)
    BY <1>2, Nothing
  <1>6. /\ pool \o sent \in Seq(Mbuf) /\ Len(pool \o sent) = Len(pool) + Len(sent)
        /\ ToSet(pool \o sent) = ToSet(pool) \cup ToSet(sent)
    BY Joined DEF OwnInv, PlacesTyped
  <1>7. HeldWhileSending'
    BY <1>2 DEF HeldWhileSending
  <1>8. CASE Len(tx_ring) < TX_RING
    <2>1. tx_ring' = Append(tx_ring, held[1]) /\ pool' = pool \o sent
      BY <1>8 DEF Burst
    <2>2. /\ tx_ring' \in Seq(Mbuf) /\ Len(tx_ring') = Len(tx_ring) + 1
          /\ ToSet(tx_ring') = ToSet(tx_ring) \cup {held[1]}
      BY <2>1, <1>3, Added DEF OwnInv, PlacesTyped
    <2>3. PlacesTyped'
      BY <1>2, <1>5, <1>6, <2>1, <2>2 DEF OwnInv, PlacesTyped
    <2>4. Len(pool') = Len(pool) + Len(sent) /\ ToSet(pool') = ToSet(pool) \cup ToSet(sent)
      BY <1>6, <2>1
    <2>5. EachSomewhere'
      BY <1>1, <1>2, <1>4, <1>5, <2>2, <2>4, LengthsAreNat DEF OwnInv, EachSomewhere
    <2>6. PlacesBounded'
      BY <1>2, <1>5, <1>8, <2>2, LengthsAreNat, SenderConstants DEF OwnInv, PlacesBounded
    <2>7. QED
      BY <1>7, <2>3, <2>5, <2>6 DEF OwnInv
  <1>9. CASE ~(Len(tx_ring) < TX_RING)
    <2>1. tx_ring' = tx_ring /\ pool' = (pool \o sent) \o held
      BY <1>9 DEF Burst
    <2>2. /\ pool' \in Seq(Mbuf) /\ Len(pool') = (Len(pool) + Len(sent)) + Len(held)
          /\ ToSet(pool') = (ToSet(pool) \cup ToSet(sent)) \cup ToSet(held)
      BY <2>1, <1>6, Joined DEF OwnInv, PlacesTyped
    <2>3. PlacesTyped'
      BY <1>2, <1>5, <2>1, <2>2 DEF OwnInv, PlacesTyped
    <2>4. EachSomewhere'
      BY <1>2, <1>5, <2>1, <2>2, LengthsAreNat DEF OwnInv, EachSomewhere
    <2>5. PlacesBounded'
      BY <1>2, <1>5, <2>1, LengthsAreNat, SenderConstants DEF OwnInv, PlacesBounded
    <2>6. QED
      BY <1>7, <2>3, <2>4, <2>5 DEF OwnInv
  <1>10. QED
    BY <1>8, <1>9

LEMMA TransmitOwns == ASSUME OwnInv, Transmit PROVE OwnInv'
  <1>1. /\ tx_ring # << >> /\ sent' = Append(sent, Head(tx_ring)) /\ tx_ring' = Tail(tx_ring)
        /\ UNCHANGED <<pool, held, rx_ring, filled, polled, sender>>
    BY DEF Transmit, receiveVars
  <1>2. /\ Head(tx_ring) \in Mbuf /\ tx_ring' \in Seq(Mbuf)
        /\ ToSet(tx_ring) = {Head(tx_ring)} \cup ToSet(tx_ring')
        /\ Len(tx_ring) = 1 + Len(tx_ring')
    BY <1>1, Taken DEF OwnInv, PlacesTyped
  <1>3. /\ sent' \in Seq(Mbuf) /\ Len(sent') = Len(sent) + 1
        /\ ToSet(sent') = ToSet(sent) \cup {Head(tx_ring)}
    BY <1>1, <1>2, Added DEF OwnInv, PlacesTyped
  <1>4. PlacesTyped'
    BY <1>1, <1>2, <1>3 DEF OwnInv, PlacesTyped
  <1>5. EachSomewhere' /\ PlacesBounded'
    BY <1>1, <1>2, <1>3, <1>4, LengthsAreNat, LenProperties
       DEF OwnInv, EachSomewhere, PlacesBounded, PlacesTyped
  <1>6. HeldWhileSending'
    BY <1>1 DEF OwnInv, HeldWhileSending
  <1>7. QED
    BY <1>4, <1>5, <1>6 DEF OwnInv

LEMMA FillOwns == ASSUME OwnInv, FillMbuf PROVE OwnInv'
  <1>1. /\ rx_ring # << >> /\ filled' = Append(filled, Head(rx_ring)) /\ rx_ring' = Tail(rx_ring)
        /\ UNCHANGED <<pool, held, polled, tx_ring, sent, sender>>
    BY DEF FillMbuf, transmitVars
  <1>2. /\ Head(rx_ring) \in Mbuf /\ rx_ring' \in Seq(Mbuf)
        /\ ToSet(rx_ring) = {Head(rx_ring)} \cup ToSet(rx_ring')
        /\ Len(rx_ring) = 1 + Len(rx_ring')
    BY <1>1, Taken DEF OwnInv, PlacesTyped
  <1>3. /\ filled' \in Seq(Mbuf) /\ Len(filled') = Len(filled) + 1
        /\ ToSet(filled') = ToSet(filled) \cup {Head(rx_ring)}
    BY <1>1, <1>2, Added DEF OwnInv, PlacesTyped
  <1>4. PlacesTyped'
    BY <1>1, <1>2, <1>3 DEF OwnInv, PlacesTyped
  <1>5. EachSomewhere' /\ PlacesBounded'
    BY <1>1, <1>2, <1>3, <1>4, LengthsAreNat, LenProperties
       DEF OwnInv, EachSomewhere, PlacesBounded, PlacesTyped
  <1>6. HeldWhileSending'
    BY <1>1 DEF OwnInv, HeldWhileSending
  <1>7. QED
    BY <1>4, <1>5, <1>6 DEF OwnInv

LEMMA PollOwns == ASSUME OwnInv, PollPacket PROVE OwnInv'
  <1>1. /\ filled # << >> /\ polled = << >> /\ polled' = <<Head(filled)>> /\ filled' = Tail(filled)
        /\ UNCHANGED <<held, tx_ring, sent, sender>>
    BY DEF PollPacket, transmitVars
  <1>2. /\ Head(filled) \in Mbuf /\ filled' \in Seq(Mbuf)
        /\ ToSet(filled) = {Head(filled)} \cup ToSet(filled')
        /\ Len(filled) = 1 + Len(filled')
    BY <1>1, Taken DEF OwnInv, PlacesTyped
  <1>3. /\ polled' \in Seq(Mbuf) /\ Len(polled') = 1 /\ ToSet(polled') = {Head(filled)}
        /\ Len(polled) = 0 /\ ToSet(polled) = {}
    BY <1>1, <1>2, Single, Nothing
  <1>4. HeldWhileSending'
    BY <1>1 DEF OwnInv, HeldWhileSending
  <1>5. CASE pool = << >>
    <2>1. pool' = pool /\ rx_ring' = rx_ring
      BY <1>5 DEF PollPacket
    <2>2. PlacesTyped'
      BY <1>1, <1>2, <1>3, <2>1 DEF OwnInv, PlacesTyped
    <2>3. Len(filled') \in Nat
      BY <2>2, LenProperties DEF PlacesTyped
    <2>4. EachSomewhere'
      BY <1>1, <1>2, <1>3, <2>1, <2>3, LengthsAreNat DEF OwnInv, EachSomewhere
    <2>5. PlacesBounded'
      BY <1>1, <1>2, <1>3, <2>1, <2>3, LengthsAreNat, SenderConstants DEF OwnInv, PlacesBounded
    <2>6. QED
      BY <1>4, <2>2, <2>4, <2>5 DEF OwnInv
  <1>6. CASE pool # << >>
    <2>1. rx_ring' = Append(rx_ring, Head(pool)) /\ pool' = Tail(pool)
      BY <1>6 DEF PollPacket
    <2>2. /\ Head(pool) \in Mbuf /\ pool' \in Seq(Mbuf)
          /\ ToSet(pool) = {Head(pool)} \cup ToSet(pool') /\ Len(pool) = 1 + Len(pool')
      BY <1>6, <2>1, Taken DEF OwnInv, PlacesTyped
    <2>3. /\ rx_ring' \in Seq(Mbuf) /\ Len(rx_ring') = Len(rx_ring) + 1
          /\ ToSet(rx_ring') = ToSet(rx_ring) \cup {Head(pool)}
      BY <2>1, <2>2, Added DEF OwnInv, PlacesTyped
    <2>4. PlacesTyped'
      BY <1>1, <1>2, <1>3, <2>2, <2>3 DEF OwnInv, PlacesTyped
    <2>5. /\ Len(pool') \in Nat /\ Len(filled') \in Nat
      BY <2>4, LenProperties DEF PlacesTyped
    <2>6. ToSet(pool') \cup ToSet(rx_ring') \cup ToSet(filled') \cup ToSet(polled')
            \cup ToSet(held') \cup ToSet(tx_ring') \cup ToSet(sent') = Mbuf
      BY <1>1, <1>2, <1>3, <2>2, <2>3 DEF OwnInv, EachSomewhere
    <2>7. Len(pool') + Len(rx_ring') + Len(filled') + Len(polled') + Len(held') + Len(tx_ring')
            + Len(sent') = Cardinality(Mbuf)
      BY <1>1, <1>2, <1>3, <2>2, <2>3, <2>5, LengthsAreNat DEF OwnInv, EachSomewhere
    <2>8. PlacesBounded'
      BY <1>1, <1>2, <1>3, <2>3, <2>5, LengthsAreNat, SenderConstants DEF OwnInv, PlacesBounded
    <2>9. QED
      BY <1>4, <2>4, <2>6, <2>7, <2>8 DEF OwnInv, EachSomewhere
  <1>7. QED
    BY <1>5, <1>6

LEMMA FreeOwns == ASSUME OwnInv, FreePacket PROVE OwnInv'
  <1>1. /\ pool' = pool \o polled /\ polled' = << >>
        /\ UNCHANGED <<rx_ring, filled, held, tx_ring, sent, sender>>
    BY DEF FreePacket, transmitVars
  <1>2. /\ pool' \in Seq(Mbuf) /\ Len(pool') = Len(pool) + Len(polled)
        /\ ToSet(pool') = ToSet(pool) \cup ToSet(polled)
    BY <1>1, Joined DEF OwnInv, PlacesTyped
  <1>3. polled' \in Seq(Mbuf) /\ Len(polled') = 0 /\ ToSet(polled') = {}
    BY <1>1, Nothing
  <1>4. PlacesTyped'
    BY <1>1, <1>2, <1>3 DEF OwnInv, PlacesTyped
  <1>5. EachSomewhere' /\ PlacesBounded' /\ HeldWhileSending'
    BY <1>1, <1>2, <1>3, LengthsAreNat
       DEF OwnInv, EachSomewhere, PlacesBounded, HeldWhileSending
  <1>6. QED
    BY <1>4, <1>5 DEF OwnInv

LEMMA OwnStep ==
  ASSUME copy.fresh, OwnInv, [SenderNext]_senderVars PROVE OwnInv'
  <1>1. CASE Lose
    <2>1. sender = "next" /\ sender' \in {"next", "ended"}
          /\ UNCHANGED <<pool, rx_ring, filled, polled, held, tx_ring, sent>>
      BY <1>1 DEF Lose, receiveVars, transmitVars
    <2>2. HeldWhileSending'
      BY <2>1 DEF OwnInv, HeldWhileSending
    <2>3. QED
      BY <2>1, <2>2 DEF OwnInv, PlacesTyped, EachSomewhere, PlacesBounded
  <1>2. CASE Write
    <2>1. sender = "write" /\ sender' = "burst"
          /\ UNCHANGED <<pool, rx_ring, filled, polled, held, tx_ring, sent>>
      BY <1>2 DEF Write, receiveVars, transmitVars
    <2>2. HeldWhileSending'
      BY <2>1 DEF OwnInv, HeldWhileSending
    <2>3. QED
      BY <2>1, <2>2 DEF OwnInv, PlacesTyped, EachSomewhere, PlacesBounded
  <1>3. CASE Reuse
    BY <1>3 DEF Reuse
  <1>4. CASE UNCHANGED senderVars
    BY <1>4, OwnKept DEF senderVars, placeVars
  <1>5. QED
    BY <1>1, <1>2, <1>3, <1>4, AllocateOwns, BurstOwns, TransmitOwns, FillOwns, PollOwns, FreeOwns
       DEF SenderNext

LEMMA CopyKept == ASSUME [SenderNext]_senderVars PROVE copy' = copy
  BY DEF SenderNext, Allocate, Reuse, Lose, Write, Burst, Transmit, FillMbuf, PollPacket,
         FreePacket, senderVars

LEMMA OwnedByOne == OwnInv => MbufHasOneOwner
  <1> SUFFICES ASSUME OwnInv
               PROVE  IsInjective(Everywhere) /\ ToSet(Everywhere) = Mbuf /\ sender # "wild"
    BY DEF MbufHasOneOwner
  <1>1. PlacesTyped
    BY DEF OwnInv
  <1>2. /\ pool \o rx_ring \in Seq(Mbuf)
        /\ Len(pool \o rx_ring) = Len(pool) + Len(rx_ring)
        /\ ToSet(pool \o rx_ring) = ToSet(pool) \cup ToSet(rx_ring)
    BY <1>1, Joined DEF PlacesTyped
  <1> DEFINE two == pool \o rx_ring
             three == two \o filled
             four == three \o polled
             five == four \o held
             six == five \o tx_ring
             all == six \o sent
  <1> HIDE DEF two
  <1>3. /\ three \in Seq(Mbuf) /\ Len(three) = Len(two) + Len(filled)
        /\ ToSet(three) = ToSet(two) \cup ToSet(filled)
    BY <1>1, <1>2, Joined DEF PlacesTyped, two
  <1> HIDE DEF three
  <1>4. /\ four \in Seq(Mbuf) /\ Len(four) = Len(three) + Len(polled)
        /\ ToSet(four) = ToSet(three) \cup ToSet(polled)
    BY <1>1, <1>3, Joined DEF PlacesTyped
  <1> HIDE DEF four
  <1>5. /\ five \in Seq(Mbuf) /\ Len(five) = Len(four) + Len(held)
        /\ ToSet(five) = ToSet(four) \cup ToSet(held)
    BY <1>1, <1>4, Joined DEF PlacesTyped
  <1> HIDE DEF five
  <1>6. /\ six \in Seq(Mbuf) /\ Len(six) = Len(five) + Len(tx_ring)
        /\ ToSet(six) = ToSet(five) \cup ToSet(tx_ring)
    BY <1>1, <1>5, Joined DEF PlacesTyped
  <1> HIDE DEF six
  <1>7. /\ all \in Seq(Mbuf) /\ Len(all) = Len(six) + Len(sent)
        /\ ToSet(all) = ToSet(six) \cup ToSet(sent)
    BY <1>1, <1>6, Joined DEF PlacesTyped
  <1> HIDE DEF all
  <1>8. ToSet(all) = Mbuf
    BY <1>2, <1>3, <1>4, <1>5, <1>6, <1>7 DEF OwnInv, EachSomewhere, two
  <1>9. Len(all) = Cardinality(Mbuf)
    BY <1>1, <1>2, <1>3, <1>4, <1>5, <1>6, <1>7, LengthsAreNat DEF OwnInv, EachSomewhere, two
  <1>10. IsInjective(all)
    BY <1>7, <1>8, <1>9, NoneTwice
  <1>11. Everywhere = all
    BY DEF Everywhere, two, three, four, five, six, all
  <1>12. sender # "wild"
    BY DEF OwnInv, HeldWhileSending
  <1>13. QED
    BY <1>8, <1>10, <1>11, <1>12

\* In the senders that allocate an mbuf for every heartbeat each mbuf is in one
\* place, and the allocation whose result is ignored never fails
\* (chen_fd/send_heartbeat.c).
THEOREM OneOwner == SenderSpec => []MbufHasOneOwner
  <1> DEFINE Inv == copy.fresh => OwnInv
  <1>1. SenderInit => Inv
    BY OwnInit
  <1>2. Inv /\ [SenderNext]_senderVars => Inv'
    BY OwnStep, CopyKept
  <1>3. Inv => MbufHasOneOwner
    BY OwnedByOne DEF MbufHasOneOwner
  <1>4. QED
    BY <1>1, <1>2, <1>3, PTL DEF SenderSpec

-----------------------------------------------------------------------------
(***************************************************************************)
(* What goes out.                                                          *)
(***************************************************************************)

Packet == [ours : BOOLEAN, id : Nat]

CarriedType ==
  /\ content \in [Mbuf -> Packet] /\ frame \in Packet /\ hb_id \in Nat \ {0}
  /\ rx_ring \in Seq(Mbuf) /\ held \in Seq(Mbuf) /\ tx_ring \in Seq(Mbuf)
  /\ sent \in Seq(Mbuf)

\* The NIC does not write to what the sender writes or has given away, and the
\* sender not to what it has given away.
LEMMA Untouched ==
  ASSUME OwnInv
  PROVE  /\ ToSet(rx_ring) \cap (ToSet(held) \cup ToSet(tx_ring)) = {}
         /\ ToSet(held) \cap ToSet(tx_ring) = {}
  <1>1. PlacesTyped /\ EachSomewhere
    BY DEF OwnInv
  <1>2. PICK core \in Seq(Mbuf) : /\ ToSet(core) = ToSet(filled) \cup ToSet(polled)
                                 /\ Len(core) = Len(filled) + Len(polled)
    BY <1>1, Joined DEF PlacesTyped
  <1>3. PICK driver \in Seq(Mbuf) : /\ ToSet(driver) = ToSet(pool) \cup ToSet(sent)
                                   /\ Len(driver) = Len(pool) + Len(sent)
    BY <1>1, Joined DEF PlacesTyped
  <1>4. PICK free \in Seq(Mbuf) : /\ ToSet(free) = ToSet(core) \cup ToSet(driver)
                                 /\ Len(free) = Len(core) + Len(driver)
    BY Joined
  <1>5. PICK u \in Seq(Mbuf) : /\ ToSet(u) = ToSet(free) \cup ToSet(tx_ring)
                              /\ Len(u) = Len(free) + Len(tx_ring)
    BY <1>1, Joined DEF PlacesTyped
  <1>6. PICK s \in Seq(Mbuf) : /\ ToSet(s) = ToSet(u) \cup ToSet(held)
                              /\ Len(s) = Len(u) + Len(held)
    BY <1>1, Joined DEF PlacesTyped
  <1>7. PICK t \in Seq(Mbuf) : /\ ToSet(t) = ToSet(u) \cup ToSet(rx_ring)
                              /\ Len(t) = Len(u) + Len(rx_ring)
    BY <1>1, Joined DEF PlacesTyped
  <1>8. ToSet(rx_ring) \cup ToSet(s) = Mbuf /\ ToSet(held) \cup ToSet(t) = Mbuf
    BY <1>1, <1>2, <1>3, <1>4, <1>5, <1>6, <1>7 DEF EachSomewhere
  <1>9. Len(rx_ring) + Len(s) = Cardinality(Mbuf) /\ Len(held) + Len(t) = Cardinality(Mbuf)
    BY <1>1, <1>2, <1>3, <1>4, <1>5, <1>6, <1>7, LengthsAreNat DEF EachSomewhere
  <1>10. ToSet(rx_ring) \cap ToSet(s) = {}
    BY <1>1, <1>8, <1>9, Apart DEF PlacesTyped
  <1>11. ToSet(held) \cap ToSet(t) = {}
    BY <1>1, <1>8, <1>9, Apart DEF PlacesTyped
  <1>12. QED
    BY <1>5, <1>6, <1>7, <1>10, <1>11

\* The senders that allocate: what is queued is ours, and numbered upwards
\* between the last frame and the next heartbeat.
OursQueued ==
  /\ \A i \in 1 .. Len(tx_ring) : content[tx_ring[i]].ours = TRUE
  /\ sender = "burst" => content[held[1]].ours = TRUE

NumberedUpwards ==
  /\ frame.id < hb_id
  /\ \A i \in 1 .. Len(tx_ring) :
       frame.id < content[tx_ring[i]].id /\ content[tx_ring[i]].id < hb_id
  /\ \A i, j \in 1 .. Len(tx_ring) :
       i < j => content[tx_ring[i]].id < content[tx_ring[j]].id
  /\ sender = "burst" => content[held[1]].id = hb_id

FreshInv ==
  /\ OwnInv /\ CarriedType /\ OursQueued
  /\ copy.numbered => NumberedUpwards

\* Those that use one mbuf and do not receive: all that is queued is that mbuf.
ReusedInv ==
  /\ CarriedType
  /\ Len(held) = 1 /\ held[1] \in Mbuf
  /\ \A i \in 1 .. Len(tx_ring) : tx_ring[i] = held[1]
  /\ \A i \in 1 .. Len(rx_ring) : rx_ring[i] # held[1]
  /\ content[held[1]].ours = TRUE
  /\ frame.id <= content[held[1]].id /\ content[held[1]].id <= hb_id
  /\ ~copy.numbered => content[held[1]].id = 0

LEMMA HeadRest ==
  ASSUME NEW s \in Seq(Mbuf), s # << >>
  PROVE  /\ Len(s) \in Nat /\ 1 \in 1 .. Len(s)
         /\ Head(s) = s[1] /\ Head(s) \in Mbuf
         /\ Tail(s) \in Seq(Mbuf) /\ Len(Tail(s)) = Len(s) - 1
         /\ \A i \in 1 .. Len(Tail(s)) : Tail(s)[i] = s[i + 1]
  <1>1. Len(s) \in Nat /\ 1 \in 1 .. Len(s)
    BY EmptySeq
  <1>2. Head(s) = s[1]
    BY <1>1, SubSeqFull, HeadTailOfSubSeq
  <1>3. QED
    BY <1>1, <1>2, HeadTailProperties

LEMMA InToSet ==
  ASSUME NEW s \in Seq(Mbuf), NEW i \in 1 .. Len(s)
  PROVE  s[i] \in ToSet(s) /\ s[i] \in Mbuf
  BY LenProperties, ElementOfSeq DEF ToSet

LEMMA WriteContent ==
  ASSUME CarriedType, Write, held[1] \in Mbuf
  PROVE  /\ content' \in [Mbuf -> Packet]
         /\ \A m \in Mbuf : m # held[1] => content'[m] = content[m]
         /\ content'[held[1]].ours = (copy.fresh \/ content[held[1]].ours)
         /\ content'[held[1]].id = IF copy.numbered THEN hb_id ELSE 0
  <1> DEFINE packet == [ours |-> copy.fresh \/ content[held[1]].ours,
                        id |-> IF copy.numbered THEN hb_id ELSE 0]
  <1>1. content' = [content EXCEPT ![held[1]] = packet]
    BY DEF Write
  <1>2. (copy.fresh \/ content[held[1]].ours) \in BOOLEAN
    OBVIOUS
  <1>3. (IF copy.numbered THEN hb_id ELSE 0) \in Nat
    BY DEF CarriedType
  <1>4. packet \in Packet
    BY <1>2, <1>3 DEF Packet
  <1> content \in [Mbuf -> Packet]
    BY DEF CarriedType
  <1>5. /\ packet.ours = (copy.fresh \/ content[held[1]].ours)
        /\ packet.id = IF copy.numbered THEN hb_id ELSE 0
    OBVIOUS
  <1> HIDE DEF packet
  <1>6. /\ content' \in [Mbuf -> Packet] /\ content'[held[1]] = packet
        /\ \A m \in Mbuf : m # held[1] => content'[m] = content[m]
    BY <1>1, <1>4
  <1>7. QED
    BY <1>5, <1>6

LEMMA FillContent ==
  ASSUME CarriedType, FillMbuf
  PROVE  /\ content' \in [Mbuf -> Packet]
         /\ \A m \in Mbuf : m # rx_ring[1] => content'[m] = content[m]
  <1>1. rx_ring # << >> /\ content' = [content EXCEPT ![Head(rx_ring)] = [ours |-> FALSE, id |-> 0]]
        /\ content \in [Mbuf -> Packet] /\ rx_ring \in Seq(Mbuf)
    BY DEF FillMbuf, CarriedType
  <1>2. Head(rx_ring) = rx_ring[1] /\ Head(rx_ring) \in Mbuf
    BY <1>1, HeadRest
  <1>3. [ours |-> FALSE, id |-> 0] \in Packet
    BY DEF Packet
  <1>4. QED
    BY <1>1, <1>2, <1>3

LEMMA FreshInit == SenderInit /\ copy.fresh => FreshInv
  <1> SUFFICES ASSUME SenderInit, copy.fresh PROVE FreshInv
    OBVIOUS
  <1>1. OwnInv
    BY OwnInit
  <1>2. /\ tx_ring = << >> /\ sender = "next" /\ hb_id = copy.first /\ copy \in Copies
        /\ frame = [ours |-> TRUE, id |-> 0]
        /\ content = [m \in Mbuf |-> [ours |-> held = <<m>>, id |-> 0]]
    BY DEF SenderInit
  <1>3. hb_id \in Nat \ {0}
    BY <1>2, CopiesNumbered
  <1>4. content \in [Mbuf -> Packet] /\ frame \in Packet
    BY <1>2 DEF Packet
  <1>5. CarriedType
    BY <1>1, <1>3, <1>4 DEF CarriedType, OwnInv, PlacesTyped
  <1>6. 1 .. Len(tx_ring) = {}
    BY <1>2, Nothing
  <1>7. OursQueued
    BY <1>2, <1>6 DEF OursQueued
  <1>8. NumberedUpwards
    BY <1>2, <1>3, <1>6 DEF NumberedUpwards
  <1>9. QED
    BY <1>1, <1>5, <1>7, <1>8 DEF FreshInv

LEMMA FreshKept ==
  ASSUME FreshInv, OwnInv', hb_id' \in {hb_id, hb_id + 1},
         UNCHANGED <<copy, tx_ring, content, frame>>,
         sender' = "burst" => sender = "burst" /\ UNCHANGED <<held, hb_id>>
  PROVE  FreshInv'
  <1>1. CarriedType /\ OursQueued /\ (copy.numbered => NumberedUpwards)
    BY DEF FreshInv
  <1>2. hb_id \in Nat \ {0} /\ hb_id' \in Nat \ {0} /\ hb_id <= hb_id'
    BY <1>1 DEF CarriedType
  <1>3. CarriedType'
    BY <1>1, <1>2 DEF CarriedType, OwnInv, PlacesTyped
  <1>4. OursQueued'
    BY <1>1 DEF OursQueued
  <1>5. ASSUME NumberedUpwards PROVE NumberedUpwards'
    <2>1. frame.id \in Nat /\ \A i \in 1 .. Len(tx_ring) : content[tx_ring[i]].id \in Nat
      BY <1>1, InToSet DEF CarriedType, Packet
    <2>2. frame'.id < hb_id'
      BY <1>2, <1>5, <2>1 DEF NumberedUpwards
    <2>3. \A i \in 1 .. Len(tx_ring') :
            frame'.id < content'[tx_ring'[i]].id /\ content'[tx_ring'[i]].id < hb_id'
      BY <1>2, <1>5, <2>1 DEF NumberedUpwards
    <2>4. QED
      BY <1>5, <2>2, <2>3 DEF NumberedUpwards
  <1>6. QED
    BY <1>1, <1>3, <1>4, <1>5 DEF FreshInv

LEMMA FreshWrite == ASSUME copy.fresh, FreshInv, OwnInv', Write PROVE FreshInv'
  <1>1. /\ OwnInv /\ CarriedType /\ OursQueued /\ (copy.numbered => NumberedUpwards)
        /\ sender = "write" /\ sender' = "burst"
        /\ UNCHANGED <<copy, tx_ring, frame, held, hb_id>>
    BY DEF FreshInv, Write, transmitVars
  <1>2. 1 \in 1 .. Len(held)
    BY <1>1 DEF OwnInv, HeldWhileSending
  <1>3. held[1] \in Mbuf /\ held[1] \in ToSet(held)
    BY <1>1, <1>2, InToSet DEF CarriedType
  <1>4. /\ content' \in [Mbuf -> Packet]
        /\ \A m \in Mbuf : m # held[1] => content'[m] = content[m]
        /\ content'[held[1]].ours = (copy.fresh \/ content[held[1]].ours)
        /\ content'[held[1]].id = IF copy.numbered THEN hb_id ELSE 0
    BY <1>1, <1>3, WriteContent
  <1>5. \A i \in 1 .. Len(tx_ring) : content'[tx_ring[i]] = content[tx_ring[i]]
    BY <1>1, <1>3, <1>4, InToSet, Untouched DEF CarriedType
  <1>6. content'[held[1]].ours = TRUE
    BY <1>4
  <1>7. CarriedType'
    BY <1>1, <1>4 DEF CarriedType, OwnInv, PlacesTyped
  <1>8. OursQueued'
    BY <1>1, <1>5, <1>6 DEF OursQueued
  <1>9. ASSUME copy.numbered PROVE NumberedUpwards'
    <2>1. NumberedUpwards /\ content'[held[1]].id = hb_id
      BY <1>1, <1>4, <1>9
    <2>2. QED
      BY <1>1, <1>5, <2>1 DEF NumberedUpwards
  <1>10. QED
    BY <1>1, <1>7, <1>8, <1>9 DEF FreshInv

LEMMA FreshFill == ASSUME FreshInv, OwnInv', FillMbuf PROVE FreshInv'
  <1>1. /\ OwnInv /\ CarriedType /\ OursQueued /\ (copy.numbered => NumberedUpwards)
        /\ UNCHANGED <<copy, tx_ring, frame, held, hb_id, sender>> /\ rx_ring # << >>
    BY DEF FreshInv, FillMbuf, transmitVars
  <1>2. 1 \in 1 .. Len(rx_ring)
    BY <1>1, HeadRest DEF CarriedType
  <1>3. rx_ring[1] \in ToSet(rx_ring)
    BY <1>1, <1>2, InToSet DEF CarriedType
  <1>4. /\ content' \in [Mbuf -> Packet]
        /\ \A m \in Mbuf : m # rx_ring[1] => content'[m] = content[m]
    BY <1>1, FillContent
  <1>5. \A i \in 1 .. Len(tx_ring) : content'[tx_ring[i]] = content[tx_ring[i]]
    BY <1>1, <1>3, <1>4, InToSet, Untouched DEF CarriedType
  <1>6. sender = "burst" => content'[held[1]] = content[held[1]]
    <2>1. SUFFICES ASSUME sender = "burst" PROVE content'[held[1]] = content[held[1]]
      OBVIOUS
    <2>2. 1 \in 1 .. Len(held)
      BY <1>1, <2>1 DEF OwnInv, HeldWhileSending
    <2>3. held[1] \in Mbuf /\ held[1] \in ToSet(held)
      BY <1>1, <2>2, InToSet DEF CarriedType
    <2>4. QED
      BY <1>1, <1>3, <1>4, <2>3, Untouched
  <1>7. CarriedType'
    BY <1>1, <1>4 DEF CarriedType, OwnInv, PlacesTyped
  <1>8. OursQueued'
    BY <1>1, <1>5, <1>6 DEF OursQueued
  <1>9. NumberedUpwards => NumberedUpwards'
    BY <1>1, <1>5, <1>6 DEF NumberedUpwards
  <1>10. QED
    BY <1>1, <1>7, <1>8, <1>9 DEF FreshInv

LEMMA FreshBurst == ASSUME copy.fresh, FreshInv, OwnInv', Burst PROVE FreshInv'
  <1>1. /\ OwnInv /\ CarriedType /\ OursQueued /\ (copy.numbered => NumberedUpwards)
        /\ UNCHANGED <<copy, frame, content>> /\ sender = "burst" /\ sender' # "burst"
        /\ hb_id' = hb_id + 1
    BY DEF FreshInv, Burst
  <1>2. 1 \in 1 .. Len(held)
    BY <1>1 DEF OwnInv, HeldWhileSending
  <1>3. held[1] \in Mbuf
    BY <1>1, <1>2, InToSet DEF CarriedType
  <1>4. CASE Len(tx_ring) < TX_RING
    <2>1. tx_ring' = Append(tx_ring, held[1])
      BY <1>4 DEF Burst
    <2>2. /\ Len(tx_ring) \in Nat /\ Len(tx_ring') = Len(tx_ring) + 1
          /\ \A i \in 1 .. Len(tx_ring) : tx_ring'[i] = tx_ring[i]
          /\ tx_ring'[Len(tx_ring) + 1] = held[1]
      BY <1>1, <1>3, <2>1, AppendProperties, LenProperties DEF CarriedType
    <2>3. \A i \in 1 .. Len(tx_ring') : i \in 1 .. Len(tx_ring) \/ i = Len(tx_ring) + 1
      BY <2>2
    <2>4. hb_id' \in Nat \ {0}
      BY <1>1 DEF CarriedType
    <2>5. CarriedType'
      BY <1>1, <2>4 DEF CarriedType, OwnInv, PlacesTyped
    <2>6. OursQueued'
      BY <1>1, <2>2, <2>3 DEF OursQueued
    <2>7. ASSUME copy.numbered PROVE NumberedUpwards'
      <3>1. NumberedUpwards
        BY <1>1, <2>7
      <3>2. hb_id \in Nat /\ frame.id \in Nat /\ content[held[1]].id = hb_id
            /\ \A i \in 1 .. Len(tx_ring) : content[tx_ring[i]].id \in Nat
        BY <1>1, <1>3, <3>1, InToSet DEF CarriedType, Packet, NumberedUpwards
      <3>3. frame'.id < hb_id'
        BY <1>1, <3>1, <3>2 DEF NumberedUpwards
      <3>4. ASSUME NEW i \in 1 .. Len(tx_ring')
            PROVE  frame'.id < content'[tx_ring'[i]].id /\ content'[tx_ring'[i]].id < hb_id'
        <4>1. CASE i \in 1 .. Len(tx_ring)
          BY <1>1, <2>2, <3>1, <3>2, <4>1 DEF NumberedUpwards
        <4>2. CASE i = Len(tx_ring) + 1
          BY <1>1, <2>2, <3>1, <3>2, <4>2 DEF NumberedUpwards
        <4>3. QED
          BY <2>3, <4>1, <4>2
      <3>5. ASSUME NEW i \in 1 .. Len(tx_ring'), NEW j \in 1 .. Len(tx_ring'), i < j
            PROVE  content'[tx_ring'[i]].id < content'[tx_ring'[j]].id
        <4>1. i \in 1 .. Len(tx_ring)
          BY <2>2, <3>5
        <4>2. CASE j \in 1 .. Len(tx_ring)
          BY <1>1, <2>2, <3>1, <3>5, <4>1, <4>2 DEF NumberedUpwards
        <4>3. CASE j = Len(tx_ring) + 1
          BY <1>1, <2>2, <3>1, <3>2, <4>1, <4>3 DEF NumberedUpwards
        <4>4. QED
          BY <2>3, <4>2, <4>3
      <3>6. QED
        BY <1>1, <3>3, <3>4, <3>5 DEF NumberedUpwards
    <2>8. QED
      BY <1>1, <2>5, <2>6, <2>7 DEF FreshInv
  <1>5. CASE ~(Len(tx_ring) < TX_RING)
    <2>1. tx_ring' = tx_ring
      BY <1>5 DEF Burst
    <2>2. QED
      BY <1>1, <2>1, FreshKept
  <1>6. QED
    BY <1>4, <1>5

LEMMA FreshTransmit ==
  ASSUME FreshInv, OwnInv', Transmit
  PROVE  /\ FreshInv'
         /\ frame'.ours = TRUE /\ (copy.numbered => frame.id < frame'.id)
  <1>1. /\ OwnInv /\ CarriedType /\ OursQueued /\ (copy.numbered => NumberedUpwards)
        /\ UNCHANGED <<copy, content, held, hb_id, sender>> /\ tx_ring # << >>
        /\ tx_ring' = Tail(tx_ring) /\ frame' = content[Head(tx_ring)]
    BY DEF FreshInv, Transmit
  <1>2. /\ Len(tx_ring) \in Nat /\ 1 \in 1 .. Len(tx_ring)
        /\ Head(tx_ring) = tx_ring[1] /\ Head(tx_ring) \in Mbuf
        /\ Len(tx_ring') = Len(tx_ring) - 1
        /\ \A i \in 1 .. Len(tx_ring') : tx_ring'[i] = tx_ring[i + 1]
    BY <1>1, HeadRest DEF CarriedType
  <1>3. \A i \in 1 .. Len(tx_ring') : i + 1 \in 1 .. Len(tx_ring) /\ 1 < i + 1
    BY <1>2
  <1>4. frame' = content[tx_ring[1]] /\ frame' \in Packet
    BY <1>1, <1>2 DEF CarriedType
  <1>5. CarriedType'
    BY <1>1, <1>4 DEF CarriedType, OwnInv, PlacesTyped
  <1>6. frame'.ours = TRUE
    BY <1>1, <1>2, <1>4 DEF OursQueued
  <1>7. OursQueued'
    BY <1>1, <1>2, <1>3 DEF OursQueued
  <1>8. ASSUME copy.numbered PROVE NumberedUpwards' /\ frame.id < frame'.id
    <2>1. NumberedUpwards
      BY <1>1, <1>8
    <2>2. frame.id < frame'.id /\ frame'.id < hb_id'
      BY <1>1, <1>2, <1>4, <2>1 DEF NumberedUpwards
    <2>3. ASSUME NEW i \in 1 .. Len(tx_ring')
          PROVE  frame'.id < content'[tx_ring'[i]].id /\ content'[tx_ring'[i]].id < hb_id'
      BY <1>1, <1>2, <1>3, <1>4, <2>1 DEF NumberedUpwards
    <2>4. ASSUME NEW i \in 1 .. Len(tx_ring'), NEW j \in 1 .. Len(tx_ring'), i < j
          PROVE  content'[tx_ring'[i]].id < content'[tx_ring'[j]].id
      <3>1. i + 1 < j + 1
        BY <2>4
      <3>2. QED
        BY <1>1, <1>2, <1>3, <2>1, <3>1 DEF NumberedUpwards
    <2>5. sender' = "burst" => content'[held'[1]].id = hb_id'
      BY <1>1, <2>1 DEF NumberedUpwards
    <2>6. QED
      BY <2>2, <2>3, <2>4, <2>5 DEF NumberedUpwards
  <1>9. QED
    BY <1>1, <1>5, <1>6, <1>7, <1>8 DEF FreshInv

LEMMA FreshStep == ASSUME copy.fresh, FreshInv, [SenderNext]_senderVars PROVE FreshInv'
  <1>1. OwnInv' /\ hb_id \in Nat
    BY OwnStep DEF FreshInv, CarriedType
  <1>2. CASE Allocate
    BY <1>1, <1>2, FreshKept DEF Allocate, transmitVars
  <1>3. CASE Lose
    BY <1>1, <1>3, FreshKept DEF Lose, transmitVars
  <1>4. CASE PollPacket \/ FreePacket
    BY <1>1, <1>4, FreshKept DEF PollPacket, FreePacket, transmitVars
  <1>5. CASE Reuse
    BY <1>5 DEF Reuse
  <1>6. CASE UNCHANGED senderVars
    BY <1>1, <1>6, FreshKept DEF senderVars
  <1>7. QED
    BY <1>1, <1>2, <1>3, <1>4, <1>5, <1>6, FreshWrite, FreshBurst, FreshTransmit, FreshFill
       DEF SenderNext

LEMMA ReusedInit == SenderInit /\ ~copy.fresh => ReusedInv
  <1> SUFFICES ASSUME SenderInit, ~copy.fresh PROVE ReusedInv
    OBVIOUS
  <1> DEFINE order == SetToSeq(Mbuf)
             n == Cardinality(Mbuf)
  <1>1. order \in Seq(Mbuf) /\ Len(order) = n /\ ToSet(order) = Mbuf
    BY PoolOrder
  <1>2. n \in Nat /\ RX_RING \in Nat /\ RX_RING >= 1 /\ RX_RING + 1 < n
    BY SenderConstants, FS_CardinalityType
  <1>3. IsInjective(order) /\ DOMAIN order = 1 .. n
    BY <1>1, NoneTwice, LenProperties
  <1>4. /\ rx_ring = SubSeq(order, 1, RX_RING)
        /\ held = SubSeq(order, RX_RING + 1, RX_RING + 1)
        /\ tx_ring = << >> /\ sent = << >> /\ frame = [ours |-> TRUE, id |-> 0]
        /\ content = [m \in Mbuf |-> [ours |-> held = <<m>>, id |-> 0]]
        /\ hb_id = copy.first /\ copy \in Copies
    BY DEF SenderInit
  <1> HIDE DEF order, n
  <1>5. \A i \in 1 .. n : order[i] \in Mbuf
    BY <1>1, ElementOfSeq
  <1>6. /\ rx_ring \in Seq(Mbuf) /\ Len(rx_ring) = RX_RING
        /\ \A i \in 1 .. RX_RING : rx_ring[i] = order[i]
    <2>1. /\ rx_ring \in Seq(Mbuf) /\ Len(rx_ring) = RX_RING
          /\ \A i \in 1 .. RX_RING - 1 + 1 : rx_ring[i] = order[1 + i - 1]
      BY <1>2, <1>4, <1>5, SubSeqProperties
    <2>2. QED
      BY <1>2, <2>1
  <1>7. /\ held \in Seq(Mbuf) /\ Len(held) = 1 /\ held[1] = order[RX_RING + 1]
    <2>1. /\ held \in Seq(Mbuf) /\ Len(held) = 1
          /\ \A i \in 1 .. (RX_RING + 1) - (RX_RING + 1) + 1 :
               held[i] = order[(RX_RING + 1) + i - 1]
      BY <1>2, <1>4, <1>5, SubSeqProperties
    <2>2. QED
      BY <1>2, <2>1
  <1>8. held[1] \in Mbuf
    BY <1>2, <1>5, <1>7
  <1>9. \A i \in 1 .. Len(rx_ring) : rx_ring[i] # held[1]
    BY <1>2, <1>3, <1>6, <1>7 DEF IsInjective
  <1>10. held = <<held[1]>>
    <2>1. <<held[1]>> \in Seq(Mbuf) /\ Len(<<held[1]>>) = 1 /\ <<held[1]>>[1] = held[1]
      BY <1>8, Single
    <2>2. \A i \in 1 .. Len(held) : held[i] = <<held[1]>>[i]
      BY <1>7, <2>1
    <2>3. QED
      BY <1>7, <2>1, <2>2, SeqEqual
  <1>11. content[held[1]].ours = TRUE /\ content[held[1]].id = 0
    BY <1>4, <1>8, <1>10
  <1>12. hb_id \in Nat \ {0}
    BY <1>4, CopiesNumbered
  <1>13. content \in [Mbuf -> Packet] /\ frame \in Packet /\ frame.id = 0
    BY <1>4 DEF Packet
  <1>14. CarriedType
    BY <1>4, <1>6, <1>7, <1>12, <1>13, Nothing DEF CarriedType
  <1>15. 1 .. Len(tx_ring) = {}
    BY <1>4, Nothing
  <1>16. QED
    BY <1>7, <1>8, <1>9, <1>11, <1>12, <1>13, <1>14, <1>15 DEF ReusedInv

LEMMA ReusedWrite == ASSUME ~copy.fresh, ReusedInv, Write PROVE ReusedInv'
  <1>1. /\ CarriedType /\ held[1] \in Mbuf /\ content[held[1]].ours = TRUE
        /\ UNCHANGED <<copy, rx_ring, tx_ring, sent, frame, held, hb_id>>
    BY DEF ReusedInv, Write, transmitVars, receiveVars
  <1>2. /\ content' \in [Mbuf -> Packet]
        /\ content'[held[1]].ours = (copy.fresh \/ content[held[1]].ours)
        /\ content'[held[1]].id = IF copy.numbered THEN hb_id ELSE 0
    BY <1>1, WriteContent
  <1>3. content'[held[1]].ours = TRUE
    BY <1>1, <1>2
  <1>4. CarriedType'
    BY <1>1, <1>2 DEF CarriedType
  <1>5. hb_id \in Nat /\ frame.id \in Nat /\ content[held[1]].id \in Nat
    BY <1>1 DEF CarriedType, Packet
  <1>6. /\ frame.id <= content[held[1]].id /\ content[held[1]].id <= hb_id
        /\ ~copy.numbered => content[held[1]].id = 0
    BY DEF ReusedInv
  <1>7. /\ frame.id <= content'[held[1]].id /\ content'[held[1]].id <= hb_id
        /\ ~copy.numbered => content'[held[1]].id = 0
    <2>1. CASE copy.numbered
      BY <1>2, <1>5, <1>6, <2>1
    <2>2. CASE ~copy.numbered
      BY <1>2, <1>5, <1>6, <2>2
    <2>3. QED
      BY <2>1, <2>2
  <1>8. QED
    BY <1>1, <1>3, <1>4, <1>7 DEF ReusedInv

LEMMA ReusedFill == ASSUME ReusedInv, FillMbuf PROVE ReusedInv'
  <1>1. /\ CarriedType /\ held[1] \in Mbuf /\ rx_ring # << >> /\ rx_ring' = Tail(rx_ring)
        /\ UNCHANGED <<copy, tx_ring, sent, frame, held, hb_id>>
    BY DEF ReusedInv, FillMbuf, transmitVars
  <1>2. /\ Len(rx_ring) \in Nat /\ 1 \in 1 .. Len(rx_ring)
        /\ rx_ring' \in Seq(Mbuf) /\ Len(rx_ring') = Len(rx_ring) - 1
        /\ \A i \in 1 .. Len(rx_ring') : rx_ring'[i] = rx_ring[i + 1]
    BY <1>1, HeadRest DEF CarriedType
  <1>3. /\ content' \in [Mbuf -> Packet]
        /\ \A m \in Mbuf : m # rx_ring[1] => content'[m] = content[m]
    BY <1>1, FillContent
  <1>4. content'[held[1]] = content[held[1]]
    BY <1>1, <1>2, <1>3 DEF ReusedInv
  <1>5. \A i \in 1 .. Len(rx_ring') : i + 1 \in 1 .. Len(rx_ring)
    BY <1>2
  <1>6. \A i \in 1 .. Len(rx_ring') : rx_ring'[i] # held[1]
    BY <1>2, <1>5 DEF ReusedInv
  <1>7. CarriedType'
    BY <1>1, <1>2, <1>3 DEF CarriedType
  <1>8. QED
    BY <1>1, <1>4, <1>6, <1>7 DEF ReusedInv

LEMMA ReusedBurst == ASSUME ~copy.fresh, ReusedInv, Burst PROVE ReusedInv'
  <1>1. /\ CarriedType /\ held[1] \in Mbuf /\ held' = held /\ sent' = << >>
        /\ UNCHANGED <<copy, rx_ring, frame, content>> /\ hb_id' = hb_id + 1
    BY DEF ReusedInv, Burst, receiveVars
  <1>2. hb_id' \in Nat \ {0} /\ hb_id \in Nat /\ content[held[1]].id \in Nat
    BY <1>1 DEF CarriedType, Packet
  <1>3. content[held[1]].id <= hb_id'
    BY <1>1, <1>2 DEF ReusedInv
  <1>4. sent' \in Seq(Mbuf)
    BY <1>1, Nothing
  <1>5. tx_ring' \in Seq(Mbuf) /\ \A i \in 1 .. Len(tx_ring') : tx_ring'[i] = held[1]
    <2>1. CASE Len(tx_ring) < TX_RING
      <3>1. tx_ring' = Append(tx_ring, held[1])
        BY <2>1 DEF Burst
      <3>2. /\ tx_ring' \in Seq(Mbuf)
            /\ Len(tx_ring) \in Nat /\ Len(tx_ring') = Len(tx_ring) + 1
            /\ \A i \in 1 .. Len(tx_ring) : tx_ring'[i] = tx_ring[i]
            /\ tx_ring'[Len(tx_ring) + 1] = held[1]
        BY <1>1, <3>1, AppendProperties, LenProperties DEF CarriedType
      <3>3. \A i \in 1 .. Len(tx_ring') : i \in 1 .. Len(tx_ring) \/ i = Len(tx_ring) + 1
        BY <3>2
      <3>4. QED
        BY <3>2, <3>3 DEF ReusedInv
    <2>2. CASE ~(Len(tx_ring) < TX_RING)
      <3>1. tx_ring' = tx_ring
        BY <2>2 DEF Burst
      <3>2. QED
        BY <1>1, <3>1 DEF ReusedInv, CarriedType
    <2>3. QED
      BY <2>1, <2>2
  <1>6. CarriedType'
    BY <1>1, <1>2, <1>4, <1>5 DEF CarriedType
  <1>7. QED
    BY <1>1, <1>3, <1>5, <1>6 DEF ReusedInv

LEMMA ReusedTransmit ==
  ASSUME ReusedInv, Transmit
  PROVE  ReusedInv' /\ frame'.ours = TRUE /\ frame.id <= frame'.id
  <1>1. /\ CarriedType /\ held[1] \in Mbuf /\ tx_ring # << >>
        /\ frame' = content[Head(tx_ring)] /\ tx_ring' = Tail(tx_ring)
        /\ sent' = Append(sent, Head(tx_ring))
        /\ UNCHANGED <<copy, rx_ring, content, held, hb_id>>
    BY DEF ReusedInv, Transmit, receiveVars
  <1>2. /\ Len(tx_ring) \in Nat /\ 1 \in 1 .. Len(tx_ring)
        /\ Head(tx_ring) = tx_ring[1] /\ Head(tx_ring) \in Mbuf
        /\ tx_ring' \in Seq(Mbuf) /\ Len(tx_ring') = Len(tx_ring) - 1
        /\ \A i \in 1 .. Len(tx_ring') : tx_ring'[i] = tx_ring[i + 1]
    BY <1>1, HeadRest DEF CarriedType
  <1>3. \A i \in 1 .. Len(tx_ring') : i + 1 \in 1 .. Len(tx_ring)
    BY <1>2
  <1>4. frame' = content[held[1]] /\ frame' \in Packet
    BY <1>1, <1>2 DEF ReusedInv, CarriedType
  <1>5. sent' \in Seq(Mbuf)
    BY <1>1, <1>2, AppendProperties DEF CarriedType
  <1>6. frame'.ours = TRUE /\ frame.id <= frame'.id /\ frame'.id <= content[held[1]].id
    BY <1>4 DEF ReusedInv, Packet
  <1>7. \A i \in 1 .. Len(tx_ring') : tx_ring'[i] = held[1]
    BY <1>2, <1>3 DEF ReusedInv
  <1>8. CarriedType'
    BY <1>1, <1>2, <1>4, <1>5 DEF CarriedType
  <1>9. QED
    BY <1>1, <1>6, <1>7, <1>8 DEF ReusedInv

LEMMA ReusedKept ==
  ASSUME ReusedInv, hb_id' \in {hb_id, hb_id + 1},
         UNCHANGED <<copy, rx_ring, held, tx_ring, sent, content, frame>>
  PROVE  ReusedInv'
  <1>1. CarriedType /\ held[1] \in Mbuf
    BY DEF ReusedInv
  <1>2. hb_id' \in Nat \ {0} /\ hb_id \in Nat /\ content[held[1]].id \in Nat
    BY <1>1 DEF CarriedType, Packet
  <1>3. content[held[1]].id <= hb_id'
    BY <1>2 DEF ReusedInv
  <1>4. CarriedType'
    BY <1>1, <1>2 DEF CarriedType
  <1>5. QED
    BY <1>3, <1>4 DEF ReusedInv

LEMMA ReusedStep ==
  ASSUME ~copy.fresh, ~copy.receives, ReusedInv, [SenderNext]_senderVars
  PROVE  ReusedInv'
  <1>1. hb_id \in Nat
    BY DEF ReusedInv, CarriedType
  <1>2. CASE Allocate \/ PollPacket
    BY <1>2 DEF Allocate, PollPacket
  <1>3. CASE Reuse \/ Lose \/ FreePacket
    BY <1>1, <1>3, ReusedKept DEF Reuse, Lose, FreePacket, transmitVars, receiveVars
  <1>4. CASE UNCHANGED senderVars
    BY <1>1, <1>4, ReusedKept DEF senderVars
  <1>5. QED
    BY <1>2, <1>3, <1>4, ReusedWrite, ReusedBurst, ReusedTransmit, ReusedFill DEF SenderNext

\* Only the NIC's step sends.
LEMMA TransmitSends ==
  ASSUME sent \in Seq(Mbuf), [SenderNext]_senderVars, Len(sent') > Len(sent) PROVE Transmit
  <1>1. Len(sent) \in Nat
    BY LenProperties
  <1>2. CASE Burst
    BY <1>1, <1>2, Nothing DEF Burst
  <1>3. CASE sent' = sent
    BY <1>1, <1>3
  <1>4. QED
    BY <1>2, <1>3
       DEF SenderNext, Allocate, Reuse, Lose, Write, FillMbuf, PollPacket, FreePacket,
           transmitVars, senderVars

SendsInv ==
  /\ copy.fresh => FreshInv
  /\ ~copy.fresh /\ ~copy.receives => ReusedInv

\* What goes out is a heartbeat of this program; its number goes up in the
\* senders that allocate, and does not go back in those that write to an mbuf
\* they have given away and do not receive (send_heartbeat.c, send_pkt.c).
THEOREM HeartbeatsSent == SenderSpec => SendsHeartbeats
  <1>1. SenderInit => SendsInv
    BY FreshInit, ReusedInit DEF SendsInv
  <1>2. SendsInv /\ [SenderNext]_senderVars => SendsInv'
    BY FreshStep, ReusedStep, CopyKept DEF SendsInv
  <1>3. ASSUME SendsInv, [SenderNext]_senderVars, Len(sent') > Len(sent), copy.fresh
        PROVE  frame'.ours /\ (copy.numbered => frame.id < frame'.id)
    <2>1. FreshInv /\ sent \in Seq(Mbuf)
      BY <1>3 DEF SendsInv, FreshInv, CarriedType
    <2>2. Transmit
      BY <1>3, <2>1, TransmitSends
    <2>3. OwnInv'
      BY <1>3, <2>1, OwnStep DEF FreshInv
    <2>4. QED
      BY <2>1, <2>2, <2>3, FreshTransmit
  <1>4. ASSUME SendsInv, [SenderNext]_senderVars, Len(sent') > Len(sent),
               ~copy.fresh, ~copy.receives
        PROVE  frame'.ours /\ frame.id <= frame'.id
    <2>1. ReusedInv /\ sent \in Seq(Mbuf)
      BY <1>4 DEF SendsInv, ReusedInv, CarriedType
    <2>2. Transmit
      BY <1>4, <2>1, TransmitSends
    <2>3. QED
      BY <2>1, <2>2, ReusedTransmit
  <1>5. SendsInv /\ [SenderNext]_senderVars =>
          [Len(sent') > Len(sent) =>
             /\ copy.fresh => frame'.ours /\ (copy.numbered => frame.id < frame'.id)
             /\ ~copy.fresh /\ ~copy.receives => frame'.ours /\ frame.id <= frame'.id
          ]_senderVars
    BY <1>3, <1>4
  <1>6. QED
    BY <1>1, <1>2, <1>5, PTL DEF SenderSpec, SendsHeartbeats

-----------------------------------------------------------------------------
(***************************************************************************)
(* The types, for the copies that allocate and those that do not.  A copy  *)
(* that does not has its mbuf from the start; one that does has it when it *)
(* writes, unless the pool was empty.                                      *)
(***************************************************************************)

HoldsOne == ~copy.fresh \/ sender \in {"write", "burst"} => held # << >>

TypedInv ==
  /\ PlacesTyped /\ CarriedType /\ HoldsOne
  /\ copy \in Copies /\ sender \in {"next", "write", "burst", "ended", "wild"}

LEMMA TypedInit == SenderInit => TypedInv
  <1> SUFFICES ASSUME SenderInit PROVE TypedInv
    OBVIOUS
  <1>1. /\ copy \in Copies /\ sender = "next"
        /\ filled = << >> /\ polled = << >> /\ tx_ring = << >> /\ sent = << >>
    BY DEF SenderInit
  <1>2. CASE copy.fresh
    <2>1. PlacesTyped /\ CarriedType
      BY <1>2, FreshInit, OwnInit DEF FreshInv, OwnInv
    <2> QED BY <1>1, <1>2, <2>1 DEF TypedInv, HoldsOne
  <1>3. CASE ~copy.fresh
    <2>1. CarriedType /\ Len(held) = 1
      BY <1>3, ReusedInit DEF ReusedInv
    <2>2. HoldsOne
      BY <2>1, Nothing DEF HoldsOne
    <2> DEFINE order == SetToSeq(Mbuf)
               n == Cardinality(Mbuf)
    <2>3. order \in Seq(Mbuf) /\ Len(order) = n
      BY PoolOrder
    <2>4. n \in Nat /\ RX_RING \in Nat /\ RX_RING >= 1 /\ TX_RING \in Nat /\ TX_RING >= 1
          /\ RX_RING + TX_RING + 1 < n
      BY SenderConstants, FS_CardinalityType
    <2>5. pool = SubSeq(order, RX_RING + 1 + 1, Len(order))
      BY <1>3 DEF SenderInit
    <2> HIDE DEF order, n
    <2>6. \A i \in 1 .. n : order[i] \in Mbuf
      BY <2>3, ElementOfSeq
    <2>7. pool \in Seq(Mbuf)
      BY <2>3, <2>4, <2>5, <2>6, SubSeqProperties
    <2>8. PlacesTyped
      BY <1>1, <2>1, <2>7, Nothing DEF PlacesTyped, CarriedType
    <2> QED BY <1>1, <2>1, <2>2, <2>8 DEF TypedInv
  <1> QED BY <1>2, <1>3

LEMMA HeldIsMbuf == ASSUME TypedInv, held # << >> PROVE held[1] \in Mbuf
  <1>1. held \in Seq(Mbuf)
    BY DEF TypedInv, PlacesTyped
  <1> QED BY <1>1, HeadRest

LEMMA TypedStep == TypedInv /\ [SenderNext]_senderVars => TypedInv'
  <1> SUFFICES ASSUME TypedInv, [SenderNext]_senderVars PROVE TypedInv'
    OBVIOUS
  <1>1. PlacesTyped /\ CarriedType /\ HoldsOne /\ copy \in Copies
    BY DEF TypedInv
  <1>2. copy' = copy
    BY CopyKept
  <1>3. hb_id \in Nat \ {0} /\ hb_id + 1 \in Nat \ {0}
    BY <1>1 DEF CarriedType
  <1>4. CASE Allocate
    <2>1. /\ pool' \in Seq(Mbuf) /\ held' \in Seq(Mbuf)
          /\ sender' = "write" => held' # << >>
          /\ sender' \in {"write", "wild"} /\ copy.fresh
      <3>1. CASE pool = << >>
        BY <1>1, <1>4, <3>1 DEF Allocate, PlacesTyped
      <3>2. CASE pool # << >>
        <4>1. Head(pool) \in Mbuf /\ Tail(pool) \in Seq(Mbuf)
          BY <1>1, <3>2, HeadRest DEF PlacesTyped
        <4>2. <<Head(pool)>> \in Seq(Mbuf) /\ <<Head(pool)>> # << >>
          BY <4>1, Single, Nothing
        <4> QED BY <1>4, <3>2, <4>1, <4>2 DEF Allocate
      <3> QED BY <3>1, <3>2
    <2>2. UNCHANGED <<rx_ring, filled, polled, tx_ring, sent, frame, content, hb_id>>
      BY <1>4 DEF Allocate, receiveVars, transmitVars
    <2> QED BY <1>1, <1>2, <2>1, <2>2 DEF TypedInv, PlacesTyped, CarriedType, HoldsOne
  <1>5. CASE Reuse
    BY <1>1, <1>2, <1>5
       DEF Reuse, TypedInv, PlacesTyped, CarriedType, HoldsOne, receiveVars, transmitVars
  <1>6. CASE Lose
    BY <1>1, <1>2, <1>3, <1>6
       DEF Lose, TypedInv, PlacesTyped, CarriedType, HoldsOne, receiveVars, transmitVars
  <1>7. CASE Write
    <2>1. held # << >>
      BY <1>1, <1>7 DEF Write, HoldsOne
    <2>2. content' \in [Mbuf -> Packet]
      BY <1>1, <1>7, <2>1, HeldIsMbuf, WriteContent
    <2>3. UNCHANGED <<pool, held, rx_ring, filled, polled, tx_ring, sent, frame, hb_id>>
          /\ sender' = "burst"
      BY <1>7 DEF Write, receiveVars, transmitVars
    <2> QED BY <1>1, <1>2, <2>1, <2>2, <2>3 DEF TypedInv, PlacesTyped, CarriedType, HoldsOne
  <1>8. CASE Burst
    <2>1. held # << >> /\ held \in Seq(Mbuf) /\ held[1] \in Mbuf
      BY <1>1, <1>8, HeldIsMbuf DEF Burst, HoldsOne, PlacesTyped
    <2>2. tx_ring' \in Seq(Mbuf)
      BY <1>1, <1>8, <2>1, Added DEF Burst, PlacesTyped
    <2>3. pool \o sent \in Seq(Mbuf)
      BY <1>1, Joined DEF PlacesTyped
    <2>4. pool' \in Seq(Mbuf)
      BY <1>8, <2>1, <2>3, Joined DEF Burst
    <2>5. sent' \in Seq(Mbuf)
      BY <1>8, Nothing DEF Burst
    <2>6. held' \in Seq(Mbuf) /\ (~copy.fresh => held' # << >>)
      BY <1>8, <2>1, Nothing DEF Burst
    <2>7. /\ sender' \in {"next", "ended"} /\ hb_id' = hb_id + 1
          /\ UNCHANGED <<rx_ring, filled, polled, content, frame>>
      BY <1>8 DEF Burst, receiveVars
    <2> QED BY <1>1, <1>2, <1>3, <2>2, <2>4, <2>5, <2>6, <2>7
            DEF TypedInv, PlacesTyped, CarriedType, HoldsOne
  <1>9. CASE Transmit
    <2>1. Head(tx_ring) \in Mbuf /\ tx_ring' \in Seq(Mbuf)
      BY <1>1, <1>9, HeadRest DEF Transmit, PlacesTyped
    <2>2. frame' \in Packet
      BY <1>1, <1>9, <2>1 DEF Transmit, CarriedType
    <2>3. sent' \in Seq(Mbuf)
      BY <1>1, <1>9, <2>1, Added DEF Transmit, PlacesTyped
    <2>4. UNCHANGED <<pool, held, rx_ring, filled, polled, content, hb_id, sender>>
      BY <1>9 DEF Transmit, receiveVars
    <2> QED BY <1>1, <1>2, <2>1, <2>2, <2>3, <2>4
            DEF TypedInv, PlacesTyped, CarriedType, HoldsOne
  <1>10. CASE FillMbuf
    <2>1. Head(rx_ring) \in Mbuf /\ rx_ring' \in Seq(Mbuf)
      BY <1>1, <1>10, HeadRest DEF FillMbuf, PlacesTyped
    <2>2. content' \in [Mbuf -> Packet]
      BY <1>1, <1>10, FillContent
    <2>3. filled' \in Seq(Mbuf)
      BY <1>1, <1>10, <2>1, Added DEF FillMbuf, PlacesTyped
    <2>4. UNCHANGED <<pool, held, polled, tx_ring, sent, frame, hb_id, sender>>
      BY <1>10 DEF FillMbuf, transmitVars
    <2> QED BY <1>1, <1>2, <2>1, <2>2, <2>3, <2>4
            DEF TypedInv, PlacesTyped, CarriedType, HoldsOne
  <1>11. CASE PollPacket
    <2>1. Head(filled) \in Mbuf /\ filled' \in Seq(Mbuf)
      BY <1>1, <1>11, HeadRest DEF PollPacket, PlacesTyped
    <2>2. polled' \in Seq(Mbuf)
      BY <1>11, <2>1, Single DEF PollPacket
    <2>3. pool' \in Seq(Mbuf) /\ rx_ring' \in Seq(Mbuf)
      <3>1. CASE pool = << >>
        BY <1>1, <1>11, <3>1 DEF PollPacket, PlacesTyped
      <3>2. CASE pool # << >>
        <4>1. Head(pool) \in Mbuf /\ Tail(pool) \in Seq(Mbuf)
          BY <1>1, <3>2, HeadRest DEF PlacesTyped
        <4>2. Append(rx_ring, Head(pool)) \in Seq(Mbuf)
          BY <1>1, <4>1, Added DEF PlacesTyped
        <4> QED BY <1>11, <3>2, <4>1, <4>2 DEF PollPacket
      <3> QED BY <3>1, <3>2
    <2>4. UNCHANGED <<held, tx_ring, sent, frame, content, hb_id, sender>>
      BY <1>11 DEF PollPacket, transmitVars
    <2> QED BY <1>1, <1>2, <2>1, <2>2, <2>3, <2>4
            DEF TypedInv, PlacesTyped, CarriedType, HoldsOne
  <1>12. CASE FreePacket
    <2>1. pool' \in Seq(Mbuf) /\ polled' \in Seq(Mbuf)
      BY <1>1, <1>12, Joined, Nothing DEF FreePacket, PlacesTyped
    <2>2. UNCHANGED <<held, rx_ring, filled, tx_ring, sent, frame, content, hb_id, sender>>
      BY <1>12 DEF FreePacket, transmitVars
    <2> QED BY <1>1, <1>2, <2>1, <2>2 DEF TypedInv, PlacesTyped, CarriedType, HoldsOne
  <1>13. CASE UNCHANGED senderVars
    BY <1>1, <1>13 DEF senderVars, TypedInv, PlacesTyped, CarriedType, HoldsOne
  <1> QED
    BY <1>4, <1>5, <1>6, <1>7, <1>8, <1>9, <1>10, <1>11, <1>12, <1>13 DEF SenderNext

\* What the pool, the rings and the mbufs hold, in every copy.
THEOREM SenderTypeCorrect == SenderSpec => []SenderType
  <1>1. TypedInv => SenderType
    BY DEF TypedInv, PlacesTyped, CarriedType, SenderType, Packet
  <1> QED BY <1>1, TypedInit, TypedStep, PTL DEF SenderSpec

=============================================================================
