------------------------- MODULE BackedWriterProofs -------------------------
(***************************************************************************)
(* The bounds and the accounting of the replay buffer, for every packet    *)
(* length and every choice of the caps that BackedWriter assumes.          *)
(***************************************************************************)
EXTENDS BackedWriter, TLAPS

(* The history only grows: later packets start at later offsets. *)
OffsetsGrow ==
    \A i, j \in 0 .. sequence : i <= j => Upto(offset, i) <= Upto(offset, j)

(* A connected writer is within the hard byte cap, and its disconnect      *)
(* buffer is empty: revive empties it, and nothing fills it.               *)
ConnectedWithinCap ==
    connected => /\ BackupSize <= MaxBackupBytes
                 /\ disconnectedBytes = 0
                 /\ disconnectedPackets = 0

(* What reserve_write admitted still fits when commit_write gets to it,    *)
(* whatever invalidate, revive or reset did in between.                    *)
ReservationFits ==
    reserved # 0 =>
        /\ BackupSize + reserved <= MaxRecoveryBackupBytes
        /\ disconnectedBytes + reserved <= DisconnectBufferBytes + MacLen
        /\ disconnectedPackets < MaxDisconnectPackets

IndInv ==
    /\ TypeOK
    /\ OffsetsGrow
    /\ ConnectedWithinCap
    /\ ReservationFits
    /\ RecoveryTotalBounded
    /\ DisconnectBufferBounded
    /\ BacklogAccounted
-----------------------------------------------------------------------------
(* A prefix of the history has a length in bytes. *)
LEMMA UptoNat ==
    ASSUME NEW off \in Seq(Nat), NEW n \in 0 .. Len(off)
    PROVE  Upto(off, n) \in Nat
BY DEF Upto

(* commit_write adds one packet and leaves the offsets before it alone. *)
LEMMA UptoAppend ==
    ASSUME NEW off \in Seq(Nat), NEW x \in Nat
    PROVE  /\ Append(off, x) \in Seq(Nat)
           /\ Len(Append(off, x)) = Len(off) + 1
           /\ Upto(Append(off, x), Len(off) + 1) = x
           /\ \A n \in 0 .. Len(off) : Upto(Append(off, x), n) = Upto(off, n)
BY DEF Upto

(* The wire length of a reservation fits the disconnect buffer, and fits   *)
(* beside a full hard cap.                                                 *)
LEMMA ReservedFits ==
    ASSUME TypeOK, reserved # 0
    PROVE  /\ reserved \in Nat
           /\ reserved <= DisconnectBufferBytes + MacLen
           /\ MaxBackupBytes + reserved <= MaxRecoveryBackupBytes
BY LensAssumption, CapsAssumption, FitsAssumption DEF TypeOK

(* Dropping from the back of an unchanged history never adds bytes. *)
LEMMA TrimShrinks ==
    ASSUME TypeOK, OffsetsGrow, UNCHANGED offset,
           dropped' \in dropped .. sequence
    PROVE  /\ BackupSize \in Nat /\ BackupSize' \in Nat
           /\ BackupSize' <= BackupSize
           /\ sequence' = sequence /\ OffsetsGrow'
<1>1. /\ sequence \in Nat /\ dropped \in 0 .. sequence /\ dropped' \in 0 .. sequence
      /\ offset \in Seq(Nat)
    BY DEF TypeOK, sequence
<1>2. /\ Upto(offset, sequence) \in Nat /\ Upto(offset, dropped) \in Nat
      /\ Upto(offset, dropped') \in Nat
    BY <1>1, UptoNat DEF sequence
<1>3. /\ Upto(offset, dropped) <= Upto(offset, dropped')
      /\ Upto(offset, dropped) <= Upto(offset, sequence)
      /\ Upto(offset, dropped') <= Upto(offset, sequence)
    BY <1>1 DEF OffsetsGrow
<1>4. sequence' = sequence
    BY DEF sequence
<1>5. OffsetsGrow'
    BY <1>4 DEF OffsetsGrow, Upto
<1>6. BackupSize' = Upto(offset, sequence) - Upto(offset, dropped')
    BY <1>4 DEF BackupSize, Upto
<1>7. BackupSize = Upto(offset, sequence) - Upto(offset, dropped)
    BY DEF BackupSize
<1>8. QED
    BY <1>2, <1>3, <1>4, <1>5, <1>6, <1>7

-----------------------------------------------------------------------------
(* BackedWriter::new starts in the invariant: nothing is buffered. *)
LEMMA InitIndInv == Init => IndInv
<1>1. SUFFICES ASSUME Init PROVE IndInv
    OBVIOUS
<1>2. sequence = 0 /\ Upto(offset, 0) = 0 /\ BackupSize = 0
    BY <1>1 DEF Init, sequence, Upto, BackupSize
<1>3. TypeOK
    BY <1>1, <1>2 DEF Init, TypeOK
<1>4. OffsetsGrow
    BY <1>2 DEF OffsetsGrow
<1>5. ConnectedWithinCap /\ ReservationFits /\ BacklogAccounted
    BY <1>1, <1>2, CapsAssumption
       DEF Init, ConnectedWithinCap, ReservationFits, BacklogAccounted
<1>6. RecoveryTotalBounded /\ DisconnectBufferBounded
    BY <1>1, <1>2, CapsAssumption, LensAssumption
       DEF Init, RecoveryTotalBounded, DisconnectBufferBounded
<1>7. QED
    BY <1>3, <1>4, <1>5, <1>6 DEF IndInv
-----------------------------------------------------------------------------
(* One lemma per operation: it preserves the invariant. *)

(* reserve_write changes nothing but the reservation, which fits the caps. *)
LEMMA ReserveWriteStep ==
    ASSUME IndInv, NEW len \in PacketLens, ReserveWrite(len)
    PROVE  IndInv'
<1> USE DEF IndInv
<1>1. len \in Nat \ {0} /\ MacLen \in Nat
    BY LensAssumption
<1>2. /\ UNCHANGED <<offset, dropped, connected, acknowledged, unacknowledgedBytes,
                      disconnectedBytes, disconnectedPackets>>
      /\ reserved' = len + MacLen
      /\ CanReserve(len)
    BY DEF ReserveWrite
<1>3. dropped' \in dropped .. sequence
    BY <1>2 DEF TypeOK, sequence
<1>4. /\ BackupSize \in Nat /\ sequence' = sequence /\ OffsetsGrow'
    BY <1>2, <1>3, TrimShrinks
<1>5. BackupSize' = BackupSize
    BY <1>2, <1>4 DEF BackupSize, Upto
<1>6. TypeOK'
    BY <1>1, <1>2, <1>4 DEF TypeOK
<1>7. ReservationFits'
  <2>1. CASE connected
      BY <2>1, <1>1, <1>2, <1>4, <1>5, CapsAssumption, FitsAssumption
         DEF ConnectedWithinCap, ReservationFits
  <2>2. CASE ~connected
      BY <2>2, <1>1, <1>2, <1>4, <1>5, CapsAssumption
         DEF CanReserve, ReservationFits, TypeOK
  <2>3. QED
      BY <2>1, <2>2
<1>8. ConnectedWithinCap' /\ RecoveryTotalBounded' /\ DisconnectBufferBounded'
    BY <1>2, <1>5 DEF ConnectedWithinCap, RecoveryTotalBounded, DisconnectBufferBounded
<1>9. BacklogAccounted'
    BY <1>2, <1>4, <1>5 DEF BacklogAccounted, Upto
<1>10. QED
    BY <1>4, <1>6, <1>7, <1>8, <1>9

(* invalidate only drops the transport. *)
LEMMA InvalidateStep ==
    ASSUME IndInv, Invalidate
    PROVE  IndInv'
<1> USE DEF IndInv
<1>1. /\ UNCHANGED <<offset, dropped, reserved, acknowledged, unacknowledgedBytes,
                      disconnectedBytes, disconnectedPackets>>
      /\ connected' = FALSE
    BY DEF Invalidate
<1>2. dropped' \in dropped .. sequence
    BY <1>1 DEF TypeOK, sequence
<1>3. sequence' = sequence /\ OffsetsGrow'
    BY <1>1, <1>2, TrimShrinks
<1>4. BackupSize' = BackupSize
    BY <1>1, <1>3 DEF BackupSize, Upto
<1>5. TypeOK'
    BY <1>1, <1>3 DEF TypeOK
<1>6. ConnectedWithinCap' /\ ReservationFits' /\ RecoveryTotalBounded'
      /\ DisconnectBufferBounded'
    BY <1>1, <1>4 DEF ConnectedWithinCap, ReservationFits, RecoveryTotalBounded,
                      DisconnectBufferBounded
<1>7. BacklogAccounted'
    BY <1>1, <1>3, <1>4 DEF BacklogAccounted, Upto
<1>8. QED
    BY <1>3, <1>5, <1>6, <1>7

(* reset empties the buffer and the acknowledgement together. *)
LEMMA ResetStep ==
    ASSUME IndInv, Reset
    PROVE  IndInv'
<1> USE DEF IndInv
<1>1. /\ offset' = << >> /\ dropped' = 0 /\ connected' = FALSE
      /\ acknowledged' = NoAck /\ unacknowledgedBytes' = 0
      /\ disconnectedBytes' = 0 /\ disconnectedPackets' = 0 /\ reserved' = reserved
    BY DEF Reset
<1>2. sequence' = 0 /\ BackupSize' = 0
    BY <1>1 DEF sequence, BackupSize, Upto
<1>3. OffsetsGrow'
    BY <1>2 DEF OffsetsGrow, Upto
<1>4. TypeOK'
  <2>0. << >> \in Seq(Nat)
      OBVIOUS
  <2>1. offset' \in Seq(Nat) /\ connected' \in BOOLEAN
      BY <1>1, <2>0, Zenon
  <2>2. reserved' \in {0} \cup {len + MacLen : len \in PacketLens}
      BY <1>1 DEF TypeOK
  <2>3. dropped' \in 0 .. sequence' /\ acknowledged' \in {NoAck} \cup 0 .. sequence'
      BY <1>1, <1>2
  <2>4. /\ unacknowledgedBytes' \in Nat /\ disconnectedBytes' \in Nat
        /\ disconnectedPackets' \in Nat
      BY <1>1
  <2>5. QED
      BY <2>1, <2>2, <2>3, <2>4 DEF TypeOK
<1>5. ReservationFits'
    BY <1>1, <1>2, ReservedFits, CapsAssumption, FitsAssumption DEF ReservationFits
<1>6. ConnectedWithinCap' /\ BacklogAccounted'
    BY <1>1 DEF ConnectedWithinCap, BacklogAccounted
<1>7. RecoveryTotalBounded' /\ DisconnectBufferBounded'
    BY <1>1, <1>2, CapsAssumption, LensAssumption
       DEF RecoveryTotalBounded, DisconnectBufferBounded
<1>8. QED
    BY <1>3, <1>4, <1>5, <1>6, <1>7
(* acknowledge never trims past what was written. *)
LEMMA AcknowledgeStep ==
    ASSUME IndInv, NEW ack \in 0 .. sequence, Acknowledge(ack)
    PROVE  IndInv'
<1> USE DEF IndInv
<1> DEFINE tail == Maximum(ack, dropped)
<1>1. /\ UNCHANGED <<offset, reserved, connected, disconnectedBytes, disconnectedPackets>>
      /\ connected /\ acknowledged' = ack
      /\ unacknowledgedBytes' = Upto(offset, sequence) - Upto(offset, tail)
      /\ dropped' \in dropped .. tail
    BY DEF Acknowledge, AckedBacklog
<1>2. /\ sequence \in Nat /\ dropped \in 0 .. sequence /\ offset \in Seq(Nat)
    BY DEF TypeOK, sequence
<1>3. /\ tail \in 0 .. sequence /\ dropped <= tail /\ ack <= tail
      /\ tail = ack \/ (tail = dropped /\ ack < dropped)
    BY <1>2 DEF Maximum
<1>4. dropped' \in dropped .. sequence /\ dropped' \in 0 .. sequence
    BY <1>1, <1>2, <1>3
<1>5. /\ BackupSize \in Nat /\ BackupSize' \in Nat /\ BackupSize' <= BackupSize
      /\ sequence' = sequence /\ OffsetsGrow'
    BY <1>1, <1>4, TrimShrinks
<1>6. /\ Upto(offset, sequence) \in Nat /\ Upto(offset, tail) \in Nat
      /\ Upto(offset, dropped) \in Nat /\ Upto(offset, dropped') \in Nat
    BY <1>2, <1>3, <1>4, UptoNat DEF sequence
<1>7. /\ Upto(offset, tail) <= Upto(offset, sequence)
      /\ Upto(offset, dropped) <= Upto(offset, dropped')
    BY <1>2, <1>3, <1>4 DEF OffsetsGrow
<1>8. TypeOK'
  <2>1. unacknowledgedBytes' \in Nat
      BY <1>1, <1>6, <1>7
  <2>2. QED
      BY <2>1, <1>1, <1>4, <1>5 DEF TypeOK
<1>9. ConnectedWithinCap' /\ RecoveryTotalBounded' /\ DisconnectBufferBounded'
    BY <1>1, <1>5, CapsAssumption
       DEF ConnectedWithinCap, RecoveryTotalBounded, DisconnectBufferBounded
<1>10. ReservationFits'
    BY <1>1, <1>5, ReservedFits, CapsAssumption DEF ReservationFits
<1>11. BacklogAccounted'
  <2>1. BackupSize' = Upto(offset, sequence) - Upto(offset, dropped')
      BY <1>1, <1>5 DEF BackupSize, Upto
  <2>2. CASE tail = ack
    <3>1. dropped' <= acknowledged'
        BY <2>2, <1>1, <1>3, <1>4
    <3>2. unacknowledgedBytes' = Upto(offset', sequence') - Upto(offset', acknowledged')
        BY <2>2, <1>1, <1>5 DEF Upto
    <3>3. QED
        BY <3>1, <3>2 DEF BacklogAccounted
  <2>3. CASE tail = dropped /\ ack < dropped
    <3>1. ~(dropped' <= acknowledged')
        BY <2>3, <1>1, <1>2, <1>4
    <3>2. unacknowledgedBytes' >= BackupSize'
        BY <2>1, <2>3, <1>1, <1>6, <1>7
    <3>3. QED
        BY <3>1, <3>2 DEF BacklogAccounted
  <2>4. QED
      BY <2>2, <2>3, <1>3
<1>12. QED
    BY <1>5, <1>8, <1>9, <1>10, <1>11

(* revive trims by bytes and reconnects. *)
LEMMA ReviveStep ==
    ASSUME IndInv, Revive
    PROVE  IndInv'
<1> USE DEF IndInv
<1>1. /\ UNCHANGED <<offset, reserved, acknowledged, unacknowledgedBytes>>
      /\ connected' = TRUE /\ disconnectedBytes' = 0 /\ disconnectedPackets' = 0
      /\ dropped' \in dropped .. sequence
      /\ ~(Upto(offset, sequence) - Upto(offset, dropped') > MaxBackupBytes)
    BY DEF Revive, PopsUntil
<1>2. /\ sequence \in Nat /\ dropped \in 0 .. sequence /\ dropped' \in 0 .. sequence
      /\ offset \in Seq(Nat) /\ acknowledged \in {NoAck} \cup 0 .. sequence
    BY <1>1 DEF TypeOK, sequence
<1>3. /\ BackupSize \in Nat /\ BackupSize' \in Nat /\ BackupSize' <= BackupSize
      /\ sequence' = sequence /\ OffsetsGrow'
    BY <1>1, TrimShrinks
<1>4. BackupSize' = Upto(offset, sequence) - Upto(offset, dropped')
    BY <1>1, <1>3 DEF BackupSize, Upto
<1>5. TypeOK'
    BY <1>1, <1>2, <1>3 DEF TypeOK
<1>6. ConnectedWithinCap'
    BY <1>1, <1>3, <1>4, CapsAssumption DEF ConnectedWithinCap
<1>7. RecoveryTotalBounded' /\ DisconnectBufferBounded'
    BY <1>1, <1>3, CapsAssumption, LensAssumption
       DEF RecoveryTotalBounded, DisconnectBufferBounded
<1>8. ReservationFits'
    BY <1>1, <1>3, ReservedFits, CapsAssumption, FitsAssumption DEF ReservationFits
<1>9. BacklogAccounted'
  <2>1. SUFFICES ASSUME acknowledged # NoAck PROVE BacklogAccounted'
      BY <1>1 DEF BacklogAccounted
  <2>2. acknowledged \in 0 .. sequence
      BY <2>1, <1>2
  <2>3. /\ Upto(offset, sequence) \in Nat /\ Upto(offset, dropped') \in Nat
        /\ Upto(offset, acknowledged) \in Nat
      BY <1>2, <2>2, UptoNat DEF sequence
  <2>4. CASE dropped' <= acknowledged
    <3>1. dropped <= acknowledged
        BY <2>4, <1>1, <1>2, <2>2
    <3>2. unacknowledgedBytes = Upto(offset, sequence) - Upto(offset, acknowledged)
        BY <3>1, <2>1 DEF BacklogAccounted
    <3>3. QED
        BY <3>2, <2>4, <1>1, <1>3 DEF BacklogAccounted, Upto
  <2>5. CASE ~(dropped' <= acknowledged)
    <3>1. CASE dropped <= acknowledged
      <4>1. unacknowledgedBytes = Upto(offset, sequence) - Upto(offset, acknowledged)
          BY <3>1, <2>1 DEF BacklogAccounted
      <4>2. Upto(offset, acknowledged) <= Upto(offset, dropped')
          BY <1>2, <2>2, <2>5 DEF OffsetsGrow
      <4>3. QED
          BY <4>1, <4>2, <2>3, <2>5, <1>1, <1>4 DEF BacklogAccounted
    <3>2. CASE ~(dropped <= acknowledged)
      <4>1. unacknowledgedBytes >= BackupSize
          BY <3>2, <2>1 DEF BacklogAccounted
      <4>2. unacknowledgedBytes' >= BackupSize'
          BY <4>1, <1>1, <1>3 DEF TypeOK
      <4>3. QED
          BY <4>2, <2>5, <1>1 DEF BacklogAccounted
    <3>3. QED
        BY <3>1, <3>2
  <2>6. QED
      BY <2>4, <2>5
<1>10. QED
    BY <1>3, <1>5, <1>6, <1>7, <1>8, <1>9
(* commit_write appends the reserved packet, then trims. *)
LEMMA CommitWriteStep ==
    ASSUME IndInv, CommitWrite
    PROVE  IndInv'
<1> USE DEF IndInv
<1> DEFINE total == Upto(offset, sequence)
           off == Append(offset, total + reserved)
<1>1. /\ reserved # 0 /\ reserved' = 0 /\ UNCHANGED <<connected, acknowledged>>
      /\ offset' = off
      /\ unacknowledgedBytes' = unacknowledgedBytes + reserved
    BY DEF CommitWrite
<1>2. /\ sequence = Len(offset) /\ sequence \in Nat /\ dropped \in 0 .. sequence
      /\ offset \in Seq(Nat) /\ acknowledged \in {NoAck} \cup 0 .. sequence
      /\ unacknowledgedBytes \in Nat
    BY DEF TypeOK, sequence
<1>3. /\ reserved \in Nat
      /\ reserved <= DisconnectBufferBytes + MacLen
      /\ MaxBackupBytes + reserved <= MaxRecoveryBackupBytes
    BY <1>1, ReservedFits
<1>4. \A n \in 0 .. sequence : Upto(offset, n) \in Nat /\ Upto(offset, n) <= total
    BY <1>2, UptoNat DEF OffsetsGrow
<1>5. total \in Nat /\ total + reserved \in Nat
    BY <1>2, <1>3, <1>4
<1>6. /\ offset' \in Seq(Nat) /\ sequence' = sequence + 1
      /\ Upto(offset', sequence + 1) = total + reserved
      /\ Upto(offset', sequence') = total + reserved
      /\ \A n \in 0 .. sequence : Upto(offset', n) = Upto(offset, n)
    BY <1>1, <1>2, <1>5, UptoAppend DEF sequence
<1>7. OffsetsGrow'
  <2>1. SUFFICES ASSUME NEW i \in 0 .. sequence', NEW j \in 0 .. sequence', i <= j
                 PROVE  Upto(offset', i) <= Upto(offset', j)
      BY DEF OffsetsGrow
  <2>2. CASE j <= sequence
    <3>1. i \in 0 .. sequence /\ j \in 0 .. sequence
        BY <2>1, <2>2, <1>2, <1>6
    <3>2. Upto(offset, i) <= Upto(offset, j)
        BY <2>1, <3>1 DEF OffsetsGrow
    <3>3. QED
        BY <3>1, <3>2, <1>6
  <2>3. CASE j = sequence' /\ i <= sequence
    <3>1. i \in 0 .. sequence
        BY <2>1, <2>3, <1>2
    <3>2. Upto(offset', i) \in Nat /\ Upto(offset', i) <= total
        BY <3>1, <1>4, <1>6
    <3>3. QED
        BY <3>2, <2>3, <1>3, <1>5, <1>6
  <2>4. CASE i = sequence' /\ j = sequence'
      BY <2>4, <1>5, <1>6
  <2>5. QED
      BY <2>1, <2>2, <2>3, <2>4, <1>2, <1>6
<1>8. /\ dropped' \in dropped .. (sequence + 1)
      /\ ~connected => /\ dropped' = dropped
                       /\ disconnectedBytes' = disconnectedBytes + reserved
                       /\ disconnectedPackets' = disconnectedPackets + 1
      /\ connected =>
           /\ Upto(offset', sequence + 1) - Upto(offset', dropped') <= MaxBackupBytes
           /\ UNCHANGED <<disconnectedBytes, disconnectedPackets>>
  <2>1. CASE ~connected
      BY <2>1, <1>2 DEF CommitWrite
  <2>2. CASE connected
    <3>1. TrimmedCommit(off, sequence + 1) /\ UNCHANGED <<disconnectedBytes, disconnectedPackets>>
        BY <2>2 DEF CommitWrite
    <3>2. /\ dropped' \in dropped .. (sequence + 1)
          /\ ~(Upto(off, sequence + 1) - Upto(off, dropped') > MaxBackupBytes)
        BY <3>1 DEF TrimmedCommit, PopsUntil
    <3>3. dropped' \in 0 .. sequence'
        BY <3>2, <1>2, <1>6
    <3>4. Upto(offset', dropped') \in Nat /\ Upto(offset', sequence + 1) \in Nat
        BY <3>3, <1>5, <1>6, UptoNat DEF sequence
    <3>5. QED
        BY <2>2, <3>1, <3>2, <3>4, <1>1, CapsAssumption
  <2>3. QED
      BY <2>1, <2>2
<1>9. /\ dropped' \in 0 .. sequence' /\ dropped' \in Nat
      /\ Upto(offset', dropped') \in Nat
      /\ BackupSize' = total + reserved - Upto(offset', dropped')
      /\ Upto(offset', dropped') <= total + reserved
  <2>1. dropped' \in 0 .. sequence' /\ dropped' \in Nat
      BY <1>2, <1>6, <1>8
  <2>2. Upto(offset', dropped') \in Nat
      BY <2>1, <1>6, UptoNat DEF sequence
  <2>3. BackupSize' = Upto(offset', sequence') - Upto(offset', dropped')
      BY DEF BackupSize
  <2>4. sequence' \in 0 .. sequence'
      BY <1>2, <1>6
  <2>5. Upto(offset', dropped') <= Upto(offset', sequence')
      BY <1>7, <2>1, <2>4 DEF OffsetsGrow
  <2>6. QED
      BY <2>1, <2>2, <2>3, <2>5, <1>3, <1>5, <1>6
<1>10. BackupSize = total - Upto(offset, dropped) /\ Upto(offset, dropped) \in Nat
    BY <1>2, <1>4 DEF BackupSize
<1>11. ~connected => BackupSize' = BackupSize + reserved
    BY <1>2, <1>3, <1>5, <1>6, <1>8, <1>9, <1>10
<1>12. connected => BackupSize' <= MaxBackupBytes
    BY <1>2, <1>3, <1>5, <1>6, <1>8, <1>9, CapsAssumption
<1>13. TypeOK'
  <2>1. /\ unacknowledgedBytes' \in Nat /\ disconnectedBytes' \in Nat
        /\ disconnectedPackets' \in Nat
      BY <1>1, <1>2, <1>3, <1>8 DEF TypeOK
  <2>2. acknowledged' \in {NoAck} \cup 0 .. sequence'
      BY <1>1, <1>2, <1>6
  <2>3. QED
      BY <2>1, <2>2, <1>1, <1>6, <1>9 DEF TypeOK
<1>14. ConnectedWithinCap' /\ ReservationFits'
    BY <1>1, <1>8, <1>12 DEF ConnectedWithinCap, ReservationFits
<1>15. RecoveryTotalBounded'
  <2>1. CASE connected
      BY <2>1, <1>3, <1>5, <1>9, <1>12, CapsAssumption DEF RecoveryTotalBounded
  <2>2. CASE ~connected
      BY <2>2, <1>1, <1>11 DEF ReservationFits, RecoveryTotalBounded
  <2>3. QED
      BY <2>1, <2>2
<1>16. DisconnectBufferBounded'
    BY <1>1, <1>8, CapsAssumption
       DEF DisconnectBufferBounded, ReservationFits, TypeOK
<1>17. BacklogAccounted'
  <2>1. SUFFICES ASSUME acknowledged # NoAck PROVE BacklogAccounted'
      BY <1>1 DEF BacklogAccounted
  <2>2. acknowledged \in 0 .. sequence /\ acknowledged \in 0 .. sequence'
      BY <2>1, <1>2, <1>6
  <2>3. Upto(offset', acknowledged) = Upto(offset, acknowledged)
        /\ Upto(offset, acknowledged) \in Nat
      BY <2>2, <1>4, <1>6
  <2>4. CASE dropped <= acknowledged
    <3>1. unacknowledgedBytes' = total + reserved - Upto(offset', acknowledged)
        BY <2>1, <2>3, <2>4, <1>1, <1>3, <1>5 DEF BacklogAccounted
    <3>2. CASE dropped' <= acknowledged
        BY <3>1, <3>2, <2>3, <1>1, <1>3, <1>5, <1>6 DEF BacklogAccounted
    <3>3. CASE ~(dropped' <= acknowledged)
      <4>1. Upto(offset', acknowledged) <= Upto(offset', dropped')
          BY <3>3, <2>2, <1>7, <1>9 DEF OffsetsGrow
      <4>2. QED
          BY <4>1, <3>1, <3>3, <2>3, <1>1, <1>3, <1>5, <1>9 DEF BacklogAccounted
    <3>4. QED
        BY <3>2, <3>3
  <2>5. CASE ~(dropped <= acknowledged)
    <3>1. unacknowledgedBytes >= BackupSize
        BY <2>1, <2>5 DEF BacklogAccounted
    <3>2. ~(dropped' <= acknowledged')
        BY <2>2, <2>5, <1>1, <1>2, <1>8
    <3>3. Upto(offset, dropped) <= Upto(offset', dropped')
      <4>1. dropped \in 0 .. sequence'
          BY <1>2, <1>6
      <4>2. Upto(offset', dropped) <= Upto(offset', dropped')
          BY <4>1, <1>2, <1>7, <1>8, <1>9 DEF OffsetsGrow
      <4>3. QED
          BY <4>2, <1>2, <1>6
    <3>4. unacknowledgedBytes' >= BackupSize'
      <4>1. /\ unacknowledgedBytes' = unacknowledgedBytes + reserved
            /\ unacknowledgedBytes \in Nat /\ reserved \in Nat
          BY <1>1, <1>2, <1>3
      <4>2. /\ BackupSize = total - Upto(offset, dropped)
            /\ BackupSize' = total + reserved - Upto(offset', dropped')
            /\ Upto(offset, dropped) \in Nat /\ Upto(offset', dropped') \in Nat
          BY <1>9, <1>10
      <4>3. BackupSize' <= BackupSize + reserved
          BY <4>1, <4>2, <3>3, <1>5
      <4>4. BackupSize \in Int /\ BackupSize' \in Int
          BY <4>1, <4>2, <1>5
      <4>5. QED
          BY <4>1, <4>3, <4>4, <3>1
    <3>5. QED
        BY <3>2, <3>4 DEF BacklogAccounted
  <2>6. QED
      BY <2>4, <2>5
<1>18. QED
    BY <1>7, <1>13, <1>14, <1>15, <1>16, <1>17
-----------------------------------------------------------------------------
(* A step that changes nothing preserves the invariant. *)
LEMMA StutterStep ==
    ASSUME IndInv, UNCHANGED vars
    PROVE  IndInv'
BY DEF vars, IndInv, TypeOK, OffsetsGrow, ConnectedWithinCap, ReservationFits,
       RecoveryTotalBounded, DisconnectBufferBounded, BacklogAccounted,
       BackupSize, sequence, Upto

(* The invariant holds in every state the replay buffer can reach through  *)
(* reserve_write, commit_write, acknowledge, revive, invalidate and reset. *)
THEOREM Invariance == Spec => []IndInv
<1>1. Init => IndInv
    BY InitIndInv
<1>2. IndInv /\ [Next]_vars => IndInv'
  <2>1. SUFFICES ASSUME IndInv, [Next]_vars PROVE IndInv'
      OBVIOUS
  <2>2. CASE \E len \in PacketLens : ReserveWrite(len)
      BY <2>1, <2>2, ReserveWriteStep
  <2>3. CASE CommitWrite
      BY <2>1, <2>3, CommitWriteStep
  <2>4. CASE \E ack \in 0 .. sequence : Acknowledge(ack)
      BY <2>1, <2>4, AcknowledgeStep
  <2>5. CASE Revive
      BY <2>1, <2>5, ReviveStep
  <2>6. CASE Invalidate
      BY <2>1, <2>6, InvalidateStep
  <2>7. CASE Reset
      BY <2>1, <2>7, ResetStep
  <2>8. CASE UNCHANGED vars
      BY <2>1, <2>8, StutterStep
  <2>9. QED
      BY <2>1, <2>2, <2>3, <2>4, <2>5, <2>6, <2>7, <2>8 DEF Next
<1>3. QED
    BY <1>1, <1>2, PTL DEF Spec

(* What the buffer retains is always a tail of what was written, and every *)
(* field keeps its type.                                                   *)
THEOREM TypeCorrect == Spec => []TypeOK
<1>1. IndInv => TypeOK
    BY DEF IndInv
<1>2. QED
    BY <1>1, Invariance, PTL

(* No order of disconnects, revives and reservations lets the catch-up     *)
(* outgrow MAX_RECOVERY_BACKUP_BYTES.                                      *)
THEOREM RecoveryTotal == Spec => []RecoveryTotalBounded
<1>1. IndInv => RecoveryTotalBounded
    BY DEF IndInv
<1>2. QED
    BY <1>1, Invariance, PTL

(* The disconnect buffer passes DISCONNECT_BUFFER_BYTES by one MAC at most, *)
(* and MAX_DISCONNECT_PACKETS never.                                        *)
THEOREM DisconnectBuffer == Spec => []DisconnectBufferBounded
<1>1. IndInv => DisconnectBufferBounded
    BY DEF IndInv
<1>2. QED
    BY <1>1, Invariance, PTL

(* delivery_backlog is exact until the hard cap drops unacknowledged data, *)
(* and never under-reports afterwards.                                     *)
THEOREM Backlog == Spec => []BacklogAccounted
<1>1. IndInv => BacklogAccounted
    BY DEF IndInv
<1>2. QED
    BY <1>1, Invariance, PTL

-----------------------------------------------------------------------------
(* What a step may drop: an acknowledged packet, or one that a hard cap    *)
(* forces out.                                                             *)
YieldsProperly(d) ==
    \/ d <= acknowledged'
    \/ Upto(offset', sequence') - Upto(offset', d - 1) > MaxBackupBytes
    \/ sequence' - d + 1 > MaxBackupPackets

(* A packet that leaves is found by the loop one step before it is gone. *)
LEMMA Before ==
    ASSUME NEW a \in Int, NEW b \in Int, NEW d \in (a + 1) .. b
    PROVE  d \in Int /\ d - 1 \in a .. (b - 1)
OBVIOUS

(* The two loops of commit_write: the first pops acknowledged packets, the *)
(* second what is over the hard caps.                                      *)
LEMMA TrimYields ==
    ASSUME NEW off, NEW n \in Nat, dropped \in Nat, acknowledged \in Int,
           TrimmedCommit(off, n), NEW d \in (dropped + 1) .. dropped'
    PROVE  \/ d <= acknowledged
           \/ Upto(off, n) - Upto(off, d - 1) > MaxBackupBytes
           \/ n - d + 1 > MaxBackupPackets
<1> DEFINE OverConnected(e) ==
               /\ \/ Upto(off, n) - Upto(off, e) > ConnectedBackupBytes
                  \/ n - e > ConnectedBackupPackets
               /\ Acked(e)
           OverHard(e) == \/ Upto(off, n) - Upto(off, e) > MaxBackupBytes
                          \/ n - e > MaxBackupPackets
<1>1. PICK soft \in dropped .. n, hard \in dropped .. n :
         /\ \A e \in dropped .. (soft - 1) : OverConnected(e)
         /\ \A e \in soft .. (hard - 1) : OverHard(e)
         /\ dropped' = hard
    BY DEF TrimmedCommit, PopsUntil
<1>2. d \in Int /\ d - 1 \in dropped .. (hard - 1)
    BY <1>1, Before
<1>3. CASE d - 1 < soft
  <2>1. d - 1 \in dropped .. (soft - 1)
      BY <1>1, <1>2, <1>3
  <2>2. Acked(d - 1)
      BY <2>1, <1>1
  <2>3. QED
      BY <2>2, <1>2 DEF Acked
<1>4. CASE ~(d - 1 < soft)
  <2>1. d - 1 \in soft .. (hard - 1)
      BY <1>1, <1>2, <1>4
  <2>2. OverHard(d - 1)
      BY <2>1, <1>1
  <2>3. n - (d - 1) = n - d + 1
      BY <1>2
  <2>4. QED
      BY <2>2, <2>3
<1>5. QED
    BY <1>3, <1>4

(* commit_write drops acknowledged packets first. *)
LEMMA CommitYields ==
    ASSUME IndInv, CommitWrite, NEW d \in (dropped + 1) .. dropped'
    PROVE  YieldsProperly(d)
<1> DEFINE off == Append(offset, Upto(offset, sequence) + reserved)
<1>1. /\ offset' = off /\ acknowledged' = acknowledged
      /\ sequence \in Nat /\ dropped \in Nat /\ acknowledged \in Int
    BY DEF CommitWrite, IndInv, TypeOK, sequence, NoAck
<1>2. sequence' = sequence + 1
    BY <1>1 DEF sequence, IndInv, TypeOK
<1>3. connected
  <2>1. dropped' # dropped
      BY <1>1
  <2>2. QED
      BY <2>1 DEF CommitWrite
<1>4. TrimmedCommit(offset', sequence')
    BY <1>1, <1>2, <1>3 DEF CommitWrite
<1>5. sequence' \in Nat
    BY <1>1, <1>2
<1>6. QED
    BY <1>1, <1>4, <1>5, TrimYields DEF YieldsProperly

(* The module's promise on what may be lost: a packet the peer has not     *)
(* acknowledged leaves the backup only when MAX_BACKUP_BYTES or            *)
(* MAX_BACKUP_PACKETS forces it out.                                       *)
THEOREM YieldOnlyToHardCap == Spec => UnacknowledgedYieldOnlyToHardCap
<1> DEFINE Yields == \A d \in (dropped + 1) .. dropped' :
                        \/ d <= acknowledged'
                        \/ Upto(offset', sequence') - Upto(offset', d - 1) > MaxBackupBytes
                        \/ sequence' - d + 1 > MaxBackupPackets
<1>1. IndInv /\ [Next]_vars => [Yields]_vars
  <2>1. SUFFICES ASSUME IndInv, Next PROVE Yields
      OBVIOUS
  <2>2. SUFFICES ASSUME NEW d \in (dropped + 1) .. dropped' PROVE YieldsProperly(d)
      BY DEF YieldsProperly
  <2>3. sequence \in Nat /\ dropped \in 0 .. sequence
      BY <2>1 DEF IndInv, TypeOK, sequence
  <2>4. CASE CommitWrite
      BY <2>1, <2>2, <2>4, CommitYields
  <2>5. CASE \E ack \in 0 .. sequence : Acknowledge(ack)
    <3>1. PICK ack \in 0 .. sequence : Acknowledge(ack)
        BY <2>5
    <3>2. acknowledged' = ack /\ dropped' \in dropped .. Maximum(ack, dropped)
        BY <3>1 DEF Acknowledge
    <3>3. QED
        BY <3>2, <2>2, <2>3 DEF Maximum, YieldsProperly
  <2>6. CASE Revive
    <3>1. /\ dropped' \in dropped .. sequence /\ offset' = offset
          /\ \A e \in dropped .. (dropped' - 1) :
                Upto(offset, sequence) - Upto(offset, e) > MaxBackupBytes
        BY <2>6 DEF Revive, PopsUntil
    <3>2. sequence' = sequence
        BY <3>1 DEF sequence
    <3>3. d - 1 \in dropped .. (dropped' - 1)
      <4>1. dropped' \in Int /\ dropped \in Int
          BY <3>1, <2>3
      <4>2. QED
          BY <4>1, Before
    <3>4. Upto(offset, sequence) - Upto(offset, d - 1) > MaxBackupBytes
        BY <3>1, <3>3
    <3>5. Upto(offset', sequence') - Upto(offset', d - 1) > MaxBackupBytes
        BY <3>1, <3>2, <3>4 DEF Upto
    <3>6. QED
        BY <3>5 DEF YieldsProperly
  <2>7. CASE \/ \E len \in PacketLens : ReserveWrite(len)
             \/ Invalidate
             \/ Reset
    <3>1. dropped' = dropped \/ dropped' = 0
        BY <2>7 DEF ReserveWrite, Invalidate, Reset
    <3>2. QED
        BY <3>1, <2>2, <2>3
  <2>8. QED
      BY <2>1, <2>4, <2>5, <2>6, <2>7 DEF Next
<1>2. QED
    BY <1>1, Invariance, PTL DEF Spec, UnacknowledgedYieldOnlyToHardCap
=============================================================================
