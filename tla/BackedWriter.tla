---------------------------- MODULE BackedWriter ----------------------------
(***************************************************************************)
(* The replay buffer of one direction of a session                         *)
(* (crates/et-core/src/backed_writer.rs).                                  *)
(*                                                                         *)
(* Packet contents play no part in what is kept and what is dropped, so a  *)
(* packet is its sequence number and its length on the wire.  The deque    *)
(* `backup` is only pushed at the front and popped at the back: it always  *)
(* holds the packets dropped + 1 .. sequence, and one number says which.   *)
(* `offset` is the history of the stream: offset[i] is the number of wire  *)
(* bytes of the packets 1 .. i.                                            *)
(***************************************************************************)
EXTENDS Integers, Sequences

CONSTANTS
    PacketLens,             \* 2 + payload_len of the packets callers write
    MacLen,                 \* MAC_LEN
    MaxBackupBytes,         \* MAX_BACKUP_BYTES
    DisconnectBufferBytes,  \* DISCONNECT_BUFFER_BYTES
    MaxRecoveryBackupBytes, \* MAX_RECOVERY_BACKUP_BYTES
    MaxBackupPackets,       \* MAX_BACKUP_PACKETS
    MaxDisconnectPackets,   \* MAX_DISCONNECT_PACKETS
    ConnectedBackupBytes,   \* CONNECTED_BACKUP_BYTES
    ConnectedBackupPackets, \* CONNECTED_BACKUP_PACKETS
    SlackPackets,           \* ACK_RETAIN_SLACK_PACKETS
    SlackBytes,             \* ACK_RETAIN_SLACK_BYTES
    FloorPackets,           \* ACK_RETAIN_FLOOR_PACKETS
    MaxSequence             \* bound of the model: packets written per epoch

VARIABLES
    offset,              \* wire bytes of every packet committed, cumulated
    dropped,             \* packets popped from the back of `backup`
    reserved,            \* wire length of the ReservedWrite in hand, 0: none
    connected,
    acknowledged,        \* Option<i64>; None is NoAck
    unacknowledgedBytes,
    disconnectedBytes,
    disconnectedPackets

vars == <<offset, dropped, reserved, connected, acknowledged,
          unacknowledgedBytes, disconnectedBytes, disconnectedPackets>>

NoAck == -1

ASSUME LensAssumption == PacketLens \subseteq Nat \ {0} /\ MacLen \in Nat

ASSUME CapsAssumption ==
    /\ MaxBackupBytes \in Nat /\ DisconnectBufferBytes \in Nat
    /\ MaxRecoveryBackupBytes \in Nat /\ MaxBackupPackets \in Nat
    /\ MaxDisconnectPackets \in Nat /\ ConnectedBackupBytes \in Nat
    /\ ConnectedBackupPackets \in Nat /\ SlackPackets \in Nat
    /\ SlackBytes \in Nat /\ FloorPackets \in Nat /\ MaxSequence \in Nat

(* What the code's constants give it: any one packet fits the disconnect   *)
(* buffer, and fits beside a full hard cap within the recovery cap.        *)
(* reserve_write does not enforce this while connected; it holds of the    *)
(* packets the program writes, which are of 64 KiB at most, where the      *)
(* caps leave 12 MiB.                                                      *)
ASSUME FitsAssumption ==
    /\ MaxDisconnectPackets > 0
    /\ \A len \in PacketLens :
          /\ len <= DisconnectBufferBytes
          /\ MaxBackupBytes + len + MacLen <= MaxRecoveryBackupBytes

(* Wire bytes of the packets 1 .. n, in the history `off`. *)
Upto(off, n) == IF n = 0 THEN 0 ELSE off[n]

sequence == Len(offset)
BackupLen == sequence - dropped
BackupSize == Upto(offset, sequence) - Upto(offset, dropped)

(* A loop that pops the oldest packet while Pop holds, started with the    *)
(* packets 1 .. first gone, stops with 1 .. last gone.                     *)
PopsUntil(first, last, Pop(_)) ==
    /\ \A d \in first .. (last - 1) : Pop(d)
    /\ ~Pop(last)

Maximum(a, b) == IF a >= b THEN a ELSE b

-----------------------------------------------------------------------------
Init ==
    /\ offset = << >>
    /\ dropped = 0
    /\ reserved = 0
    /\ connected \in BOOLEAN
    /\ acknowledged = NoAck
    /\ unacknowledgedBytes = 0
    /\ disconnectedBytes = 0
    /\ disconnectedPackets = 0

(* Faulty admission: the recovery total is not checked. *)
CanReserveUncapped(len) ==
    \/ connected
    \/ /\ disconnectedBytes + len <= DisconnectBufferBytes
       /\ disconnectedPackets < MaxDisconnectPackets

(* Faulty admission: off by one at the packet cap. *)
CanReserveOneMore(len) ==
    \/ connected
    \/ /\ disconnectedBytes + len <= DisconnectBufferBytes
       /\ disconnectedPackets <= MaxDisconnectPackets
       /\ BackupSize + len + MacLen <= MaxRecoveryBackupBytes

(* reserve_write: admission, and the nonce, but nothing is retained yet.   *)
(* The caller serialises writers, so one reservation is in hand at a time. *)
CanReserve(len) ==
    \/ connected
    \/ /\ disconnectedBytes + len <= DisconnectBufferBytes
       /\ disconnectedPackets < MaxDisconnectPackets
       /\ BackupSize + len + MacLen <= MaxRecoveryBackupBytes

ReserveWrite(len) ==
    /\ reserved = 0
    /\ sequence < MaxSequence
    /\ CanReserve(len)
    /\ reserved' = len + MacLen
    /\ UNCHANGED <<offset, dropped, connected, acknowledged, unacknowledgedBytes,
                   disconnectedBytes, disconnectedPackets>>

(* Faulty test: off by one, the first unacknowledged packet counts too. *)
AckedTooMuch(d) == acknowledged # NoAck /\ d <= acknowledged

(* The oldest packet retained once d are gone has been acknowledged. *)
Acked(d) == acknowledged # NoAck /\ d < acknowledged

(* commit_write: the packet enters the backup; a connected writer then     *)
(* trims acknowledged history to the connected caps and everything to the  *)
(* hard caps.                                                              *)
TrimmedCommit(off, n) ==
    LET Bytes(d) == Upto(off, n) - Upto(off, d)
        OverConnected(d) ==
            /\ Bytes(d) > ConnectedBackupBytes \/ n - d > ConnectedBackupPackets
            /\ Acked(d)
        OverHard(d) == Bytes(d) > MaxBackupBytes \/ n - d > MaxBackupPackets
    IN \E soft \in dropped .. n, hard \in dropped .. n :
          /\ PopsUntil(dropped, soft, OverConnected)
          /\ soft <= hard
          /\ PopsUntil(soft, hard, OverHard)
          /\ dropped' = hard

CommitWrite ==
    /\ reserved # 0
    /\ LET off == Append(offset, Upto(offset, sequence) + reserved)
       IN /\ offset' = off
          /\ \/ /\ ~connected
                /\ disconnectedBytes' = disconnectedBytes + reserved
                /\ disconnectedPackets' = disconnectedPackets + 1
                /\ UNCHANGED dropped
             \/ /\ connected
                /\ TrimmedCommit(off, sequence + 1)
                /\ UNCHANGED <<disconnectedBytes, disconnectedPackets>>
    /\ unacknowledgedBytes' = unacknowledgedBytes + reserved
    /\ reserved' = 0
    /\ UNCHANGED <<connected, acknowledged>>

(* Faulty recount: the slack below the acknowledgement is counted too. *)
WholeBacklog(tail) == BackupSize

(* Bytes of the packets above `tail`. *)
AckedBacklog(tail) == Upto(offset, sequence) - Upto(offset, tail)

(* acknowledge: ignored while disconnected and for a sequence never        *)
(* written.  Keeps the unacknowledged tail and some acknowledged slack.    *)
Acknowledge(ack) ==
    /\ connected /\ ack >= 0 /\ ack <= sequence
    /\ acknowledged' = ack
    /\ LET tail == Maximum(ack, dropped)
           Keep(d) ==
               /\ d > dropped
               /\ tail - d < SlackPackets
               /\ \/ tail - d < FloorPackets
                  \/ Upto(offset, tail) - Upto(offset, d - 1) <= SlackBytes
       IN /\ unacknowledgedBytes' = AckedBacklog(tail)
          /\ \E first \in dropped .. tail :
                /\ \A d \in (first + 1) .. tail : Keep(d)
                /\ ~Keep(first)
                /\ dropped' = first
    /\ UNCHANGED <<offset, reserved, connected, disconnectedBytes,
                   disconnectedPackets>>

(* revive: connected again; only the byte cap trims.  release_slack_capacity *)
(* touches the deque's allocation, never its contents.                       *)
Revive ==
    /\ connected' = TRUE
    /\ disconnectedBytes' = 0
    /\ disconnectedPackets' = 0
    /\ LET OverHard(d) == Upto(offset, sequence) - Upto(offset, d) > MaxBackupBytes
       IN \E hard \in dropped .. sequence :
             /\ PopsUntil(dropped, hard, OverHard)
             /\ dropped' = hard
    /\ UNCHANGED <<offset, reserved, acknowledged, unacknowledgedBytes>>

Invalidate ==
    /\ connected' = FALSE
    /\ UNCHANGED <<offset, dropped, reserved, acknowledged, unacknowledgedBytes,
                   disconnectedBytes, disconnectedPackets>>

(* Faulty reset: the old epoch's acknowledgement survives. *)
ResetKeepsAck ==
    /\ offset' = << >>
    /\ dropped' = 0
    /\ connected' = FALSE
    /\ unacknowledgedBytes' = 0
    /\ disconnectedBytes' = 0
    /\ disconnectedPackets' = 0
    /\ UNCHANGED <<acknowledged, reserved>>

(* reset: a new epoch, with empty history. *)
Reset ==
    /\ offset' = << >>
    /\ dropped' = 0
    /\ connected' = FALSE
    /\ acknowledged' = NoAck
    /\ unacknowledgedBytes' = 0
    /\ disconnectedBytes' = 0
    /\ disconnectedPackets' = 0
    /\ UNCHANGED reserved

Next ==
    \/ \E len \in PacketLens : ReserveWrite(len)
    \/ CommitWrite
    \/ \E ack \in 0 .. sequence : Acknowledge(ack)
    \/ Revive
    \/ Invalidate
    \/ Reset

Spec == Init /\ [][Next]_vars

-----------------------------------------------------------------------------
(* Every field has its type, and what is retained is a tail of what was    *)
(* written (the deque is only pushed at the front and popped at the back). *)
TypeOK ==
    /\ offset \in Seq(Nat)
    /\ dropped \in 0 .. sequence
    /\ reserved \in {0} \cup {len + MacLen : len \in PacketLens}
    /\ connected \in BOOLEAN
    /\ acknowledged \in {NoAck} \cup 0 .. sequence
    /\ unacknowledgedBytes \in Nat
    /\ disconnectedBytes \in Nat
    /\ disconnectedPackets \in Nat

(* The catch-up a reconnecting peer can be sent never exceeds the recovery *)
(* cap, also when a disconnect falls between reserve_write and             *)
(* commit_write, or a reconnect between two disconnect buffers.            *)
RecoveryTotalBounded == BackupSize <= MaxRecoveryBackupBytes

(* The disconnect buffer stays within its caps.  reserve_write counts the  *)
(* packet without its MAC and commit_write with it, so the byte cap can be *)
(* passed by one MAC.                                                      *)
DisconnectBufferBounded ==
    /\ disconnectedBytes <= DisconnectBufferBytes + MacLen
    /\ disconnectedPackets <= MaxDisconnectPackets

(* delivery_backlog reports exactly the bytes above the acknowledgement,   *)
(* unless the hard cap has dropped some of them; then never less than what *)
(* is retained.                                                            *)
BacklogAccounted ==
    acknowledged # NoAck =>
        IF dropped <= acknowledged
        THEN unacknowledgedBytes = Upto(offset, sequence) - Upto(offset, acknowledged)
        ELSE unacknowledgedBytes >= BackupSize

(* "Unacknowledged packets are only ever dropped by the hard cap": a packet *)
(* that leaves the backup in a step is acknowledged, or it and the packets  *)
(* after it exceed MAX_BACKUP_BYTES or MAX_BACKUP_PACKETS.                  *)
UnacknowledgedYieldOnlyToHardCap ==
    [][\A d \in (dropped + 1) .. dropped' :
          \/ d <= acknowledged'
          \/ Upto(offset', sequence') - Upto(offset', d - 1) > MaxBackupBytes
          \/ sequence' - d + 1 > MaxBackupPackets]_vars
=============================================================================
