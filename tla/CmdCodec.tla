------------------------------- MODULE CmdCodec -------------------------------
(***************************************************************************)
(* Commands, and how they travel.  cmd_make() (src/src/cmd.c) limits how   *)
(* much angle and speed change from frame to frame, so that msg_commands() *)
(* (src/src/msg.c) can send all but the first command as differences of a  *)
(* few bits.  Angles run around, speeds do not.                            *)
(*                                                                         *)
(* The payload of a MSG_COMMANDS is a record:                              *)
(*   first     the frame of the first command                              *)
(*   count     the number of further commands                              *)
(*   cmd       the first command                                           *)
(*   bits      what became of the action, in as few bits as possible       *)
(*   deltas    a byte for each further command: how angle and speed change *)
(*   deltasAt  the index of the first of these bytes                       *)
(***************************************************************************)
EXTENDS Integers, Sequences

CONSTANTS AngleRange,  \* angles in a full turn (256)
          SpeedRange,  \* speeds (256)
          AngleCodes,  \* differences of angles that can be sent (3 bits)
          SpeedCodes,  \* differences of speeds that can be sent (5 bits)
          ActionBits   \* bits of an action (3)

ASSUME CodecAssumption ==
  /\ AngleRange \in Nat /\ SpeedRange \in Nat \ {0}
  /\ AngleCodes \in Nat \ {0} /\ SpeedCodes \in Nat \ {0}
  /\ AngleCodes % 2 = 0 /\ SpeedCodes % 2 = 0
  /\ 2 * AngleCodes <= AngleRange
  /\ ActionBits \in Nat

Angles == 0 .. AngleRange - 1
Speeds == 0 .. SpeedRange - 1

(* A bit field, lowest bit first.                                          *)
Actions == [1 .. ActionBits -> {0, 1}]

(* struct cmd                                                              *)
Commands == [angle : Angles, speed : Speeds, action : Actions]

(* Without the code of 0.                                                  *)
AngleLimitUneven == AngleCodes \div 2

(* As many steps down as up have a code: 3 of 8, and 15 of 32.             *)
AngleLimit == AngleCodes \div 2 - 1
SpeedLimit == SpeedCodes \div 2 - 1

-----------------------------------------------------------------------------

(* d is a difference of angles, brought near 0.                            *)
Unwound(d) == IF d > AngleRange \div 2 THEN d - AngleRange
              ELSE IF d < - (AngleRange \div 2) THEN d + AngleRange
              ELSE d

(* A difference d, cut off at a limit.                                     *)
Limited(d, limit) == IF d > limit THEN limit ELSE IF d < - limit THEN - limit ELSE d

(* cmd_make(): towards the angle and speed the player wants.  What the     *)
(* conversion from radians gives is any angle.                             *)
Make(prev, want) ==
  [angle  |-> (prev.angle + Limited(Unwound(want.angle - prev.angle), AngleLimit))
              % AngleRange,
   speed  |-> prev.speed + Limited(want.speed - prev.speed, SpeedLimit),
   action |-> want.action]

-----------------------------------------------------------------------------

(* The difference of two commands, moved up to be positive and cut to the  *)
(* bits there are for it.                                                  *)
Delta(prev, next) ==
  [angle |-> Unwound(next.angle - prev.angle + AngleLimit) % AngleCodes,
   speed |-> (next.speed - prev.speed + SpeedLimit) % SpeedCodes]

(* The command the receiver makes of the one before.                       *)
Moved(prev, delta, action) ==
  [angle  |-> (prev.angle + delta.angle - AngleLimit) % AngleRange,
   speed  |-> (prev.speed + delta.speed - SpeedLimit) % SpeedRange,
   action |-> action]

(* One bit for an action that stays, one more than it has for a new one.   *)
ActionChange(prev, next) ==
  IF next.action = prev.action THEN << 0 >> ELSE << 1 >> \o next.action

(* The byte after n bits that follow the three of the first action, which  *)
(* is in byte 5: a byte that is partly filled is skipped.                  *)
ByteAfter(n) == 5 + (3 + n + 7) \div 8

(* The encoding of msg_commands().                                         *)
Encoded(first, cmds) ==
  LET bits[i \in 1 .. Len(cmds)] ==
        IF i = 1 THEN << >> ELSE bits[i - 1] \o ActionChange(cmds[i - 1], cmds[i])
  IN  [first    |-> first,
       count    |-> Len(cmds) - 1,
       cmd      |-> cmds[1],
       bits     |-> bits[Len(cmds)],
       deltas   |-> [i \in 1 .. Len(cmds) - 1 |-> Delta(cmds[i], cmds[i + 1])],
       deltasAt |-> ByteAfter(Len(bits[Len(cmds)]))]

(* payload_len, when the message is complete and when it is allocated.     *)
PayloadLen(m) == m.deltasAt + m.count

Allocated(m) == 5 + ((8 + 1 + ActionBits) * (m.count + 1) + 8) \div 8

(* Where the bits of the i-th further command are, found by reading those  *)
(* before it.                                                              *)
BitAt(m) ==
  LET at[i \in 1 .. m.count + 1] ==
        IF i = 1 THEN 1
        ELSE at[i - 1] + (IF m.bits[at[i - 1]] = 1 THEN 1 + ActionBits ELSE 1)
  IN  at

(* Where msg_commands_unpack_into() looks for the differences.             *)
FoundAt(m) == ByteAfter(BitAt(m)[m.count + 1] - 1)

(* The commands it reads.  It stops after the first if the message is too  *)
(* short for the others.                                                   *)
Decoded(m) ==
  LET at  == BitAt(m)
      off == FoundAt(m) - m.deltasAt
      cmd[i \in 0 .. m.count] ==
        IF i = 0 THEN m.cmd
        ELSE Moved(cmd[i - 1], m.deltas[off + i],
                   IF m.bits[at[i]] = 1
                   THEN SubSeq(m.bits, at[i] + 1, at[i] + ActionBits)
                   ELSE cmd[i - 1].action)
  IN  IF FoundAt(m) + m.count > PayloadLen(m) THEN << m.cmd >>
      ELSE [i \in 1 .. m.count + 1 |-> cmd[i - 1]]

=============================================================================
