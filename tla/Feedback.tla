------------------------------- MODULE Feedback -------------------------------
(***************************************************************************)
(* How the server keeps a client's clock ahead of its own, but not too far *)
(* (protocol-feedback.tex): with each MSG_COMMANDS it notes how many       *)
(* frames of commands it has left; MSG_FEEDBACK has the client warp time,  *)
(* Parts iterations of its loop for each frame.                            *)
(*                                                                         *)
(* One round is a network update of either side, Granularity frames.  All  *)
(* frame numbers are relative to the server's, so they fall as it moves    *)
(* on.  The client's lead is counted in parts of a frame.                  *)
(*                                                                         *)
(* Packets take delay rounds, which may change, and arrive in order: their *)
(* age is their place in line.  The server reads all that have arrived.    *)
(* The client reads one in a round: what has queued up stays queued up.    *)
(*                                                                         *)
(* The thread of the server may not run for some rounds.  Then its loop    *)
(* goes without waiting until both of its ticks have caught up             *)
(* (tick_advance(), tick_wait()): the first update reads what has come     *)
(* meanwhile, the others find nothing, but all of them send.               *)
(***************************************************************************)
EXTENDS Integers, Sequences, FiniteSets, FiniteSetsExt

LOCAL INSTANCE SequencesExt

CONSTANTS Granularity, \* sim_tick_rate / net_tick_rate (3)
          Window,      \* CBF_WINDOW_SIZE (20)
          DiffLimit,   \* the largest correction, in frames (10)
          Parts,       \* a warped iteration is 1/Parts longer or shorter (10)
          Delays,      \* delays of packets, in rounds
          Stalls,      \* rounds the server may miss
          MaxAge,      \* bound on the age of corrections after a stall, in rounds
          MaxChanges,  \* bound on changes of the delay and stalls
          MaxLead      \* bound on the lead of a client that joins, in frames

ASSUME FeedbackAssumption ==
  /\ {Granularity, Parts} \subseteq Nat \ {0, 1}
  /\ {Window, DiffLimit} \subseteq Nat \ {0}
  /\ {MaxLead, MaxChanges, MaxAge} \subseteq Nat
  /\ IsFiniteSet(Delays) /\ Delays # {} /\ Delays \subseteq Nat \ {0}
  /\ IsFiniteSet(Stalls) /\ Stalls \subseteq Nat \ {0}

VARIABLES
  delay,    \* of packets that arrive now
  changes,  \* how often it has changed, or the server stalled
  stall,    \* rounds the server will not run
  missed,   \* rounds it did not run
  lead,     \* how far client.frame_number is ahead of where the server's
            \* should be, in parts of a frame
  warp,     \* client.warp
  commands, \* MSG_COMMANDS under way: the frame of the last command in each
  packets,  \* of the server, under way, by rounds: the correction in each,
            \* 0 if none
  socket,   \* packets the client has still to read
  end,      \* cmd_queue_frame_end() of the server's queue
  window,   \* cbf_window
  reply,    \* the correction to be sent
  turn      \* who is doing a network update

network == <<delay, changes>>
clock == <<stall, missed>>
clientVars == <<lead, warp, socket>>
serverVars == <<end, window, reply>>
vars == <<network, clock, clientVars, commands, packets, serverVars, turn>>

(* Measurements below this one lead to the same correction.                *)
Lowest == -(DiffLimit + 1)

Between(low, x, high) == Max({low, Min({x, high})})

-----------------------------------------------------------------------------

(* A client has joined, with a lead of the buffer at least (see Join).  Its*)
(* queue at the server is empty, its first_frame 0: anything, relative to  *)
(* the server's frame.                                                     *)
Init == /\ delay \in Delays /\ changes = 0
        /\ lead \in {Parts * n : n \in 5 * Granularity .. MaxLead}
        /\ warp = 0
        /\ stall = 0 /\ missed = 0
        /\ commands = << >> /\ packets = << >> /\ socket = << >>
        /\ end \in {Lowest, 0, DiffLimit}
        /\ window = [i \in 1 .. Window |-> Granularity]
        /\ reply = 0
        /\ turn = "client"

(* Corrections add up.                                                     *)
WarpedMore(diff) == warp + Parts * diff

(* MSG_FEEDBACK is ignored while a correction is under way.                *)
Warped(diff) == IF warp = 0 THEN Parts * diff ELSE warp

(* A packet is read; commands are sent; and the frames of the round pass,  *)
(* with tick_wait_warp() after each.                                       *)
ClientRound ==
  LET arrived == Max({0, Len(packets) - delay + 1})
      unread  == socket \o FlattenSeq(SubSeq(packets, 1, arrived))
      warped  == Warped(IF unread = << >> THEN 0 ELSE Head(unread))
      drift   == Between(-Granularity, warped, Granularity)
  IN  /\ turn = "client"
      /\ packets' = SubSeq(packets, arrived + 1, Len(packets))
      /\ socket' = IF unread = << >> THEN unread ELSE Tail(unread)
      /\ commands' = Append(commands, lead \div Parts + Granularity * missed)
      /\ lead' = lead - drift
      /\ warp' = warped - drift
      /\ turn' = "server"
      /\ UNCHANGED <<network, clock, serverVars>>

(* cbf_add()                                                               *)
Noted == <<end>> \o SubSeq(window, 1, Window - 1)

LowerBound(w) == Min({w[i] : i \in 1 .. Window})

ToInt8(n) == ((n + 128) % 256) - 128

(* A correction backwards is not limited.                                  *)
DiffUnlimited == IF end < 0 THEN end ELSE LowerBound(Noted) - 2 * Granularity

(* All that is left is taken away.                                         *)
DiffOfAll == IF end < 0 THEN Max({end, -DiffLimit})
             ELSE IF LowerBound(Noted) - 2 * Granularity > 0
             THEN Min({LowerBound(Noted), DiffLimit}) ELSE 0

(* A client that is late is not told.                                      *)
DiffForwards == Min({Max({0, LowerBound(Noted) - 2 * Granularity}), DiffLimit})

(* The correction a measurement calls for, if any.                         *)
Diff == IF end < 0 THEN Max({end, -DiffLimit})
        ELSE IF LowerBound(Noted) - 2 * Granularity > 0
        THEN Min({ToInt8(LowerBound(Noted) - 2 * Granularity), DiffLimit}) ELSE 0

(* MSG_COMMANDS.  The queue is measured before its commands are put there; *)
(* those for past frames are not.  Of the corrections in one packet the    *)
(* client takes the first.                                                 *)
ServerRecv ==
  /\ turn = "server" /\ stall = 0
  /\ Len(commands) > delay
  /\ window' = Noted
  /\ end' = IF Head(commands) >= 0 THEN Head(commands) + 1 ELSE end
  /\ reply' = IF reply = 0 THEN Diff ELSE reply
  /\ commands' = Tail(commands)
  /\ UNCHANGED <<network, clock, clientVars, packets, turn>>

(* The reply is sent, and the frames of the round pass, with those of the  *)
(* rounds it missed.                                                       *)
ServerRound ==
  LET frames == Granularity * (missed + 1)
  IN  /\ turn = "server" /\ stall = 0
      /\ Len(commands) <= delay
      /\ packets' = Append(packets, <<reply>> \o [i \in 1 .. missed |-> 0])
      /\ reply' = 0
      /\ end' = Max({Lowest, end - frames})
      /\ commands' = [i \in DOMAIN commands |-> commands[i] - frames]
      /\ missed' = 0
      /\ turn' = "client"
      /\ UNCHANGED <<network, stall, clientVars, window>>

(* The server does not run.                                                *)
ServerMisses ==
  /\ turn = "server" /\ stall > 0
  /\ stall' = stall - 1
  /\ missed' = missed + 1
  /\ packets' = Append(packets, << >>)
  /\ turn' = "client"
  /\ UNCHANGED <<network, clientVars, commands, serverVars>>

Disturbance ==
  /\ turn = "client" /\ stall = 0 /\ missed = 0
  /\ changes < MaxChanges
  /\ changes' = changes + 1

NetworkChanges ==
  /\ Disturbance
  /\ delay' \in Delays \ {delay}
  /\ UNCHANGED <<clock, clientVars, commands, packets, serverVars, turn>>

ServerStalls ==
  /\ Disturbance
  /\ stall' \in {n \in Stalls : 2 * delay + n <= MaxAge}
  /\ UNCHANGED <<delay, missed, clientVars, commands, packets, serverVars, turn>>

Round == ClientRound \/ ServerRecv \/ ServerRound \/ ServerMisses

Next == Round \/ NetworkChanges \/ ServerStalls

(* Both loops go on.                                                       *)
Spec == Init /\ [][Next]_vars /\ WF_vars(Round)

-----------------------------------------------------------------------------

TypeOK ==
  /\ delay \in Delays /\ changes \in 0 .. MaxChanges
  /\ lead \in Int
  /\ warp \in -(Parts * DiffLimit) .. Parts * DiffLimit
  /\ stall >= 0 /\ missed \in 0 .. Max(Stalls \cup {0})
  /\ Len(packets) <= Max(Delays)
  /\ end >= Lowest
  /\ Len(window) = Window
  /\ reply \in -DiffLimit .. DiffLimit

(* However late measurements are, the client does not run away: when a     *)
(* correction begins, its lead exceeds what the slowest packet needs by no *)
(* more than was won while the measurement was on its way.                 *)
Needed == Parts * (Max(Delays) + 1) * Granularity

LeadIsBounded ==
  lead - warp <= Max({Parts * MaxLead, Needed + 2 * Max(Delays) * Granularity})
                 + Parts * DiffLimit

(* A client that is slowed down keeps a buffer: when it is done, commands  *)
(* still arrive before they are due, though the corrections it received    *)
(* rest on measurements made before the last one ended.                    *)
SlowingLeavesBuffer ==
  changes = 0 /\ warp > 0 => (lead - warp) \div Parts >= delay * Granularity

(* When the network does not change any more corrections come to an end,   *)
(* with commands arriving in time: though the client answers measurements  *)
(* that are long out of date, it does not oscillate.                       *)
Settled == warp = 0 /\ reply = 0 /\ end >= 0

Settles == <>[] Settled

=============================================================================
