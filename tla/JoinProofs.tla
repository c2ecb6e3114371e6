------------------------------ MODULE JoinProofs ------------------------------
(***************************************************************************)
(* A player who joins starts ahead of the server by the buffer, for every  *)
(* delay of the messages and all rates; and the client turns no server     *)
(* away, unless its repetitions last longer than a plausible round trip.   *)
(***************************************************************************)
EXTENDS Join, TLAPS

(* Frames are counted from the frame in which each side started: the loops *)
(* since are fewer than half the range of the counter.                     *)

ClientStamp(i) == Plus(ClientStart, i)
ServerStamp(j) == Plus(ServerStart, j)

(* Neither clock is more than a loop ahead.                                *)
Clocks ==
  /\ clientLoops \in 0 .. MaxLoops /\ serverLoops \in 0 .. MaxLoops
  /\ clientLoops <= serverLoops + 1 /\ serverLoops <= clientLoops + 1
  /\ serverFrame = ServerStamp(serverLoops)

(* A try is used up in each network update.                                *)
Joining ==
  /\ tries \in 1 .. Retries
  /\ state = "joining" => /\ clientFrame = ClientStamp(clientLoops)
                          /\ clientLoops <= (Retries - tries) * NetEvery

(* A request is not sent before the server's clock is there.               *)
IsRequest(p) ==
  \E i \in 0 .. MaxLoops : /\ i <= clientLoops /\ i <= serverLoops
                           /\ p.frame = ClientStamp(i)

(* A request is not answered before it was sent.                           *)
IsAnswer(a) ==
  \E i, j \in 0 .. MaxLoops : /\ i <= clientLoops /\ i <= j /\ j <= serverLoops
                              /\ a.client = ClientStamp(i) /\ a.server = ServerStamp(j)

IInv == /\ Clocks
        /\ Joining
        /\ \A p \in packets : ~ p.leave => IsRequest(p)
        /\ \A a \in accepts : IsAnswer(a)

-----------------------------------------------------------------------------
(* The counter, as far as it is used: no sum is a lap away.                *)

LEMMA Bounds ==
  /\ H \in Nat \ {0} /\ M = 2 * H /\ M \in Nat
  /\ NetEvery \in Nat \ {0} /\ Buffer \in Nat /\ MaxLoops \in Nat
  /\ Buffer + 2 * MaxLoops < H
  /\ {ClientStart, ServerStart} \subseteq Frames
  /\ Retries \in Nat \ {0}
<1>1. H \in Nat \ {0} /\ M = 2 * H /\ M \in Nat
  BY HAssumption, SMT DEF M
<1>2. NetEvery \in Nat \ {0}
  <2>1. PICK s, n \in Nat \ {0} : s = SimRate /\ n = NetRate
    BY JoinAssumption
  <2>2. s % n = 0
    BY <2>1, JoinAssumption
  <2>3. s \div n \in Nat \ {0}
    BY <2>2, SMT
  <2>4. QED
    BY <2>1, <2>3 DEF NetEvery
<1>3. Buffer \in Nat
  BY <1>2 DEF Buffer
<1>4. QED
  BY <1>1, <1>2, <1>3, JoinAssumption

LEMMA StampSum ==
  ASSUME NEW a \in Frames, NEW m \in Nat, NEW n \in Nat, m + n < M
  PROVE  Plus(Plus(a, m), n) = Plus(a, m + n)
BY Bounds, SMT DEF Plus, Frames

LEMMA StampDistance ==
  ASSUME NEW a \in Frames, NEW m \in Nat, NEW n \in Nat, m < M, n < M
  PROVE  /\ m <= n => Ahead(Plus(a, n), Plus(a, m)) = n - m
         /\ n - m < H /\ m - n < H => sub_wrap(Plus(a, n), Plus(a, m)) = n - m
<1>1. H \in Nat \ {0} /\ M = 2 * H
  BY Bounds
<1>2. PICK x, y : x = Plus(a, n) /\ y = Plus(a, m)
  OBVIOUS
<1>3. x \in {a + n, a + n - M} /\ y \in {a + m, a + m - M} /\ x \in Frames /\ y \in Frames
  BY <1>1, <1>2, SMT DEF Plus, Frames
<1>4. m <= n => Ahead(x, y) = n - m
  BY <1>1, <1>3, SMT DEF Ahead, Frames
<1>5. n - m < H /\ m - n < H => sub_wrap(x, y) = n - m
  BY <1>1, <1>3, SMT DEF sub_wrap, Ahead, Frames
<1>6. QED
  BY <1>2, <1>4, <1>5

(* Between two multiples of n there is none.                               *)
LEMMA NextMultiple ==
  ASSUME NEW q \in Nat, NEW n \in Nat \ {0}, NEW c \in Nat
  PROVE  /\ c <= q * n => c + 1 <= (q + 1) * n
         /\ c <= q * n /\ c % n # 0 => c + 1 <= q * n
<1>1. PICK p : p = q * n
  OBVIOUS
<1>2. p \in Nat /\ (q + 1) * n = p + n
  BY <1>1, SMT
<1>3. c = p => c % n = 0
  BY <1>1, SMT
<1>4. QED
  BY <1>1, <1>2, <1>3

-----------------------------------------------------------------------------

(* What was sent before stays as it was while the clocks go on.            *)
LEMMA StillSent ==
  ASSUME IInv, clientLoops' \in Nat, serverLoops' \in Nat,
         clientLoops' >= clientLoops, serverLoops' >= serverLoops
  PROVE  /\ \A p : IsRequest(p) => IsRequest(p)'
         /\ \A a : IsAnswer(a) => IsAnswer(a)'
<1>1. clientLoops \in Nat /\ serverLoops \in Nat
  BY Bounds DEF IInv, Clocks
<1>2. ASSUME NEW p, IsRequest(p)
      PROVE  IsRequest(p)'
  <2>1. PICK i \in 0 .. MaxLoops : /\ i <= clientLoops /\ i <= serverLoops
                                   /\ p.frame = ClientStamp(i)
    BY <1>2 DEF IsRequest
  <2>2. i <= clientLoops' /\ i <= serverLoops'
    BY <1>1, <2>1, Bounds
  <2>3. QED
    BY <2>1, <2>2 DEF IsRequest, ClientStamp
<1>3. ASSUME NEW a, IsAnswer(a)
      PROVE  IsAnswer(a)'
  <2>1. PICK i, j \in 0 .. MaxLoops :
               /\ i <= clientLoops /\ i <= j /\ j <= serverLoops
               /\ a.client = ClientStamp(i) /\ a.server = ServerStamp(j)
    BY <1>3 DEF IsAnswer
  <2>2. i <= clientLoops' /\ j <= serverLoops'
    BY <1>1, <2>1, Bounds
  <2>3. QED
    BY <2>1, <2>2 DEF IsAnswer, ClientStamp, ServerStamp
<1>4. QED
  BY <1>2, <1>3

(* An iteration of the client's loop.                                      *)
LEMMA ClientLoop ==
  ASSUME IInv, ClientDue, clientLoops' = clientLoops + 1,
         UNCHANGED <<serverFrame, serverLoops, accepts>>,
         \A p \in packets' : p \in packets \/ p.leave \/ p.frame = ClientStamp(clientLoops)
  PROVE  /\ Clocks'
         /\ \A p \in packets' : ~ p.leave => IsRequest(p)'
         /\ \A a \in accepts' : IsAnswer(a)'
<1>1. /\ clientLoops \in 0 .. MaxLoops - 1 /\ serverLoops \in 0 .. MaxLoops
      /\ clientLoops <= serverLoops /\ serverLoops <= clientLoops + 1
      /\ MaxLoops \in Nat
  BY Bounds DEF IInv, Clocks, ClientDue
<1>2. Clocks'
  BY <1>1 DEF IInv, Clocks, ServerStamp
<1>3. clientLoops' \in Nat /\ clientLoops' >= clientLoops
      /\ serverLoops' \in Nat /\ serverLoops' >= serverLoops
  BY <1>1
<1>4. ASSUME NEW p \in packets', ~ p.leave
      PROVE  IsRequest(p)'
  <2>1. CASE p \in packets
    BY <1>3, <1>4, <2>1, StillSent DEF IInv
  <2>2. CASE p.frame = ClientStamp(clientLoops)
    <3>1. PICK i : i = clientLoops
      OBVIOUS
    <3>2. i \in 0 .. MaxLoops /\ i <= clientLoops' /\ i <= serverLoops'
      BY <1>1, <3>1
    <3>3. p.frame = ClientStamp(i)
      BY <2>2, <3>1
    <3>4. QED
      BY <3>2, <3>3 DEF IsRequest, ClientStamp
  <2>3. QED
    BY <1>4, <2>1, <2>2
<1>5. \A a \in accepts' : IsAnswer(a)'
  BY <1>3, StillSent DEF IInv
<1>6. QED
  BY <1>2, <1>4, <1>5

(* A step without an iteration of either loop.                             *)
LEMMA ClocksStand ==
  ASSUME IInv, UNCHANGED <<clientLoops, serverLoops, serverFrame>>,
         \A p \in packets' : p \in packets \/ p.leave,
         \A a \in accepts' : a \in accepts \/ IsAnswer(a)
  PROVE  /\ Clocks'
         /\ \A p \in packets' : ~ p.leave => IsRequest(p)'
         /\ \A a \in accepts' : IsAnswer(a)'
<1>1. clientLoops' \in Nat /\ clientLoops' >= clientLoops
      /\ serverLoops' \in Nat /\ serverLoops' >= serverLoops
  BY Bounds DEF IInv, Clocks
<1>2. Clocks'
  BY DEF IInv, Clocks, ServerStamp
<1>3. QED
  BY <1>1, <1>2, StillSent DEF IInv

-----------------------------------------------------------------------------

(* The client's clock after an iteration, while it keeps asking.           *)
LEMMA ClientTicks ==
  ASSUME IInv, ClientDue, state = "joining", NextLoop(clientFrame)
  PROVE  clientFrame' = ClientStamp(clientLoops')
<1>1. clientLoops \in 0 .. MaxLoops - 1 /\ clientLoops' = clientLoops + 1
  BY Bounds DEF IInv, Clocks, ClientDue, NextLoop
<1>2. clientFrame' = Plus(Plus(ClientStart, clientLoops), 1)
  BY DEF IInv, Joining, NextLoop, ClientStamp
<1>3. clientLoops + 1 < M /\ clientLoops \in Nat
  BY <1>1, Bounds
<1>4. Plus(Plus(ClientStart, clientLoops), 1) = Plus(ClientStart, clientLoops + 1)
  BY <1>3, Bounds, StampSum
<1>5. QED
  BY <1>1, <1>2, <1>4 DEF ClientStamp

LEMMA SendRequestStep ==
  ASSUME IInv, SendRequest
  PROVE  IInv'
<1>1. /\ ClientDue /\ state = "joining" /\ state' = "joining" /\ NextLoop(clientFrame)
      /\ tries' = tries - 1 /\ tries - 1 # 0
      /\ clientLoops' = clientLoops + 1
      /\ UNCHANGED <<serverFrame, serverLoops, accepts>>
  BY DEF SendRequest, NextLoop, serverVars
<1>2. \A p \in packets' : p \in packets \/ p.leave \/ p.frame = ClientStamp(clientLoops)
  BY <1>1 DEF SendRequest, Request, IInv, Joining
<1>3. /\ Clocks'
      /\ \A p \in packets' : ~ p.leave => IsRequest(p)'
      /\ \A a \in accepts' : IsAnswer(a)'
  BY <1>1, <1>2, ClientLoop
<1>4. Joining'
  <2>1. clientFrame' = ClientStamp(clientLoops')
    BY <1>1, ClientTicks
  <2>2. tries \in 1 .. Retries /\ tries' \in 1 .. Retries /\ clientLoops \in Nat
    BY <1>1, Bounds DEF IInv, Joining, Clocks
  <2>3. PICK q, n : q = Retries - tries /\ n = NetEvery
    OBVIOUS
  <2>4. q \in Nat /\ n \in Nat \ {0} /\ clientLoops <= q * n
    BY <1>1, <2>2, <2>3, Bounds DEF IInv, Joining
  <2>5. clientLoops + 1 <= (q + 1) * n
    BY <2>2, <2>4, NextMultiple
  <2>6. Retries - tries' = q + 1
    BY <1>1, <2>2, <2>3, Bounds
  <2>7. clientLoops' <= (Retries - tries') * NetEvery
    BY <1>1, <2>3, <2>5, <2>6
  <2>8. clientFrame' = Plus(ClientStart, clientLoops')
    BY <2>1 DEF ClientStamp
  <2>9. QED
    BY <2>2, <2>7, <2>8 DEF Joining, ClientStamp
<1>5. QED
  BY <1>3, <1>4 DEF IInv

(* The client has become something else than joining.                      *)
LEMMA NotJoining ==
  ASSUME IInv, state' # "joining", UNCHANGED tries
  PROVE  Joining'
BY DEF IInv, Joining

LEMMA EndsStep ==
  ASSUME IInv, GiveUp \/ Quit
  PROVE  IInv'
<1>1. /\ UNCHANGED <<clientLoops, serverLoops, serverFrame, accepts, tries>>
      /\ state' # "joining"
      /\ \A p \in packets' : p \in packets \/ p.leave
  BY DEF GiveUp, Quit, Ends, Request, serverVars
<1>2. QED
  BY <1>1, ClocksStand, NotJoining DEF IInv

LEMMA LeavesJoining ==
  ASSUME IInv, ClientDue, UNCHANGED <<tries, packets, accepts, serverVars>>,
         clientLoops' = clientLoops + 1, state' # "joining"
  PROVE  IInv'
<1>1. \A p \in packets' : p \in packets
  OBVIOUS
<1>2. UNCHANGED <<serverFrame, serverLoops, accepts>>
  BY DEF serverVars
<1>3. QED
  BY <1>1, <1>2, ClientLoop, NotJoining DEF IInv

LEMMA AcceptStep ==
  ASSUME IInv, NEW a \in accepts, Accept(a)
  PROVE  IInv'
BY LeavesJoining DEF Accept, NextLoop

LEMMA DeniedStep ==
  ASSUME IInv, Denied
  PROVE  IInv'
BY LeavesJoining DEF Denied, NextLoop

LEMMA ClientIdleStep ==
  ASSUME IInv, ClientIdle
  PROVE  IInv'
<1>1. /\ ClientDue /\ UNCHANGED <<state, tries, packets, accepts, serverVars>>
      /\ NextLoop(clientFrame) /\ clientLoops' = clientLoops + 1
  BY DEF ClientIdle, NextLoop
<1>2. CASE state # "joining"
  BY <1>1, <1>2, LeavesJoining
<1>3. CASE state = "joining"
  <2>1. clientLoops % NetEvery # 0
    BY <1>3 DEF ClientIdle, ClientNet
  <2>2. clientFrame' = ClientStamp(clientLoops')
    BY <1>1, <1>3, ClientTicks
  <2>3. tries \in 1 .. Retries /\ clientLoops \in Nat
    BY Bounds DEF IInv, Joining, Clocks
  <2>4. PICK q, n : q = Retries - tries /\ n = NetEvery
    OBVIOUS
  <2>5. q \in Nat /\ n \in Nat \ {0} /\ clientLoops <= q * n /\ clientLoops % n # 0
    BY <1>3, <2>1, <2>3, <2>4, Bounds DEF IInv, Joining
  <2>6. clientLoops + 1 <= q * n
    BY <2>3, <2>5, NextMultiple
  <2>7. clientFrame' = Plus(ClientStart, clientLoops')
    BY <2>2 DEF ClientStamp
  <2>8. tries' \in 1 .. Retries /\ clientLoops' <= (Retries - tries') * NetEvery
    BY <1>1, <2>3, <2>4, <2>6
  <2>9. Joining'
    BY <2>7, <2>8 DEF Joining, ClientStamp
  <2>10. \A p \in packets' : p \in packets
    BY <1>1
  <2>11. UNCHANGED <<serverFrame, serverLoops, accepts>>
    BY <1>1 DEF serverVars
  <2>12. QED
    BY <1>1, <2>9, <2>10, <2>11, ClientLoop DEF IInv
<1>4. QED
  BY <1>2, <1>3

(* The server answers with its frame number of that moment.                *)
LEMMA ServerRecvStep ==
  ASSUME IInv, NEW p \in packets, ServerRecv(p)
  PROVE  IInv'
<1>1. UNCHANGED <<clientVars, packets, serverFrame, serverLoops>>
  BY DEF ServerRecv
<1>2. accepts' = accepts \/ (~ p.leave /\ Answer(p))
  BY DEF ServerRecv, ServerJoin, ServerLeave
<1>3. ~ p.leave => IsAnswer([client |-> p.frame, server |-> serverFrame])
  <2>1. SUFFICES ASSUME ~ p.leave
                 PROVE  IsAnswer([client |-> p.frame, server |-> serverFrame])
    OBVIOUS
  <2>2. PICK i \in 0 .. MaxLoops : /\ i <= clientLoops /\ i <= serverLoops
                                   /\ p.frame = ClientStamp(i)
    BY <2>1 DEF IInv, IsRequest
  <2>3. PICK j : j = serverLoops
    OBVIOUS
  <2>4. j \in 0 .. MaxLoops /\ serverFrame = ServerStamp(j) /\ i <= j /\ j <= serverLoops
    BY <2>2, <2>3, Bounds DEF IInv, Clocks
  <2>5. QED
    BY <2>2, <2>4 DEF IsAnswer
<1>4. \A a \in accepts' : a \in accepts \/ IsAnswer(a)
  BY <1>2, <1>3 DEF Answer
<1>5. UNCHANGED <<clientLoops, serverLoops, serverFrame>> /\ Joining'
  BY <1>1 DEF clientVars, IInv, Joining, ClientStamp
<1>6. QED
  BY <1>1, <1>4, <1>5, ClocksStand DEF IInv

LEMMA ServerLoopStep ==
  ASSUME IInv, ServerLoop
  PROVE  IInv'
<1>1. /\ UNCHANGED <<clientVars, packets, accepts>> /\ serverLoops' = serverLoops + 1
      /\ serverFrame' = Plus(serverFrame, 1)
      /\ clientLoops' = clientLoops /\ serverLoops <= clientLoops
      /\ clientLoops \in 0 .. MaxLoops /\ serverLoops \in 0 .. MaxLoops - 1
      /\ clientLoops <= serverLoops + 1
      /\ serverFrame = Plus(ServerStart, serverLoops)
  BY Bounds DEF ServerLoop, ServerDue, clientVars, IInv, Clocks, ServerStamp
<1>2. serverFrame' = Plus(ServerStart, serverLoops')
  <2>1. serverLoops \in Nat /\ serverLoops + 1 < M
    BY <1>1, Bounds
  <2>2. Plus(Plus(ServerStart, serverLoops), 1) = Plus(ServerStart, serverLoops + 1)
    BY <2>1, Bounds, StampSum
  <2>3. QED
    BY <1>1, <2>2
<1>3. Clocks'
  <2>1. /\ serverLoops' \in 0 .. MaxLoops /\ clientLoops' \in 0 .. MaxLoops
        /\ clientLoops' <= serverLoops' + 1 /\ serverLoops' <= clientLoops' + 1
    BY <1>1, Bounds
  <2>2. QED
    BY <1>2, <2>1 DEF Clocks, ServerStamp
<1>4. clientLoops' \in Nat /\ clientLoops' >= clientLoops
      /\ serverLoops' \in Nat /\ serverLoops' >= serverLoops
  BY <1>1, Bounds
<1>5. Joining'
  BY <1>1 DEF clientVars, IInv, Joining, ClientStamp
<1>6. QED
  BY <1>1, <1>3, <1>4, <1>5, StillSent DEF IInv

LEMMA ServerElseStep ==
  ASSUME IInv, Forget \/ OthersChange
  PROVE  IInv'
<1>1. UNCHANGED <<clientVars, packets, accepts, serverFrame, serverLoops>>
  BY DEF Forget, OthersChange
<1>2. UNCHANGED <<clientLoops, serverLoops, serverFrame>> /\ Joining'
  BY <1>1 DEF clientVars, IInv, Joining, ClientStamp
<1>3. QED
  BY <1>1, <1>2, ClocksStand DEF IInv

-----------------------------------------------------------------------------

(* In the frame of the acceptance, before its loop goes on: what was sent  *)
(* in loop i was answered in loop j of the server.                         *)
LEMMA Accepted ==
  ASSUME IInv, NEW a \in accepts, Accept(a)
  PROVE  \E i, j \in Nat :
           /\ i <= j /\ j <= serverLoops /\ i <= clientLoops
           /\ a.server = ServerStamp(j)
           /\ RoundTrip(a) = clientLoops - i
<1>1. state = "joining"
  BY DEF Accept
<1>2. PICK i, j \in 0 .. MaxLoops :
             /\ i <= clientLoops /\ i <= j /\ j <= serverLoops
             /\ a.client = ClientStamp(i) /\ a.server = ServerStamp(j)
  BY DEF IInv, IsAnswer
<1>3. /\ clientLoops \in Nat /\ clientLoops <= MaxLoops
      /\ clientFrame = ClientStamp(clientLoops)
  BY <1>1, Bounds DEF IInv, Clocks, Joining
<1>4. i \in Nat /\ j \in Nat /\ i < M /\ clientLoops < M
  BY <1>2, <1>3, Bounds
<1>5. Ahead(Plus(ClientStart, clientLoops), Plus(ClientStart, i)) = clientLoops - i
  BY <1>2, <1>3, <1>4, Bounds, StampDistance
<1>6. RoundTrip(a) = clientLoops - i
  BY <1>2, <1>3, <1>5 DEF RoundTrip, ClientStamp
<1>7. QED
  BY <1>2, <1>4, <1>6

LEMMA AcceptIsAhead ==
  ASSUME IInv, NEW a \in accepts, Accept(a), state' = "connected"
  PROVE  sub_wrap(clientFrame', serverFrame) \in Buffer .. Buffer + Retries * NetEvery + 1
<1>1. PICK i, j \in Nat :
             /\ i <= j /\ j <= serverLoops /\ i <= clientLoops
             /\ a.server = ServerStamp(j)
             /\ RoundTrip(a) = clientLoops - i
  BY Accepted
<1>2. /\ clientLoops \in 0 .. MaxLoops - 1 /\ serverLoops \in 0 .. MaxLoops
      /\ clientLoops <= serverLoops /\ serverLoops <= clientLoops + 1
      /\ serverFrame = Plus(ServerStart, serverLoops)
      /\ clientLoops <= (Retries - tries) * NetEvery /\ tries \in 1 .. Retries
  BY Bounds DEF Accept, IInv, Clocks, Joining, ClientDue, ServerStamp
<1>3. clientFrame' = Plus(Plus(a.server, RoundTrip(a) + Buffer), 1)
  BY DEF Accept, NextLoop
<1>4. PICK n, m : n = clientLoops - i + Buffer /\ m = serverLoops
  OBVIOUS
<1>5. n \in Nat /\ m \in Nat /\ j + n + 1 < M /\ j + n + 1 \in Nat /\ m < M
  BY <1>1, <1>2, <1>4, Bounds
<1>6. clientFrame' = Plus(ServerStart, j + n + 1)
  <2>1. Plus(Plus(ServerStart, j), n) = Plus(ServerStart, j + n)
    BY <1>5, Bounds, StampSum
  <2>2. Plus(Plus(ServerStart, j + n), 1) = Plus(ServerStart, j + n + 1)
    BY <1>5, Bounds, StampSum
  <2>3. clientFrame' = Plus(Plus(Plus(ServerStart, j), n), 1)
    BY <1>1, <1>3, <1>4 DEF ServerStamp
  <2>4. QED
    BY <2>1, <2>2, <2>3
<1>7. (j + n + 1) - m \in Buffer .. Buffer + clientLoops + 1
  BY <1>1, <1>2, <1>4, <1>5, Bounds
<1>8. (j + n + 1) - m < H /\ m - (j + n + 1) < H
  BY <1>2, <1>5, <1>7, Bounds
<1>9. PICK k : k = j + n + 1
  OBVIOUS
<1>10. sub_wrap(Plus(ServerStart, k), Plus(ServerStart, m)) = k - m
  <2>1. k \in Nat /\ m \in Nat /\ k < M /\ m < M /\ k - m < H /\ m - k < H
    BY <1>5, <1>8, <1>9
  <2>2. QED
    BY <2>1, Bounds, StampDistance
<1>11. clientLoops <= Retries * NetEvery /\ Retries * NetEvery \in Nat
  <2>1. PICK r, t, e : r = Retries /\ t = tries /\ e = NetEvery
    OBVIOUS
  <2>2. r \in Nat /\ t \in Nat /\ t <= r /\ e \in Nat
    BY <1>2, <2>1, Bounds
  <2>3. (r - t) * e <= r * e /\ r * e \in Nat /\ (r - t) * e \in Nat
    BY <2>2, SMT
  <2>4. QED
    BY <1>2, <2>1, <2>3
<1>12. QED
  BY <1>2, <1>4, <1>6, <1>7, <1>9, <1>10, <1>11, Bounds

LEMMA Steps ==
  ASSUME IInv, [Next]_vars
  PROVE  IInv'
<1>1. CASE SendRequest
  BY <1>1, SendRequestStep
<1>2. CASE GiveUp \/ Quit
  BY <1>2, EndsStep
<1>3. ASSUME NEW a \in accepts, Accept(a)
      PROVE  IInv'
  BY <1>3, AcceptStep
<1>4. CASE Denied
  BY <1>4, DeniedStep
<1>5. CASE ClientIdle
  BY <1>5, ClientIdleStep
<1>6. CASE ServerLoop
  BY <1>6, ServerLoopStep
<1>7. ASSUME NEW p \in packets, ServerRecv(p)
      PROVE  IInv'
  BY <1>7, ServerRecvStep
<1>8. CASE Forget \/ OthersChange
  BY <1>8, ServerElseStep
<1>9. CASE UNCHANGED vars
  <2>1. UNCHANGED <<clientLoops, serverLoops, serverFrame, packets, accepts>> /\ Joining'
    BY <1>9 DEF vars, clientVars, serverVars, IInv, Joining, ClientStamp
  <2>2. QED
    BY <2>1, ClocksStand DEF IInv
<1>10. QED
  BY <1>1, <1>2, <1>3, <1>4, <1>5, <1>6, <1>7, <1>8, <1>9 DEF Next, ClientStep, ServerStep

THEOREM Invariance == Spec => []IInv
<1>1. Init => IInv
  <2>1. SUFFICES ASSUME Init
                 PROVE  IInv
    OBVIOUS
  <2>2. Plus(ClientStart, 0) = ClientStart /\ Plus(ServerStart, 0) = ServerStart
    BY Bounds, SMT DEF Plus, Frames
  <2>3. Clocks
    BY <2>1, <2>2, Bounds DEF Init, Clocks, ServerStamp
  <2>4. Joining
    <3>1. PICK n : n = NetEvery
      OBVIOUS
    <3>2. (Retries - tries) * n = 0
      BY <2>1, <3>1, Bounds DEF Init
    <3>3. QED
      BY <2>1, <2>2, <3>1, <3>2, Bounds DEF Init, Joining, ClientStamp
  <2>5. QED
    BY <2>1, <2>3, <2>4 DEF Init, IInv
<1>2. IInv /\ [Next]_vars => IInv'
  BY Steps
<1>3. QED
  BY <1>1, <1>2, PTL DEF Spec

(* A player who is let in starts ahead of the server by at least the       *)
(* buffer (client.c:309-314), so that its first commands come in time, and *)
(* by no more than the repetitions of its request can last: however long   *)
(* request and acceptance were under way, whichever request was answered,  *)
(* for all rates and any number of repetitions.                            *)
THEOREM JoinsAhead == Spec => StartsAhead
<1>1. ASSUME IInv, [Next]_vars, state = "joining", state' = "connected"
      PROVE  sub_wrap(clientFrame', serverFrame)
               \in Buffer .. Buffer + Retries * NetEvery + 1
  <2>1. PICK a \in accepts : Accept(a)
    BY <1>1 DEF Next, ClientStep, ServerStep, SendRequest, GiveUp, Quit, Ends, Denied,
                ClientIdle, ServerLoop, ServerRecv, Forget, OthersChange, vars, clientVars
  <2>2. QED
    BY <1>1, <2>1, AcceptIsAhead
<1>2. IInv /\ [Next]_vars =>
        [state = "joining" /\ state' = "connected" =>
           sub_wrap(clientFrame', serverFrame)
             \in Buffer .. Buffer + Retries * NetEvery + 1]_vars
  BY <1>1
<1>3. QED
  BY <1>2, Invariance, PTL DEF Spec, StartsAhead

(* The client leaves only a server that denied it, as long as all of its   *)
(* repetitions but the last fit a plausible round trip (client.c:287-300): *)
(* the budget of msg.c:37 is used up before the check can ever fail.  With *)
(* the rates of the game, 60 and 20 per second, that is 27 of 100 frames.  *)
THEOREM NeverTurnedAway ==
  ASSUME (Retries - 1) * NetEvery <= Patience
  PROVE  Spec => []NeverImplausible
<1>1. ASSUME IInv, NEW a \in accepts, Accept(a)
      PROVE  ~ (RoundTrip(a) > Patience)
  <2>1. PICK i \in Nat : i <= clientLoops /\ RoundTrip(a) = clientLoops - i
    BY <1>1, Accepted
  <2>2. clientLoops \in Nat /\ clientLoops <= (Retries - tries) * NetEvery
        /\ tries \in 1 .. Retries
    BY <1>1, Bounds DEF Accept, IInv, Clocks, Joining
  <2>3. PICK r, t, e : r = Retries /\ t = tries /\ e = NetEvery
    OBVIOUS
  <2>4. r \in Nat /\ t \in Nat \ {0} /\ t <= r /\ e \in Nat
    BY <2>2, <2>3, Bounds
  <2>5. (r - t) * e <= (r - 1) * e /\ (r - 1) * e \in Nat /\ (r - t) * e \in Nat
    BY <2>4, SMT
  <2>6. Patience \in Nat
    BY JoinAssumption DEF Patience
  <2>7. clientLoops <= Patience
    BY <2>2, <2>3, <2>5, <2>6
  <2>8. QED
    BY <2>1, <2>2, <2>6, <2>7
<1>2. Init => NeverImplausible
  BY DEF Init, NeverImplausible
<1>3. IInv /\ NeverImplausible /\ [Next]_vars => NeverImplausible'
  <2>1. SUFFICES ASSUME IInv, NeverImplausible, [Next]_vars, state' = "disconnected"
                 PROVE  denials'
    BY DEF NeverImplausible
  <2>2. ASSUME NEW a \in accepts, Accept(a)
        PROVE  FALSE
    BY <1>1, <2>1, <2>2 DEF Accept
  <2>3. denials => denials'
    BY <2>1, <2>2 DEF Next, ClientStep, ServerStep, SendRequest, GiveUp, Quit, Ends, Denied,
                ClientIdle, ServerLoop, ServerRecv, ServerJoin, ServerLeave, Forget,
                OthersChange, vars
  <2>4. state = "disconnected" \/ denials
    BY <2>1, <2>2 DEF Next, ClientStep, ServerStep, SendRequest, GiveUp, Quit, Ends, Denied,
                ClientIdle, ServerLoop, ServerRecv, Forget, OthersChange, vars, clientVars
  <2>5. QED
    BY <2>1, <2>3, <2>4 DEF NeverImplausible
<1>4. QED
  BY <1>2, <1>3, Invariance, PTL DEF Spec

=============================================================================
