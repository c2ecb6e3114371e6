------------------------------- MODULE Server -------------------------------
(***************************************************************************)
(* The server's registry of players (src/src/server.c) as driven by the    *)
(* loop of server_instance_run(): who is registered, which snake is whose, *)
(* who is on the malicious list, what reliable messages each player still  *)
(* has to acknowledge, and when players are dropped.                       *)
(*                                                                         *)
(* The loop is sequential; what interleaves are the packets of the         *)
(* players.  One round of the model is one network update: timers,         *)
(* packets, simulation, then the messages for the players.                 *)
(*                                                                         *)
(* Where the code reads a snake or a record that does not exist (a NULL    *)
(* pointer, or a failed CLITHER_DEBUG_ASSERT) the server stops: stage      *)
(* "crashed".                                                              *)
(***************************************************************************)
EXTENDS Integers, FiniteSets, Functions

CONSTANTS Addr,             \* addresses of players
          NetRate,          \* settings->net_tick_rate: rounds per second
          ClientTimeout,    \* settings->client_timeout
          MaliciousTimeout, \* settings->malicious_timeout
          Retries,          \* resend_retry_counter of a new message (10)
          BezierPeriod,     \* resend_period of MSG_SNAKE_BEZIER (1)
          DestroyPeriod,    \* resend_period of MSG_SNAKE_DESTROY (10)
          MayMeet,          \* whether snakes come near each other
          MaxListed         \* bound on the counters of the malicious list

ASSUME ServerAssumption ==
  /\ IsFiniteSet(Addr)
  /\ {NetRate, ClientTimeout, MaliciousTimeout, Retries,
      BezierPeriod, DestroyPeriod, MaxListed} \subseteq Nat \ {0}
  /\ BezierPeriod <= DestroyPeriod
  /\ MaliciousTimeout <= MaxListed
  /\ MayMeet \in BOOLEAN

VARIABLES
  stage,      \* what the loop is about to do
  clients,    \* server.clients: the record of each registered address
  snakes,     \* world.snakes: whether each snake is held, and has commands
  malicious,  \* server.malicious_clients
  maxPlayers, \* settings->max_players
  gone        \* players whose process has ended: they send nothing more

vars == <<stage, clients, snakes, malicious, maxPlayers, gone>>

Limit == ClientTimeout * NetRate

SnakeIds == 1 .. Cardinality(Addr)

(* A reliable message in pending_msgs: wait is resend_period_counter,      *)
(* tries is resend_retry_counter.  Messages that were queued together      *)
(* fare alike and are represented by one.                                  *)
Reliables == [kind : {"bezier", "destroy"}, of : SnakeIds,
              wait : 1 .. DestroyPeriod, tries : 1 .. Retries]

Period(kind) == IF kind = "bezier" THEN BezierPeriod ELSE DestroyPeriod

Reliable(kind, id) == [kind |-> kind, of |-> id, wait |-> 1, tries |-> Retries]

(* silent is a history variable: the rounds begun since the last packet.   *)
ClientRecords == [snake    : SnakeIds,
                  timeout  : 0 .. Limit + 1,     \* timeout_counter
                  silent   : 0 .. Limit + 1,
                  near     : SUBSET SnakeIds,    \* snakes_in_proximity
                  reliable : SUBSET Reliables,   \* pending_msgs
                  replies  : BOOLEAN]            \* has unreliable ones

NewClient(id) == [snake |-> id, timeout |-> 0, silent |-> 0, near |-> {},
                  reliable |-> {}, replies |-> FALSE]

Registered == DOMAIN clients

With(f, x, v) == [y \in DOMAIN f \cup {x} |-> IF y = x THEN v ELSE f[y]]

Without(f, S) == Restrict(f, DOMAIN f \ S)

HasSnake(a) == clients[a].snake \in DOMAIN snakes

(* The snake left behind.                                                  *)
RemoveRecord(S) == clients' = Without(clients, S) /\ UNCHANGED snakes

(* client_remove(): the record goes, with the snake it names.              *)
Remove(S) == /\ clients' = Without(clients, S)
             /\ snakes' = Without(snakes, {clients[a].snake : a \in S})

Crash == stage' = "crashed" /\ UNCHANGED <<clients, snakes, malicious, gone, maxPlayers>>

-----------------------------------------------------------------------------

Init == /\ stage = "timers"
        /\ clients = << >>
        /\ snakes = << >>
        /\ malicious = << >>
        /\ maxPlayers \in 1 .. Cardinality(Addr)
        /\ gone = {}

(* The beginning of server_recv().  On the malicious list, left counts     *)
(* down; rounds, like silent, is a history variable, counted as far as it  *)
(* matters.                                                                *)
Listing == MaliciousTimeout * NetRate

Count(n, cap) == IF n < cap THEN n + 1 ELSE n

(* Compared before it is incremented.                                      *)
TimedOutLate == {a \in Registered : clients[a].timeout > Limit}

TimedOut == {a \in Registered : clients[a].timeout + 1 > Limit}

Forgiven == {a \in DOMAIN malicious : malicious[a].left - 1 <= 0}

(* Without timeout_counter++.                                              *)
TimersUncounted ==
  /\ stage = "timers"
  /\ clients' = [a \in Registered \ TimedOut |->
                   [clients[a] EXCEPT !.silent = Count(@, Limit + 1)]]
  /\ snakes' = Without(snakes, {clients[a].snake : a \in TimedOut})
  /\ malicious' = [a \in DOMAIN malicious \ Forgiven |->
                     [malicious[a] EXCEPT !.left = @ - 1]]
  /\ stage' = "recv"
  /\ UNCHANGED <<gone, maxPlayers>>

(* Without the countdown.                                                  *)
TimersKeepListed ==
  /\ stage = "timers"
  /\ clients' = [a \in Registered \ TimedOut |->
                   [clients[a] EXCEPT !.timeout = @ + 1,
                                      !.silent = Count(@, Limit + 1)]]
  /\ snakes' = Without(snakes, {clients[a].snake : a \in TimedOut})
  /\ malicious' = Without(malicious, Forgiven)
  /\ stage' = "recv"
  /\ UNCHANGED <<gone, maxPlayers>>

Timers ==
  /\ stage = "timers"
  /\ clients' = [a \in Registered \ TimedOut |->
                   [clients[a] EXCEPT !.timeout = @ + 1,
                                      !.silent = Count(@, Limit + 1)]]
  /\ snakes' = Without(snakes, {clients[a].snake : a \in TimedOut})
  /\ malicious' = [a \in DOMAIN malicious \ Forgiven |->
                     [malicious[a] EXCEPT !.left = @ - 1, !.rounds = Count(@, Listing)]]
  /\ stage' = "recv"
  /\ UNCHANGED <<gone, maxPlayers>>

(* A packet from a is looked at: not one of a malicious player.            *)
Receives(a) == stage = "recv" /\ a \notin gone /\ a \notin DOMAIN malicious

(* The counter not reset.                                                  *)
HeardNothing(a) == [clients[a] EXCEPT !.silent = 0]

Heard(a) == [clients[a] EXCEPT !.timeout = 0, !.silent = 0]

(* A packet from a malicious player makes the time it stays listed longer. *)
PacketIgnored(a) ==
  /\ stage = "recv" /\ a \notin gone /\ a \in DOMAIN malicious
  /\ malicious[a].left + Listing <= MaxListed
  /\ malicious' = [malicious EXCEPT ![a].left = @ + Listing]
  /\ UNCHANGED <<stage, clients, snakes, gone, maxPlayers>>

(* The id world_spawn_snake() picks: its loop over the snakes compares two *)
(* counters that advance together.                                         *)
SpawnId == Cardinality(DOMAIN snakes) + 1

(* The player who is about to join not counted.                            *)
FullOneLate == Cardinality(Registered) > maxPlayers

Full == Cardinality(Registered) + 1 > maxPlayers

(* MSG_JOIN_REQUEST, denied because the server is full or the name is too  *)
(* long.  The denial is sent at once; it leaves no trace.                  *)
JoinDenied(a, longName) ==
  /\ Receives(a)
  /\ Full \/ longName
  /\ clients' = IF a \in Registered THEN With(clients, a, Heard(a)) ELSE clients
  /\ UNCHANGED <<stage, snakes, malicious, gone, maxPlayers>>

(* The new snake is held; when its id is taken, the snake that has it is.  *)
JoinAccepted(a) ==
  /\ Receives(a) /\ ~ Full /\ a \notin Registered
  /\ clients' = With(clients, a, [NewClient(SpawnId) EXCEPT !.replies = TRUE])
  /\ snakes' = With(snakes, SpawnId,
                    [held |-> TRUE,
                     commanded |-> SpawnId \in DOMAIN snakes
                                   /\ snakes[SpawnId].commanded])
  /\ UNCHANGED <<stage, malicious, gone, maxPlayers>>

JoinRepeated(a) ==
  /\ Receives(a) /\ ~ Full /\ a \in Registered
  /\ IF HasSnake(a)
     THEN /\ clients' = With(clients, a, [Heard(a) EXCEPT !.replies = TRUE])
          /\ UNCHANGED <<stage, snakes, malicious, gone, maxPlayers>>
     ELSE Crash

(* MSG_COMMANDS; the commands are put in the snake's queue, and the player *)
(* may be told to run faster or slower.                                    *)
Commands(a, feedback) ==
  /\ Receives(a) /\ a \in Registered
  /\ IF HasSnake(a)
     THEN /\ clients' = With(clients, a, [Heard(a) EXCEPT !.replies = @ \/ feedback])
          /\ snakes' = [snakes EXCEPT ![clients[a].snake].commanded = TRUE]
          /\ UNCHANGED <<stage, malicious, gone, maxPlayers>>
     ELSE Crash

(* MSG_LEAVE.  The player may come back later.                             *)
Leave(a) ==
  /\ Receives(a) /\ a \in Registered
  /\ Remove({a})
  /\ UNCHANGED <<stage, malicious, gone, maxPlayers>>

(* The player listed, but not dropped.                                     *)
MisbehaveListed(a) ==
  /\ Receives(a)
  /\ IF a \in Registered
     THEN /\ malicious' = With(malicious, a, [left |-> MaliciousTimeout, rounds |-> 0])
          /\ UNCHANGED <<stage, clients, snakes, gone, maxPlayers>>
     ELSE Crash

(* A message no player sends: mark_client_as_malicious_and_drop().  When   *)
(* its length is wrong, or it is a join request that is, nobody has looked *)
(* whether the sender is registered, and client_remove() is given NULL.    *)
Misbehave(a) ==
  /\ Receives(a)
  /\ IF a \in Registered
     THEN /\ Remove({a})
          /\ malicious' = With(malicious, a, [left |-> MaliciousTimeout, rounds |-> 0])
          /\ UNCHANGED <<stage, gone, maxPlayers>>
     ELSE Crash

Packet(a) == \/ PacketIgnored(a)
             \/ \E longName \in BOOLEAN : JoinDenied(a, longName)
             \/ JoinAccepted(a) \/ JoinRepeated(a)
             \/ \E feedback \in BOOLEAN : Commands(a, feedback)
             \/ Leave(a) \/ Misbehave(a)

(* No packet is left in the socket.                                        *)
EndRecv == /\ stage = "recv" /\ stage' = "sim"
           /\ UNCHANGED <<clients, snakes, malicious, gone, maxPlayers>>

(* Frames are simulated.  A snake with commands is let go when the first   *)
(* one is due.                                                             *)
Sim == /\ stage = "sim"
       /\ \E due \in SUBSET {i \in DOMAIN snakes : snakes[i].commanded} :
            snakes' = [i \in DOMAIN snakes |->
                         IF i \in due THEN [snakes[i] EXCEPT !.held = FALSE]
                         ELSE snakes[i]]
       /\ stage' = "range"
       /\ UNCHANGED <<clients, malicious, gone, maxPlayers>>

(* server_update_snakes_in_range().  A snake that comes near is described  *)
(* by reliable messages, for one that leaves there is another.             *)
Others(a) == {clients[b].snake : b \in Registered \ {a}}

Meeting(a, inRange) ==
  LET arrived  == (Others(a) \cap inRange) \ clients[a].near
      departed == (Others(a) \ inRange) \cap clients[a].near
  IN  [clients[a] EXCEPT
         !.near = (@ \cup arrived) \ departed,
         !.reliable = @ \cup {Reliable("bezier", id) : id \in arrived}
                        \cup {Reliable("destroy", id) : id \in departed}]

UpdateSnakesInRange ==
  /\ stage = "range"
  /\ IF Cardinality(Registered) > 1 /\ \E a \in Registered : ~ HasSnake(a)
     THEN Crash
     ELSE /\ \E inRange \in [Registered -> IF MayMeet THEN SUBSET SnakeIds ELSE {{}}] :
               clients' = [a \in Registered |-> Meeting(a, inRange[a])]
          /\ stage' = "queue"
          /\ UNCHANGED <<snakes, malicious, gone, maxPlayers>>

(* server_queue_snake_data(): its assertions, and the head of each snake   *)
(* that is not held.                                                       *)
QueueSnakeData ==
  /\ stage = "queue"
  /\ IF \A a \in Registered : HasSnake(a) /\ clients[a].near \subseteq DOMAIN snakes
     THEN /\ clients' = [a \in Registered |->
                           [clients[a] EXCEPT
                              !.replies = @ \/ ~ snakes[clients[a].snake].held]]
          /\ stage' = "send"
          /\ UNCHANGED <<snakes, malicious, gone, maxPlayers>>
     ELSE Crash

(* server_send_pending_data().  A message whose last try is used up is not *)
(* sent any more, and its receiver is dropped.                             *)
Due(r) == r.wait - 1 <= 0

Resent(r) == IF Due(r) THEN [r EXCEPT !.wait = Period(r.kind), !.tries = @ - 1]
             ELSE [r EXCEPT !.wait = @ - 1]

Exhausted == {a \in Registered : \E r \in clients[a].reliable : Resent(r).tries = 0}

Sent(c) == [c EXCEPT !.reliable = {Resent(r) : r \in @},
                     !.replies = FALSE,
                     !.timeout = IF c.replies \/ \E r \in c.reliable : Due(r)
                                 THEN @ + 1 ELSE @]

SendPendingData ==
  /\ stage = "send"
  /\ clients' = [a \in Registered \ Exhausted |-> Sent(clients[a])]
  /\ snakes' = Without(snakes, {clients[a].snake : a \in Exhausted})
  /\ stage' = "timers"
  /\ UNCHANGED <<malicious, gone, maxPlayers>>

(* A player's process ends without a word.                                 *)
Vanish(a) == /\ a \notin gone
             /\ gone' = gone \cup {a}
             /\ UNCHANGED <<stage, clients, snakes, malicious, maxPlayers>>

(* After a crash nothing happens any more.                                 *)
Loop == Timers \/ EndRecv \/ Sim \/ UpdateSnakesInRange \/ QueueSnakeData
          \/ SendPendingData

Next == Loop \/ \E a \in Addr : Packet(a) \/ Vanish(a)

(* The loop is not held up by anything but packets: the sockets do not     *)
(* block, and it turns to the simulation when they are empty.              *)
Spec == Init /\ [][Next]_vars /\ WF_vars(Loop)

-----------------------------------------------------------------------------

TypeOK ==
  /\ stage \in {"timers", "recv", "sim", "range", "queue", "send", "crashed"}
  /\ Registered \subseteq Addr
  /\ clients \in [Registered -> ClientRecords]
  /\ DOMAIN snakes \subseteq SnakeIds
  /\ snakes \in [DOMAIN snakes -> [held : BOOLEAN, commanded : BOOLEAN]]
  /\ DOMAIN malicious \subseteq Addr
  /\ malicious \in [DOMAIN malicious -> [left : 1 .. MaxListed, rounds : 0 .. Listing]]
  /\ maxPlayers \in 1 .. Cardinality(Addr)
  /\ gone \subseteq Addr

(* Snakes are removed with their players, however those are dropped: five  *)
(* places do it.  A snake without a player would be stepped forever.       *)
NoOrphans == \A i \in DOMAIN snakes : \E a \in Registered : clients[a].snake = i

(* A listed player is not registered and can not become so: packets are    *)
(* filtered before they are dispatched, and listing drops the player.      *)
ListedAreOut == DOMAIN malicious \cap Registered = {}

(* max_players is not exceeded, and neither are the ids of snakes.         *)
WithinCapacity == /\ Cardinality(Registered) <= maxPlayers
                  /\ \A a \in Registered : clients[a].snake <= maxPlayers

(* A player who keeps sending is not timed out: the counter advances in    *)
(* two places, and at worst twice as fast as rounds do.                    *)
OnlySilentTimeOut ==
  [][stage = "timers" =>
       \A a \in Registered \ DOMAIN clients' : 2 * (clients[a].silent + 1) > Limit]_vars

(* A player that has vanished is forgotten, with its snake, or the server  *)
(* is no more.                                                             *)
VanishedAreForgotten ==
  \A a \in Addr : (a \in gone) ~> (a \notin Registered \/ stage = "crashed")

(* A listed player that stays away is forgiven.                            *)
ListedAreForgiven ==
  \A a \in Addr : (a \in gone) ~> (a \notin DOMAIN malicious \/ stage = "crashed")

-----------------------------------------------------------------------------
(* What the repository says of the server, and the model refutes: see the  *)
(* README.  Only the first has a run.                                      *)

(* server.c:307: the snake of each registered player exists.               *)
OwnSnakeExists == stage = "queue" => \A a \in Registered : HasSnake(a)

(* server.c:324: a snake recorded as near exists.                          *)
NearSnakesExist ==
  stage = "queue" => \A a \in Registered : clients[a].near \subseteq DOMAIN snakes

(* server.c:266: bezier messages "remain in the server's message queue     *)
(* until they get ACK'd by the client".                                    *)
BeziersStayQueued ==
  [][stage = "send" => \A a \in Registered :
       (\E r \in clients[a].reliable : r.kind = "bezier") => a \in DOMAIN clients']_vars

(* server_settings.c:367: client_timeout is "How many seconds to wait for a*)
(* client before disconnecting them".                                      *)
TimeoutIsInSeconds ==
  [][stage = "timers" =>
       \A a \in Registered \ DOMAIN clients' : clients[a].silent + 1 > Limit]_vars

(* server_settings.c:368: malicious_timeout is "How many seconds to keep a *)
(* client on the malicious list".                                          *)
ListingIsInSeconds ==
  [][\A a \in DOMAIN malicious \ DOMAIN malicious' :
       malicious[a].rounds + 1 >= Listing]_vars

=============================================================================
