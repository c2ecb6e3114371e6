----------------------------- MODULE ServerProofs -----------------------------
(***************************************************************************)
(* The registry of players is sound for any number of players and any      *)
(* settings: players and snakes correspond, capacity is kept, those who    *)
(* are listed are out, and only players who were silent time out.          *)
(***************************************************************************)
EXTENDS Server, FiniteSetTheorems, TLAPS

(* The counter of a timeout advances at most twice in a round, and not     *)
(* without the round being counted as silent.                              *)
Silence ==
  \A a \in Registered :
    IF stage = "timers"
    THEN clients[a].timeout <= 2 * clients[a].silent + 1
    ELSE clients[a].timeout <= 2 * clients[a].silent /\ clients[a].timeout <= Limit

IInv == TypeOK /\ NoOrphans /\ ListedAreOut /\ WithinCapacity /\ Silence

-----------------------------------------------------------------------------
(* Facts about the constants and the records.                              *)

LEMMA Constants ==
  /\ NetRate \in Nat \ {0} /\ ClientTimeout \in Nat \ {0}
  /\ MaliciousTimeout \in Nat \ {0} /\ MaxListed \in Nat \ {0}
  /\ Retries \in Nat \ {0}
  /\ BezierPeriod \in Nat \ {0} /\ DestroyPeriod \in Nat \ {0}
  /\ BezierPeriod <= DestroyPeriod /\ MaliciousTimeout <= MaxListed
  /\ Limit \in Nat /\ Listing \in Nat
  /\ Cardinality(Addr) \in Nat /\ IsFiniteSet(Addr)
<1>1. /\ NetRate \in Nat \ {0} /\ ClientTimeout \in Nat \ {0}
      /\ MaliciousTimeout \in Nat \ {0} /\ MaxListed \in Nat \ {0}
      /\ Retries \in Nat \ {0}
      /\ BezierPeriod \in Nat \ {0} /\ DestroyPeriod \in Nat \ {0}
      /\ BezierPeriod <= DestroyPeriod /\ MaliciousTimeout <= MaxListed
      /\ IsFiniteSet(Addr)
  BY ServerAssumption
<1>2. Limit \in Nat /\ Listing \in Nat
  BY <1>1 DEF Limit, Listing
<1>3. Cardinality(Addr) \in Nat
  BY <1>1, FS_CardinalityType
<1>4. QED
  BY <1>1, <1>2, <1>3

(* What a record holds.                                                    *)
LEMMA Record ==
  ASSUME NEW c \in ClientRecords
  PROVE  /\ c = [snake |-> c.snake, timeout |-> c.timeout, silent |-> c.silent,
                 near |-> c.near, reliable |-> c.reliable, replies |-> c.replies]
         /\ c.snake \in SnakeIds
         /\ c.timeout \in 0 .. Limit + 1 /\ c.silent \in 0 .. Limit + 1
         /\ c.near \subseteq SnakeIds /\ c.reliable \subseteq Reliables
         /\ c.replies \in BOOLEAN
  BY DEF ClientRecords

LEMMA CountType ==
  ASSUME NEW cap \in Nat, NEW n \in 0 .. cap
  PROVE  Count(n, cap) \in 0 .. cap
  BY DEF Count

(* A record after another round.                                           *)
LEMMA Older ==
  ASSUME NEW c \in ClientRecords, c.timeout + 1 <= Limit, NEW d,
         d = [c EXCEPT !.timeout = @ + 1, !.silent = Count(@, Limit + 1)]
  PROVE  /\ d \in ClientRecords
         /\ d.timeout = c.timeout + 1 /\ d.silent = Count(c.silent, Limit + 1)
         /\ d.snake = c.snake
<1>1. c.timeout + 1 \in 0 .. Limit + 1
  BY Record, Constants
<1>2. Count(c.silent, Limit + 1) \in 0 .. Limit + 1
  BY Record, Constants, CountType
<1>3. d \in ClientRecords
  BY <1>1, <1>2 DEF ClientRecords
<1>4. d.timeout = c.timeout + 1 /\ d.silent = Count(c.silent, Limit + 1) /\ d.snake = c.snake
  BY DEF ClientRecords
<1>5. QED
  BY <1>3, <1>4

(* Restriction to what is left.                                            *)
LEMMA WithoutFunction ==
  ASSUME NEW f, NEW S
  PROVE  Without(f, S) = [x \in DOMAIN f \ S |-> f[x]]
  BY DEF Without, Restrict

(* There are no more snakes than players: each has one of its own, or      *)
(* shares it.                                                              *)
LEMMA SnakesCounted ==
  ASSUME TypeOK, NoOrphans
  PROVE  /\ IsFiniteSet(Registered) /\ Cardinality(Registered) \in Nat
         /\ Cardinality(DOMAIN snakes) \in Nat
         /\ Cardinality(DOMAIN snakes) <= Cardinality(Registered)
<1> DEFINE T == {clients[a].snake : a \in Registered}
           f == [a \in Registered |-> clients[a].snake]
<1>1. IsFiniteSet(Registered) /\ Cardinality(Registered) \in Nat
  BY Constants, FS_Subset, FS_CardinalityType DEF TypeOK
<1>2. f \in Surjection(Registered, T)
  BY DEF Surjection
<1>3. IsFiniteSet(T) /\ Cardinality(T) <= Cardinality(Registered)
  BY <1>1, <1>2, FS_Surjection
<1>4. DOMAIN snakes \in SUBSET T
  BY DEF NoOrphans
<1> HIDE DEF T
<1>5. IsFiniteSet(DOMAIN snakes) /\ Cardinality(DOMAIN snakes) <= Cardinality(T)
  BY <1>3, <1>4, FS_Subset
<1>6. Cardinality(DOMAIN snakes) \in Nat /\ Cardinality(T) \in Nat
  BY <1>3, <1>5, FS_CardinalityType
<1>7. QED
  BY <1>1, <1>3, <1>5, <1>6

(* So the next id is one there is room for.                                *)
LEMMA SpawnIdFits ==
  ASSUME IInv, ~ Full
  PROVE  /\ SpawnId \in SnakeIds /\ SpawnId <= maxPlayers
         /\ Cardinality(Registered) + 1 <= maxPlayers
<1>1. maxPlayers \in 1 .. Cardinality(Addr)
  BY DEF IInv, TypeOK
<1>2. QED
  BY <1>1, Constants, SnakesCounted DEF IInv, Full, SpawnId, SnakeIds

-----------------------------------------------------------------------------
(* What steps do to players and snakes.                                    *)

(* Players dropped together with their snakes.                             *)
LEMMA Dropping ==
  ASSUME IInv, NEW S \in SUBSET Registered,
         Registered' = Registered \ S,
         \A a \in Registered' : clients'[a].snake = clients[a].snake,
         snakes' = Without(snakes, {clients[a].snake : a \in S}),
         UNCHANGED maxPlayers
  PROVE  /\ NoOrphans' /\ WithinCapacity'
         /\ DOMAIN snakes' \subseteq SnakeIds
         /\ snakes' \in [DOMAIN snakes' -> [held : BOOLEAN, commanded : BOOLEAN]]
<1>1. /\ DOMAIN snakes' = DOMAIN snakes \ {clients[a].snake : a \in S}
      /\ snakes' = [i \in DOMAIN snakes' |-> snakes[i]]
  BY WithoutFunction
<1>2. NoOrphans'
  BY <1>1 DEF IInv, NoOrphans
<1>3. WithinCapacity'
  <2>1. /\ IsFiniteSet(Registered) /\ Cardinality(Registered) \in Nat
        /\ Registered' \in SUBSET Registered
    BY SnakesCounted DEF IInv
  <2>2. IsFiniteSet(Registered') /\ Cardinality(Registered') <= Cardinality(Registered)
    BY <2>1, FS_Subset
  <2>3. Cardinality(Registered') \in Nat
    BY <2>2, FS_CardinalityType
  <2>4. Cardinality(Registered') <= maxPlayers'
    BY <2>1, <2>2, <2>3, Constants DEF IInv, TypeOK, WithinCapacity
  <2>5. \A a \in Registered' : clients'[a].snake <= maxPlayers'
    BY DEF IInv, WithinCapacity
  <2>6. QED
    BY <2>4, <2>5 DEF WithinCapacity
<1>4. DOMAIN snakes' \subseteq SnakeIds
  BY <1>1 DEF IInv, TypeOK
<1>5. snakes' \in [DOMAIN snakes' -> [held : BOOLEAN, commanded : BOOLEAN]]
  BY <1>1 DEF IInv, TypeOK
<1>6. QED
  BY <1>2, <1>3, <1>4, <1>5

(* Neither players nor snakes come or go.                                  *)
LEMMA Keeping ==
  ASSUME IInv,
         Registered' = Registered,
         \A a \in Registered : clients'[a].snake = clients[a].snake,
         DOMAIN snakes' = DOMAIN snakes,
         UNCHANGED maxPlayers
  PROVE  NoOrphans' /\ WithinCapacity' /\ DOMAIN snakes' \subseteq SnakeIds
<1>1. NoOrphans'
  BY DEF IInv, NoOrphans
<1>2. WithinCapacity'
  BY DEF IInv, WithinCapacity
<1>3. QED
  BY <1>1, <1>2 DEF IInv, TypeOK

-----------------------------------------------------------------------------
(* Each action keeps the invariant.                                        *)

(* Time advances; who has timed out is dropped, who has been listed long   *)
(* enough forgiven.                                                        *)
LEMMA TimersKeeps ==
  ASSUME IInv, Timers
  PROVE  IInv'
<1> DEFINE C(a) == [clients[a] EXCEPT !.timeout = @ + 1, !.silent = Count(@, Limit + 1)]
<1>1. /\ stage = "timers" /\ stage' = "recv"
      /\ clients' = [a \in Registered \ TimedOut |-> C(a)]
      /\ snakes' = Without(snakes, {clients[a].snake : a \in TimedOut})
      /\ malicious' = [a \in DOMAIN malicious \ Forgiven |->
                         [malicious[a] EXCEPT !.left = @ - 1, !.rounds = Count(@, Listing)]]
      /\ UNCHANGED <<gone, maxPlayers>>
  BY DEF Timers
<1>2. TimedOut \in SUBSET Registered /\ Registered' = Registered \ TimedOut
  BY <1>1 DEF Registered, TimedOut
<1>3. ASSUME NEW a \in Registered'
      PROVE  /\ clients'[a] \in ClientRecords
             /\ clients'[a].snake = clients[a].snake
             /\ clients'[a].timeout <= 2 * clients'[a].silent
             /\ clients'[a].timeout <= Limit
  <2>1. a \in Registered /\ ~ (clients[a].timeout + 1 > Limit) /\ clients'[a] = C(a)
    BY <1>1, <1>2 DEF TimedOut
  <2>2. clients[a] \in ClientRecords
    BY <2>1 DEF IInv, TypeOK
  <2>3. clients[a].timeout <= 2 * clients[a].silent + 1
    BY <1>1, <2>1 DEF IInv, Silence
  <2>4. /\ clients[a].timeout \in 0 .. Limit + 1 /\ clients[a].silent \in 0 .. Limit + 1
        /\ Limit \in Nat
    BY <2>2, Record, Constants
  <2>5. clients[a].timeout + 1 <= Limit
    BY <2>1, <2>4
  <2>6. clients'[a] = [clients[a] EXCEPT !.timeout = @ + 1, !.silent = Count(@, Limit + 1)]
    BY <2>1
  <2>7. /\ clients'[a] \in ClientRecords
        /\ clients'[a].timeout = clients[a].timeout + 1
        /\ clients'[a].silent = Count(clients[a].silent, Limit + 1)
        /\ clients'[a].snake = clients[a].snake
    BY <2>2, <2>5, <2>6, Older
  <2>8. clients[a].timeout + 1 <= 2 * Count(clients[a].silent, Limit + 1)
    BY <2>3, <2>4, <2>5 DEF Count
  <2>9. QED
    BY <2>5, <2>7, <2>8
<1>4. NoOrphans' /\ WithinCapacity' /\ DOMAIN snakes' \subseteq SnakeIds
      /\ snakes' \in [DOMAIN snakes' -> [held : BOOLEAN, commanded : BOOLEAN]]
  BY <1>1, <1>2, <1>3, Dropping
<1>5. /\ DOMAIN malicious' = DOMAIN malicious \ Forgiven
      /\ malicious' \in [DOMAIN malicious' -> [left : 1 .. MaxListed, rounds : 0 .. Listing]]
  <2>1. DOMAIN malicious' = DOMAIN malicious \ Forgiven
    BY <1>1
  <2>2. ASSUME NEW a \in DOMAIN malicious'
        PROVE  malicious'[a] \in [left : 1 .. MaxListed, rounds : 0 .. Listing]
    <3>1. a \in DOMAIN malicious /\ ~ (malicious[a].left - 1 <= 0)
      BY <2>1 DEF Forgiven
    <3>2. malicious[a] \in [left : 1 .. MaxListed, rounds : 0 .. Listing]
      BY <3>1 DEF IInv, TypeOK
    <3>3. Count(malicious[a].rounds, Listing) \in 0 .. Listing
      BY <3>2, CountType, Constants
    <3>4. malicious[a].left - 1 \in 1 .. MaxListed
      BY <3>1, <3>2, Constants
    <3>5. malicious'[a] = [malicious[a] EXCEPT !.left = @ - 1, !.rounds = Count(@, Listing)]
      BY <1>1, <2>1
    <3>6. QED
      BY <3>2, <3>3, <3>4, <3>5
  <2>3. malicious' = [a \in DOMAIN malicious' |-> malicious'[a]]
    BY <1>1
  <2>4. QED
    BY <2>1, <2>2, <2>3
<1>6. TypeOK'
  <2>1. clients' \in [Registered' -> ClientRecords]
    BY <1>1, <1>2, <1>3
  <2>2. Registered' \subseteq Addr /\ DOMAIN malicious' \subseteq Addr
    BY <1>2, <1>5 DEF IInv, TypeOK
  <2>3. QED
    BY <1>1, <1>4, <1>5, <2>1, <2>2 DEF IInv, TypeOK
<1>7. ListedAreOut'
  BY <1>2, <1>5 DEF IInv, ListedAreOut
<1>8. Silence'
  BY <1>1, <1>3 DEF Silence
<1>9. QED
  BY <1>4, <1>6, <1>7, <1>8 DEF IInv

(* What a step leaves alone that touches neither players nor snakes.       *)
LEMMA PlayersAlone ==
  ASSUME IInv, UNCHANGED <<clients, snakes, maxPlayers>>,
         stage # "timers", stage' # "timers",
         stage' \in {"recv", "sim", "range", "queue", "send", "crashed"},
         DOMAIN malicious' = DOMAIN malicious,
         malicious' \in [DOMAIN malicious' -> [left : 1 .. MaxListed, rounds : 0 .. Listing]],
         gone' \subseteq Addr
  PROVE  IInv'
<1>1. Registered' = Registered
  BY DEF Registered
<1>2. TypeOK'
  BY <1>1 DEF IInv, TypeOK
<1>3. NoOrphans' /\ ListedAreOut' /\ WithinCapacity'
  BY <1>1 DEF IInv, NoOrphans, ListedAreOut, WithinCapacity
<1>4. Silence'
  BY <1>1 DEF IInv, Silence
<1>5. QED
  BY <1>2, <1>3, <1>4 DEF IInv

LEMMA CrashKeeps ==
  ASSUME IInv, Crash, stage # "timers"
  PROVE  IInv'
<1>1. /\ UNCHANGED <<clients, snakes, maxPlayers, malicious, gone>>
      /\ stage' = "crashed"
  BY DEF Crash
<1>2. /\ malicious' \in [DOMAIN malicious' -> [left : 1 .. MaxListed, rounds : 0 .. Listing]]
      /\ gone' \subseteq Addr
  BY <1>1 DEF IInv, TypeOK
<1>3. QED
  BY <1>1, <1>2, PlayersAlone

LEMMA PacketIgnoredKeeps ==
  ASSUME IInv, NEW a \in Addr, PacketIgnored(a)
  PROVE  IInv'
<1>1. /\ stage = "recv" /\ stage' = "recv" /\ a \in DOMAIN malicious
      /\ malicious[a].left + Listing <= MaxListed
      /\ malicious' = [malicious EXCEPT ![a].left = @ + Listing]
      /\ UNCHANGED <<clients, snakes, gone, maxPlayers>>
  BY DEF PacketIgnored
<1>2. malicious \in [DOMAIN malicious -> [left : 1 .. MaxListed, rounds : 0 .. Listing]]
  BY DEF IInv, TypeOK
<1>3. malicious[a].left + Listing \in 1 .. MaxListed
  BY <1>1, <1>2, Constants
<1>4. /\ DOMAIN malicious' = DOMAIN malicious
      /\ malicious' \in [DOMAIN malicious' -> [left : 1 .. MaxListed, rounds : 0 .. Listing]]
  BY <1>1, <1>2, <1>3
<1>5. gone' \subseteq Addr
  BY <1>1 DEF IInv, TypeOK
<1>6. QED
  BY <1>1, <1>4, <1>5, PlayersAlone

LEMMA EndRecvKeeps ==
  ASSUME IInv, EndRecv
  PROVE  IInv'
<1>1. /\ UNCHANGED <<clients, snakes, malicious, gone, maxPlayers>>
      /\ stage = "recv" /\ stage' = "sim"
  BY DEF EndRecv
<1>2. /\ malicious' \in [DOMAIN malicious' -> [left : 1 .. MaxListed, rounds : 0 .. Listing]]
      /\ gone' \subseteq Addr
  BY <1>1 DEF IInv, TypeOK
<1>3. QED
  BY <1>1, <1>2, PlayersAlone

(* A player may vanish at any stage.                                       *)
LEMMA VanishKeeps ==
  ASSUME IInv, NEW a \in Addr, Vanish(a)
  PROVE  IInv'
<1>1. /\ UNCHANGED <<stage, clients, snakes, malicious, maxPlayers>>
      /\ gone' = gone \cup {a}
  BY DEF Vanish
<1>2. Registered' = Registered
  BY <1>1 DEF Registered
<1>3. TypeOK'
  BY <1>1, <1>2 DEF IInv, TypeOK
<1>4. NoOrphans' /\ ListedAreOut' /\ WithinCapacity' /\ Silence'
  BY <1>1, <1>2 DEF IInv, NoOrphans, ListedAreOut, WithinCapacity, Silence
<1>5. QED
  BY <1>3, <1>4 DEF IInv

(* The record of a player just heard from.                                 *)
LEMMA HeardRecord ==
  ASSUME IInv, NEW a \in Registered
  PROVE  /\ Heard(a) \in ClientRecords
         /\ Heard(a).timeout = 0 /\ Heard(a).snake = clients[a].snake
<1>1. clients[a] \in ClientRecords
  BY DEF IInv, TypeOK
<1>2. 0 \in 0 .. Limit + 1
  BY Constants
<1>3. QED
  BY <1>1, <1>2 DEF Heard, ClientRecords

LEMMA Replying ==
  ASSUME NEW c \in ClientRecords, NEW r \in BOOLEAN, NEW d,
         d = [c EXCEPT !.replies = r]
  PROVE  /\ d \in ClientRecords
         /\ d.timeout = c.timeout /\ d.silent = c.silent /\ d.snake = c.snake
  BY DEF ClientRecords

(* A message from a player changes nothing but its own record and what its *)
(* snake was told.                                                         *)
LEMMA HearingKeeps ==
  ASSUME IInv, NEW a \in Registered, NEW d \in ClientRecords,
         d.timeout = 0, d.snake = clients[a].snake,
         clients' = With(clients, a, d),
         DOMAIN snakes' = DOMAIN snakes,
         snakes' \in [DOMAIN snakes' -> [held : BOOLEAN, commanded : BOOLEAN]],
         stage = "recv", UNCHANGED <<stage, malicious, gone, maxPlayers>>
  PROVE  IInv'
<1>1. Registered' = Registered
  BY DEF With, Registered
<1>2. \A b \in Registered : clients'[b] = IF b = a THEN d ELSE clients[b]
  BY DEF With, Registered
<1>3. NoOrphans' /\ WithinCapacity' /\ DOMAIN snakes' \subseteq SnakeIds
  BY <1>1, <1>2, Keeping
<1>4. \A b \in Registered : clients'[b] \in ClientRecords
  BY <1>2 DEF IInv, TypeOK
<1>5. clients' \in [Registered' -> ClientRecords]
  BY <1>1, <1>4 DEF With, Registered
<1>6. TypeOK'
  BY <1>1, <1>3, <1>5 DEF IInv, TypeOK
<1>7. ListedAreOut'
  BY <1>1 DEF IInv, ListedAreOut
<1>8. Silence'
  <2>1. d.silent \in Nat /\ Limit \in Nat
    BY Record, Constants
  <2>2. SUFFICES ASSUME NEW b \in Registered
        PROVE  clients'[b].timeout <= 2 * clients'[b].silent /\ clients'[b].timeout <= Limit
    BY <1>1 DEF Silence
  <2>3. CASE b = a
    BY <1>2, <2>1, <2>3
  <2>4. CASE b # a
    BY <1>2, <2>4 DEF IInv, Silence
  <2>5. QED
    BY <2>3, <2>4
<1>9. QED
  BY <1>3, <1>6, <1>7, <1>8 DEF IInv

LEMMA JoinDeniedKeeps ==
  ASSUME IInv, NEW a \in Addr, NEW longName \in BOOLEAN, JoinDenied(a, longName)
  PROVE  IInv'
<1>1. /\ stage = "recv" /\ UNCHANGED <<stage, snakes, malicious, gone, maxPlayers>>
      /\ clients' = IF a \in Registered THEN With(clients, a, Heard(a)) ELSE clients
  BY DEF JoinDenied, Receives
<1>2. snakes' \in [DOMAIN snakes' -> [held : BOOLEAN, commanded : BOOLEAN]]
  BY <1>1 DEF IInv, TypeOK
<1>3. CASE a \in Registered
  BY <1>1, <1>2, <1>3, HeardRecord, HearingKeeps
<1>4. CASE a \notin Registered
  <2>1. /\ malicious' \in [DOMAIN malicious' -> [left : 1 .. MaxListed, rounds : 0 .. Listing]]
        /\ gone' \subseteq Addr
    BY <1>1 DEF IInv, TypeOK
  <2>2. QED
    BY <1>1, <1>4, <2>1, PlayersAlone
<1>5. QED
  BY <1>3, <1>4

LEMMA JoinRepeatedKeeps ==
  ASSUME IInv, NEW a \in Addr, JoinRepeated(a)
  PROVE  IInv'
<1>1. stage = "recv" /\ a \in Registered
  BY DEF JoinRepeated, Receives
<1>2. CASE HasSnake(a)
  <2>1. /\ clients' = With(clients, a, [Heard(a) EXCEPT !.replies = TRUE])
        /\ UNCHANGED <<stage, snakes, malicious, gone, maxPlayers>>
    BY <1>2 DEF JoinRepeated
  <2>2. Heard(a) \in ClientRecords /\ Heard(a).timeout = 0 /\ Heard(a).snake = clients[a].snake
    BY <1>1, HeardRecord
  <2>3. PICK d : d = [Heard(a) EXCEPT !.replies = TRUE]
    OBVIOUS
  <2>4. d \in ClientRecords /\ d.timeout = 0 /\ d.snake = clients[a].snake
    BY <2>2, <2>3, Replying
  <2>5. snakes' \in [DOMAIN snakes' -> [held : BOOLEAN, commanded : BOOLEAN]]
    BY <2>1 DEF IInv, TypeOK
  <2>6. QED
    BY <1>1, <2>1, <2>3, <2>4, <2>5, HearingKeeps
<1>3. CASE ~ HasSnake(a)
  BY <1>1, <1>3, CrashKeeps DEF JoinRepeated
<1>4. QED
  BY <1>2, <1>3

LEMMA CommandsKeeps ==
  ASSUME IInv, NEW a \in Addr, NEW feedback \in BOOLEAN, Commands(a, feedback)
  PROVE  IInv'
<1>1. stage = "recv" /\ a \in Registered
  BY DEF Commands, Receives
<1>2. CASE HasSnake(a)
  <2>1. /\ clients' = With(clients, a, [Heard(a) EXCEPT !.replies = @ \/ feedback])
        /\ snakes' = [snakes EXCEPT ![clients[a].snake].commanded = TRUE]
        /\ UNCHANGED <<stage, malicious, gone, maxPlayers>>
    BY <1>2 DEF Commands
  <2>2. Heard(a) \in ClientRecords /\ Heard(a).timeout = 0 /\ Heard(a).snake = clients[a].snake
    BY <1>1, HeardRecord
  <2>3. PICK r \in BOOLEAN : r = (Heard(a).replies \/ feedback)
    OBVIOUS
  <2>4. PICK d : d = [Heard(a) EXCEPT !.replies = r]
    OBVIOUS
  <2>5. d \in ClientRecords /\ d.timeout = 0 /\ d.snake = clients[a].snake
    BY <2>2, <2>4, Replying
  <2>6. clients' = With(clients, a, d)
    BY <2>1, <2>3, <2>4
  <2>7. DOMAIN snakes' = DOMAIN snakes
    BY <2>1
  <2>8. snakes' \in [DOMAIN snakes' -> [held : BOOLEAN, commanded : BOOLEAN]]
    BY <2>1 DEF IInv, TypeOK
  <2>9. QED
    BY <1>1, <2>1, <2>5, <2>6, <2>7, <2>8, HearingKeeps
<1>3. CASE ~ HasSnake(a)
  BY <1>1, <1>3, CrashKeeps DEF Commands
<1>4. QED
  BY <1>2, <1>3

(* A player leaves, or is thrown out: then it may be listed.               *)
LEMMA RemovingKeeps ==
  ASSUME IInv, NEW a \in Registered, Remove({a}),
         stage = "recv", UNCHANGED <<stage, gone, maxPlayers>>,
         DOMAIN malicious' \subseteq DOMAIN malicious \cup {a},
         malicious' \in [DOMAIN malicious' -> [left : 1 .. MaxListed, rounds : 0 .. Listing]]
  PROVE  IInv'
<1>1. /\ clients' = [b \in Registered \ {a} |-> clients[b]]
      /\ snakes' = Without(snakes, {clients[b].snake : b \in {a}})
  BY WithoutFunction DEF Remove, Registered
<1>2. Registered' = Registered \ {a} /\ {a} \in SUBSET Registered
  BY <1>1 DEF Registered
<1>3. \A b \in Registered' : clients'[b] = clients[b]
  BY <1>1, <1>2
<1>4. /\ NoOrphans' /\ WithinCapacity' /\ DOMAIN snakes' \subseteq SnakeIds
      /\ snakes' \in [DOMAIN snakes' -> [held : BOOLEAN, commanded : BOOLEAN]]
  BY <1>1, <1>2, <1>3, Dropping
<1>5. clients' \in [Registered' -> ClientRecords]
  BY <1>1, <1>2, <1>3 DEF IInv, TypeOK
<1>6. Registered' \subseteq Addr /\ DOMAIN malicious' \subseteq Addr
  BY <1>2 DEF IInv, TypeOK
<1>7. TypeOK'
  BY <1>4, <1>5, <1>6 DEF IInv, TypeOK
<1>8. ListedAreOut'
  BY <1>2 DEF IInv, ListedAreOut
<1>9. Silence'
  BY <1>2, <1>3 DEF IInv, Silence
<1>10. QED
  BY <1>4, <1>7, <1>8, <1>9 DEF IInv

LEMMA LeaveKeeps ==
  ASSUME IInv, NEW a \in Addr, Leave(a)
  PROVE  IInv'
<1>1. /\ stage = "recv" /\ a \in Registered /\ Remove({a})
      /\ UNCHANGED <<stage, malicious, gone, maxPlayers>>
  BY DEF Leave, Receives
<1>2. malicious' \in [DOMAIN malicious' -> [left : 1 .. MaxListed, rounds : 0 .. Listing]]
  BY <1>1 DEF IInv, TypeOK
<1>3. QED
  BY <1>1, <1>2, RemovingKeeps

LEMMA MisbehaveKeeps ==
  ASSUME IInv, NEW a \in Addr, Misbehave(a)
  PROVE  IInv'
<1>1. CASE a \notin Registered
  <2>1. Crash /\ stage # "timers"
    BY <1>1 DEF Misbehave, Receives
  <2>2. QED
    BY <2>1, CrashKeeps
<1>2. CASE a \in Registered
  <2>1. /\ stage = "recv" /\ a \in Registered /\ Remove({a})
        /\ malicious' = With(malicious, a, [left |-> MaliciousTimeout, rounds |-> 0])
        /\ UNCHANGED <<stage, gone, maxPlayers>>
    BY <1>2 DEF Misbehave, Receives
  <2>2. DOMAIN malicious' = DOMAIN malicious \cup {a}
    BY <2>1 DEF With
  <2>3. [left |-> MaliciousTimeout, rounds |-> 0] \in [left : 1 .. MaxListed, rounds : 0 .. Listing]
    BY Constants
  <2>4. \A b \in DOMAIN malicious :
          malicious[b] \in [left : 1 .. MaxListed, rounds : 0 .. Listing]
    BY DEF IInv, TypeOK
  <2>5. malicious' \in [DOMAIN malicious' -> [left : 1 .. MaxListed, rounds : 0 .. Listing]]
    BY <2>1, <2>2, <2>3, <2>4 DEF With
  <2>6. QED
    BY <2>1, <2>2, <2>5, RemovingKeeps
<1>3. QED
  BY <1>1, <1>2

(* A player joins: there is room for it and for its snake.                 *)
LEMMA JoinAcceptedKeeps ==
  ASSUME IInv, NEW a \in Addr, JoinAccepted(a)
  PROVE  IInv'
<1> DEFINE c == [NewClient(SpawnId) EXCEPT !.replies = TRUE]
           s == [held |-> TRUE,
                 commanded |-> SpawnId \in DOMAIN snakes /\ snakes[SpawnId].commanded]
<1>1. /\ stage = "recv" /\ a \notin DOMAIN malicious /\ ~ Full /\ a \notin Registered
      /\ clients' = With(clients, a, c) /\ snakes' = With(snakes, SpawnId, s)
      /\ UNCHANGED <<stage, malicious, gone, maxPlayers>>
  BY DEF JoinAccepted, Receives
<1>2. /\ SpawnId \in SnakeIds /\ SpawnId <= maxPlayers
      /\ Cardinality(Registered) + 1 <= maxPlayers
  BY <1>1, SpawnIdFits
<1>3. /\ c \in ClientRecords /\ c.timeout = 0 /\ c.silent = 0 /\ c.snake = SpawnId
  <2>1. 0 \in 0 .. Limit + 1
    BY Constants
  <2>2. QED
    BY <1>2, <2>1 DEF NewClient, ClientRecords
<1>4. s \in [held : BOOLEAN, commanded : BOOLEAN]
  BY DEF IInv, TypeOK
<1> HIDE DEF c, s
<1>5. /\ Registered' = Registered \cup {a}
      /\ clients' = [b \in Registered \cup {a} |-> IF b = a THEN c ELSE clients[b]]
  BY <1>1 DEF With, Registered
<1>6. /\ DOMAIN snakes' = DOMAIN snakes \cup {SpawnId}
      /\ snakes' = [i \in DOMAIN snakes \cup {SpawnId} |-> IF i = SpawnId THEN s ELSE snakes[i]]
  BY <1>1 DEF With
<1>7. TypeOK'
  <2>1. clients' \in [Registered' -> ClientRecords]
    BY <1>3, <1>5 DEF IInv, TypeOK
  <2>2. snakes' \in [DOMAIN snakes' -> [held : BOOLEAN, commanded : BOOLEAN]]
    BY <1>4, <1>6 DEF IInv, TypeOK
  <2>3. Registered' \subseteq Addr /\ DOMAIN snakes' \subseteq SnakeIds
    BY <1>2, <1>5, <1>6 DEF IInv, TypeOK
  <2>4. QED
    BY <1>1, <2>1, <2>2, <2>3 DEF IInv, TypeOK
<1>8. NoOrphans'
  <2>1. SUFFICES ASSUME NEW i \in DOMAIN snakes'
        PROVE  \E b \in Registered' : clients'[b].snake = i
    BY DEF NoOrphans
  <2>2. CASE i = SpawnId
    BY <1>3, <1>5, <2>2
  <2>3. CASE i # SpawnId
    <3>1. PICK b \in Registered : clients[b].snake = i
      BY <1>6, <2>3 DEF IInv, NoOrphans
    <3>2. b # a
      BY <1>1
    <3>3. QED
      BY <1>5, <3>1, <3>2
  <2>4. QED
    BY <2>2, <2>3
<1>9. ListedAreOut'
  BY <1>1, <1>5 DEF IInv, ListedAreOut
<1>10. WithinCapacity'
  <2>1. Cardinality(Registered') <= maxPlayers
    <3>1. IsFiniteSet(Registered)
      BY SnakesCounted DEF IInv
    <3>2. Cardinality(Registered \cup {a}) = Cardinality(Registered) + 1
      BY <1>1, <3>1, FS_AddElement
    <3>3. QED
      BY <1>2, <1>5, <3>2
  <2>2. \A b \in Registered' : clients'[b].snake <= maxPlayers
    BY <1>2, <1>3, <1>5 DEF IInv, WithinCapacity
  <2>3. QED
    BY <1>1, <2>1, <2>2 DEF WithinCapacity
<1>11. Silence'
  <2>1. SUFFICES ASSUME NEW b \in Registered'
        PROVE  clients'[b].timeout <= 2 * clients'[b].silent /\ clients'[b].timeout <= Limit
    BY <1>1 DEF Silence
  <2>2. CASE b = a
    BY <1>3, <1>5, <2>2, Constants
  <2>3. CASE b # a
    BY <1>1, <1>5, <2>3 DEF IInv, Silence
  <2>4. QED
    BY <2>2, <2>3
<1>12. QED
  BY <1>7, <1>8, <1>9, <1>10, <1>11 DEF IInv

(* Steps between packets and timers that change neither who is registered  *)
(* nor any counter.                                                        *)
LEMMA CountersKept ==
  ASSUME IInv,
         stage \notin {"timers"}, stage' \in {"recv", "sim", "range", "queue", "send"},
         Registered' = Registered,
         clients' = [a \in Registered |-> clients'[a]],
         \A a \in Registered :
           /\ clients'[a] \in ClientRecords
           /\ clients'[a].snake = clients[a].snake
           /\ clients'[a].timeout = clients[a].timeout
           /\ clients'[a].silent = clients[a].silent,
         DOMAIN snakes' = DOMAIN snakes,
         snakes' \in [DOMAIN snakes' -> [held : BOOLEAN, commanded : BOOLEAN]],
         UNCHANGED <<malicious, gone, maxPlayers>>
  PROVE  IInv'
<1>1. NoOrphans' /\ WithinCapacity' /\ DOMAIN snakes' \subseteq SnakeIds
  BY Keeping
<1>2. TypeOK'
  BY <1>1 DEF IInv, TypeOK
<1>3. ListedAreOut' /\ Silence'
  BY DEF IInv, ListedAreOut, Silence
<1>4. QED
  BY <1>1, <1>2, <1>3 DEF IInv

LEMMA SimKeeps ==
  ASSUME IInv, Sim
  PROVE  IInv'
<1>1. PICK due \in SUBSET {i \in DOMAIN snakes : snakes[i].commanded} :
        snakes' = [i \in DOMAIN snakes |->
                     IF i \in due THEN [snakes[i] EXCEPT !.held = FALSE] ELSE snakes[i]]
  BY DEF Sim
<1>2. stage = "sim" /\ stage' = "range" /\ UNCHANGED <<clients, malicious, gone, maxPlayers>>
  BY DEF Sim
<1>3. /\ DOMAIN snakes' = DOMAIN snakes
      /\ snakes' \in [DOMAIN snakes' -> [held : BOOLEAN, commanded : BOOLEAN]]
  BY <1>1 DEF IInv, TypeOK
<1>4. Registered' = Registered /\ clients' = [a \in Registered |-> clients'[a]]
      /\ \A a \in Registered : clients'[a] = clients[a] /\ clients[a] \in ClientRecords
  BY <1>2 DEF Registered, IInv, TypeOK
<1>5. QED
  BY <1>2, <1>3, <1>4, CountersKept

(* A record after the snakes near it have been looked at.                  *)
LEMMA MeetingRecord ==
  ASSUME IInv, NEW a \in Registered, NEW inRange
  PROVE  /\ Meeting(a, inRange) \in ClientRecords
         /\ Meeting(a, inRange).snake = clients[a].snake
         /\ Meeting(a, inRange).timeout = clients[a].timeout
         /\ Meeting(a, inRange).silent = clients[a].silent
<1> DEFINE arrived  == (Others(a) \cap inRange) \ clients[a].near
           departed == (Others(a) \ inRange) \cap clients[a].near
           near == (clients[a].near \cup arrived) \ departed
           told == clients[a].reliable \cup {Reliable("bezier", id) : id \in arrived}
                                       \cup {Reliable("destroy", id) : id \in departed}
<1>1. clients[a] \in ClientRecords
  BY DEF IInv, TypeOK
<1>2. Others(a) \subseteq SnakeIds
  BY Record DEF Others, IInv, TypeOK
<1>3. near \subseteq SnakeIds /\ arrived \subseteq SnakeIds /\ departed \subseteq SnakeIds
  BY <1>1, <1>2, Record
<1>4. \A id \in SnakeIds : /\ Reliable("bezier", id) \in Reliables
                           /\ Reliable("destroy", id) \in Reliables
  BY Constants DEF Reliable, Reliables
<1>5. told \subseteq Reliables
  BY <1>1, <1>3, <1>4, Record
<1>6. Meeting(a, inRange) = [clients[a] EXCEPT !.near = near, !.reliable = told]
  BY DEF Meeting
<1> HIDE DEF near, told
<1>7. QED
  BY <1>1, <1>3, <1>5, <1>6 DEF ClientRecords

LEMMA UpdateSnakesInRangeKeeps ==
  ASSUME IInv, UpdateSnakesInRange
  PROVE  IInv'
<1>1. stage = "range"
  BY DEF UpdateSnakesInRange
<1>2. CASE Cardinality(Registered) > 1 /\ \E a \in Registered : ~ HasSnake(a)
  BY <1>1, <1>2, CrashKeeps DEF UpdateSnakesInRange
<1>3. CASE ~ (Cardinality(Registered) > 1 /\ \E a \in Registered : ~ HasSnake(a))
  <2>1. PICK inRange \in [Registered -> IF MayMeet THEN SUBSET SnakeIds ELSE {{}}] :
          clients' = [a \in Registered |-> Meeting(a, inRange[a])]
    BY <1>3 DEF UpdateSnakesInRange
  <2>2. stage' = "queue" /\ UNCHANGED <<snakes, malicious, gone, maxPlayers>>
    BY <1>3 DEF UpdateSnakesInRange
  <2>3. Registered' = Registered /\ clients' = [a \in Registered |-> clients'[a]]
    BY <2>1 DEF Registered
  <2>4. \A a \in Registered :
          /\ clients'[a] \in ClientRecords
          /\ clients'[a].snake = clients[a].snake
          /\ clients'[a].timeout = clients[a].timeout
          /\ clients'[a].silent = clients[a].silent
    BY <2>1, MeetingRecord
  <2>5. snakes' \in [DOMAIN snakes' -> [held : BOOLEAN, commanded : BOOLEAN]]
    BY <2>2 DEF IInv, TypeOK
  <2>6. QED
    BY <1>1, <2>2, <2>3, <2>4, <2>5, CountersKept
<1>4. QED
  BY <1>2, <1>3

LEMMA QueueSnakeDataKeeps ==
  ASSUME IInv, QueueSnakeData
  PROVE  IInv'
<1>1. stage = "queue"
  BY DEF QueueSnakeData
<1> DEFINE ok == \A a \in Registered : HasSnake(a) /\ clients[a].near \subseteq DOMAIN snakes
<1>2. CASE ok
  <2>1. /\ clients' = [a \in Registered |->
                         [clients[a] EXCEPT !.replies = @ \/ ~ snakes[clients[a].snake].held]]
        /\ stage' = "send" /\ UNCHANGED <<snakes, malicious, gone, maxPlayers>>
    BY <1>2 DEF QueueSnakeData
  <2>2. Registered' = Registered /\ clients' = [a \in Registered |-> clients'[a]]
    BY <2>1 DEF Registered
  <2>3. ASSUME NEW a \in Registered
        PROVE  /\ clients'[a] \in ClientRecords
               /\ clients'[a].snake = clients[a].snake
               /\ clients'[a].timeout = clients[a].timeout
               /\ clients'[a].silent = clients[a].silent
    <3>1. PICK r \in BOOLEAN : r = (clients[a].replies \/ ~ snakes[clients[a].snake].held)
      OBVIOUS
    <3>2. clients[a] \in ClientRecords
      BY DEF IInv, TypeOK
    <3>3. clients'[a] = [clients[a] EXCEPT !.replies = r]
      BY <2>1, <3>1
    <3>4. QED
      BY <3>2, <3>3, Replying
  <2>4. snakes' \in [DOMAIN snakes' -> [held : BOOLEAN, commanded : BOOLEAN]]
    BY <2>1 DEF IInv, TypeOK
  <2>5. QED
    BY <1>1, <2>1, <2>2, <2>3, <2>4, CountersKept
<1>3. CASE ~ ok
  BY <1>1, <1>3, CrashKeeps DEF QueueSnakeData
<1>4. QED
  BY <1>2, <1>3

(* A reliable message that has a try left is still one.                    *)
LEMMA ResentReliable ==
  ASSUME NEW r \in Reliables, Resent(r).tries # 0
  PROVE  Resent(r) \in Reliables
<1>1. /\ r.kind \in {"bezier", "destroy"} /\ r.of \in SnakeIds
      /\ r.wait \in 1 .. DestroyPeriod /\ r.tries \in 1 .. Retries
  BY DEF Reliables
<1>2. CASE Due(r)
  <2>1. Resent(r) = [r EXCEPT !.wait = Period(r.kind), !.tries = r.tries - 1]
    BY <1>2 DEF Resent
  <2>2. Period(r.kind) \in 1 .. DestroyPeriod
    BY Constants DEF Period
  <2>3. Resent(r).tries = r.tries - 1
    BY <2>1 DEF Reliables
  <2>4. r.tries - 1 \in 1 .. Retries
    BY <1>1, <2>3, Constants
  <2>5. QED
    BY <1>1, <2>1, <2>2, <2>4 DEF Reliables
<1>3. CASE ~ Due(r)
  <2>1. Resent(r) = [r EXCEPT !.wait = r.wait - 1]
    BY <1>3 DEF Resent
  <2>2. r.wait - 1 \in 1 .. DestroyPeriod
    BY <1>1, <1>3, Constants DEF Due
  <2>3. QED
    BY <1>1, <2>1, <2>2 DEF Reliables
<1>4. QED
  BY <1>2, <1>3

LEMMA SentRecord ==
  ASSUME NEW c \in ClientRecords, c.timeout <= Limit,
         \A r \in c.reliable : Resent(r).tries # 0
  PROVE  /\ Sent(c) \in ClientRecords
         /\ Sent(c).snake = c.snake /\ Sent(c).silent = c.silent
         /\ Sent(c).timeout \in {c.timeout, c.timeout + 1}
<1> DEFINE left == {Resent(r) : r \in c.reliable}
           t == IF c.replies \/ \E r \in c.reliable : Due(r) THEN c.timeout + 1 ELSE c.timeout
<1>1. left \subseteq Reliables
  BY Record, ResentReliable
<1>2. t \in 0 .. Limit + 1 /\ t \in {c.timeout, c.timeout + 1}
  BY Record, Constants
<1>3. Sent(c) = [c EXCEPT !.reliable = left, !.replies = FALSE, !.timeout = t]
  BY DEF Sent
<1> HIDE DEF left, t
<1>4. Sent(c) \in ClientRecords
  BY <1>1, <1>2, <1>3 DEF ClientRecords
<1>5. Sent(c).snake = c.snake /\ Sent(c).silent = c.silent /\ Sent(c).timeout = t
  BY <1>3 DEF ClientRecords
<1>6. QED
  BY <1>2, <1>4, <1>5

LEMMA SendPendingDataKeeps ==
  ASSUME IInv, SendPendingData
  PROVE  IInv'
<1>1. /\ stage = "send" /\ stage' = "timers"
      /\ clients' = [a \in Registered \ Exhausted |-> Sent(clients[a])]
      /\ snakes' = Without(snakes, {clients[a].snake : a \in Exhausted})
      /\ UNCHANGED <<malicious, gone, maxPlayers>>
  BY DEF SendPendingData
<1>2. Exhausted \in SUBSET Registered /\ Registered' = Registered \ Exhausted
  BY <1>1 DEF Registered, Exhausted
<1>3. ASSUME NEW a \in Registered'
      PROVE  /\ clients'[a] \in ClientRecords
             /\ clients'[a].snake = clients[a].snake
             /\ clients'[a].timeout <= 2 * clients'[a].silent + 1
  <2>1. a \in Registered /\ \A r \in clients[a].reliable : Resent(r).tries # 0
    BY <1>2 DEF Exhausted
  <2>2. clients'[a] = Sent(clients[a])
    BY <1>1, <1>2
  <2>3. clients[a] \in ClientRecords
    BY <2>1 DEF IInv, TypeOK
  <2>4. clients[a].timeout <= 2 * clients[a].silent /\ clients[a].timeout <= Limit
    BY <1>1, <2>1 DEF IInv, Silence
  <2>5. /\ Sent(clients[a]) \in ClientRecords
        /\ Sent(clients[a]).snake = clients[a].snake
        /\ Sent(clients[a]).silent = clients[a].silent
        /\ Sent(clients[a]).timeout \in {clients[a].timeout, clients[a].timeout + 1}
    BY <2>1, <2>3, <2>4, SentRecord
  <2>6. clients[a].timeout \in Nat /\ clients[a].silent \in Nat
    BY <2>3, Record, Constants
  <2>7. QED
    BY <2>2, <2>4, <2>5, <2>6
<1>4. /\ NoOrphans' /\ WithinCapacity' /\ DOMAIN snakes' \subseteq SnakeIds
      /\ snakes' \in [DOMAIN snakes' -> [held : BOOLEAN, commanded : BOOLEAN]]
  BY <1>1, <1>2, <1>3, Dropping
<1>5. TypeOK'
  <2>1. clients' \in [Registered' -> ClientRecords]
    BY <1>1, <1>2, <1>3
  <2>2. Registered' \subseteq Addr
    BY <1>2 DEF IInv, TypeOK
  <2>3. QED
    BY <1>1, <1>4, <2>1, <2>2 DEF IInv, TypeOK
<1>6. ListedAreOut'
  BY <1>1, <1>2 DEF IInv, ListedAreOut
<1>7. Silence'
  BY <1>1, <1>3 DEF Silence
<1>8. QED
  BY <1>4, <1>5, <1>6, <1>7 DEF IInv

-----------------------------------------------------------------------------
(* The invariant, and what it implies.                                     *)

LEMMA InitHolds ==
  ASSUME Init
  PROVE  IInv
<1>1. Registered = {} /\ DOMAIN snakes = {} /\ DOMAIN malicious = {}
  BY DEF Init, Registered
<1>2. /\ clients \in [{} -> ClientRecords]
      /\ snakes \in [{} -> [held : BOOLEAN, commanded : BOOLEAN]]
      /\ malicious \in [{} -> [left : 1 .. MaxListed, rounds : 0 .. Listing]]
  BY DEF Init
<1>3. TypeOK
  BY <1>1, <1>2 DEF Init, TypeOK
<1>4. WithinCapacity
  <2>1. Cardinality(Registered) = 0
    BY <1>1, FS_EmptySet
  <2>2. maxPlayers \in Nat
    BY Constants DEF Init
  <2>3. QED
    BY <1>1, <2>1, <2>2 DEF WithinCapacity
<1>5. NoOrphans /\ ListedAreOut /\ Silence
  BY <1>1 DEF NoOrphans, ListedAreOut, Silence
<1>6. QED
  BY <1>3, <1>4, <1>5 DEF IInv

LEMMA NextKeeps ==
  ASSUME IInv, [Next]_vars
  PROVE  IInv'
<1>1. CASE Timers
  BY <1>1, TimersKeeps
<1>2. CASE EndRecv
  BY <1>2, EndRecvKeeps
<1>3. CASE Sim
  BY <1>3, SimKeeps
<1>4. CASE UpdateSnakesInRange
  BY <1>4, UpdateSnakesInRangeKeeps
<1>5. CASE QueueSnakeData
  BY <1>5, QueueSnakeDataKeeps
<1>6. CASE SendPendingData
  BY <1>6, SendPendingDataKeeps
<1>7. CASE \E a \in Addr : Packet(a)
  <2>1. PICK a \in Addr : Packet(a)
    BY <1>7
  <2>2. QED
    BY <2>1, PacketIgnoredKeeps, JoinDeniedKeeps, JoinAcceptedKeeps, JoinRepeatedKeeps,
       CommandsKeeps, LeaveKeeps, MisbehaveKeeps DEF Packet
<1>8. CASE \E a \in Addr : Vanish(a)
  BY <1>8, VanishKeeps
<1>9. CASE UNCHANGED vars
  <2>1. UNCHANGED <<stage, clients, snakes, malicious, maxPlayers, gone>>
    BY <1>9 DEF vars
  <2>2. Registered' = Registered
    BY <2>1 DEF Registered
  <2>3. QED
    BY <2>1, <2>2 DEF IInv, TypeOK, NoOrphans, ListedAreOut, WithinCapacity, Silence
<1>10. QED
  BY <1>1, <1>2, <1>3, <1>4, <1>5, <1>6, <1>7, <1>8, <1>9 DEF Next, Loop

LEMMA Invariance == Spec => []IInv
<1>1. Init => IInv
  BY InitHolds
<1>2. IInv /\ [Next]_vars => IInv'
  BY NextKeeps
<1>3. QED
  BY <1>1, <1>2, PTL DEF Spec

(* Every record, timer and list entry stays in its type: what the packets, *)
(* the timers and the resending do to the server's registry (server.c).    *)
THEOREM TypeCorrect == Spec => []TypeOK
<1>1. IInv => TypeOK
  BY DEF IInv
<1>2. QED
  BY <1>1, Invariance, PTL

(* No snake outlives its player, whichever of the five places drops it.    *)
THEOREM SnakesHavePlayers == Spec => []NoOrphans
<1>1. IInv => NoOrphans
  BY DEF IInv
<1>2. QED
  BY <1>1, Invariance, PTL

(* A player on the malicious list is not registered: it was dropped when   *)
(* it was listed, and its packets are not dispatched.                      *)
THEOREM ListedStayOut == Spec => []ListedAreOut
<1>1. IInv => ListedAreOut
  BY DEF IInv
<1>2. QED
  BY <1>1, Invariance, PTL

(* max_players bounds the players and the ids of their snakes, although an *)
(* id may be given out twice.                                              *)
THEOREM CapacityIsKept == Spec => []WithinCapacity
<1>1. IInv => WithinCapacity
  BY DEF IInv
<1>2. QED
  BY <1>1, Invariance, PTL

(* A step of the timers drops only players silent for half the timeout:    *)
(* timeout_counter advances at most twice a round.                         *)
THEOREM TimeoutsAreOfTheSilent == Spec => OnlySilentTimeOut
<1> DEFINE P == stage = "timers" =>
                  \A a \in Registered \ DOMAIN clients' : 2 * (clients[a].silent + 1) > Limit
<1>1. IInv /\ [Next]_vars => [P]_vars
  <2>1. SUFFICES ASSUME IInv, Next, stage = "timers", NEW a \in Registered \ DOMAIN clients'
        PROVE  2 * (clients[a].silent + 1) > Limit
    OBVIOUS
  <2>2. clients[a] \in ClientRecords /\ clients[a].timeout <= 2 * clients[a].silent + 1
    BY <2>1 DEF IInv, TypeOK, Silence
  <2>3. Timers \/ \E b \in Addr : Vanish(b)
    BY <2>1 DEF Next, Loop, EndRecv, Sim, UpdateSnakesInRange, QueueSnakeData,
       SendPendingData, Packet, PacketIgnored, JoinDenied, JoinAccepted, JoinRepeated,
       Commands, Leave, Misbehave, Receives
  <2>4. Timers
    BY <2>1, <2>3 DEF Vanish, Registered
  <2>5. DOMAIN clients' = Registered \ TimedOut
    BY <2>4 DEF Timers
  <2>6. clients[a].timeout + 1 > Limit
    BY <2>1, <2>5 DEF TimedOut
  <2>7. clients[a].timeout \in Nat /\ clients[a].silent \in Nat /\ Limit \in Nat
    BY <2>2, Record, Constants
  <2>8. QED
    BY <2>2, <2>6, <2>7
<1>2. QED
  BY <1>1, Invariance, PTL DEF Spec, OnlySilentTimeOut

=============================================================================
