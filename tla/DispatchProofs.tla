---------------------------- MODULE DispatchProofs ----------------------------
(***************************************************************************)
(* No search offers a job to its own passenger, and none ends with         *)
(* NO_DRIVER_AVAILABLE over a driver who was free in a nearby room all     *)
(* along: proofs, for any number of accounts, sockets, spots and searches, *)
(* any crash and nothing assumed of the apps, that DispatchSound is an     *)
(* invariant. Most steps are Quiet: they look into no room, and change     *)
(* sockets in what no search relies on. At the end: no search draws a      *)
(* driver within the minute after a rejection, if drivers connect when     *)
(* they have rested, whatever searches and rejections overlap.             *)
(***************************************************************************)
EXTENDS Dispatch, TLAPS

\* What a step does to sockets that are known: they keep account and room.
SocketsKept ==
  \A x \in Sockets : sock[x].state # "new" =>
    /\ sock'[x].state # "new"
    /\ sock'[x].account = sock[x].account
    /\ sock[x].room # None /\ sock'[x].state # "closed" => sock'[x].room = sock[x].room

SearchesQuiet ==
  \A h \in Handlers : \/ search'[h] \in {search[h], Idle}
                      \/ \E u \in Users : search'[h] = Begun(u)

SearchType ==
  [pc: PCs, user: Users \cup {None}, near: Nearby \cup {<<>>}, next: Nat,
   seen: SUBSET Sockets, pick: Sockets \cup {None}]

\* TypeOK but for the history.
ServerTypeOK ==
  /\ home \in [Drivers -> Spots \cup {None}]
  /\ sock \in [Sockets -> SocketData]
  /\ search \in [Handlers -> SearchType]
  /\ offers \subseteq [driver: Drivers, user: Users]
  /\ rest \in [Drivers -> 0..Minute]
-----------------------------------------------------------------------------
\* The two constructors build what the types ask for.
LEMMA Constructed ==
  /\ Idle \in SearchType
  /\ \A u \in Users : Begun(u) \in SearchType
  /\ \A account \in Drivers \cup {None}, state \in States,
       room \in Spots \cup {None}, read \in Spots \cup {None},
       cooldown \in {None} \cup 0..Minute :
       Socket(account, state, room, read, cooldown) \in SocketData
  BY DEF Idle, Begun, Search, SearchType, PCs, Socket, SocketData

\* The sockets of a room are sockets.
LEMMA RoomOfSockets == \A spot : Room(spot) \subseteq Sockets
  BY DEF Room

\* What a search goes on with is a search.
LEMMA WentOn ==
  ASSUME NEW j \in SearchType, j.near \in Nearby, j.next \in 1..Len(j.near),
         NEW pick \in Sockets \cup {None}
  PROVE  GoOn(j, pick) \in SearchType
<1> DEFINE n == j.next
<1>1. n \in Nat /\ n + 1 \in Nat
  BY DEF SearchType
<1>2. j.user \in Users \cup {None} /\ j.near \in Nearby \cup {<<>>}
  BY DEF SearchType
<1>3. Room(j.near[n + 1]) \in SUBSET Sockets
  BY RoomOfSockets
<1> HIDE DEF n
<1>4. Search("look", j.user, j.near, n + 1, Room(j.near[n + 1]), pick) \in SearchType
  BY <1>1, <1>2, <1>3 DEF Search, SearchType, PCs
<1>5. Search(IF pick = None THEN "nobody" ELSE "offer", j.user, j.near, 0, {}, pick)
        \in SearchType
  BY <1>2 DEF Search, SearchType, PCs
<1> QED
  BY <1>4, <1>5 DEF GoOn, n
-----------------------------------------------------------------------------
\* Time, status and closing change single fields of a socket.
LEMMA FieldsKept ==
  ASSUME NEW r \in SocketData
  PROVE  /\ [r EXCEPT !.state = "closed", !.room = None, !.read = None] \in SocketData
         /\ \A status \in BOOLEAN : [r EXCEPT !.online = status] \in SocketData
         /\ [r EXCEPT !.cooldown = Minute] \in SocketData
         /\ [r EXCEPT !.cooldown = IF @ \in {None, 0} THEN @ ELSE @ - 1] \in SocketData
<1>1. Minute \in 0..Minute
  BY MinuteIsPositive
<1>2. r.cooldown \in {None} \cup 0..Minute
  BY DEF SocketData
<1>3. (IF r.cooldown \in {None, 0} THEN r.cooldown ELSE r.cooldown - 1)
        \in {None} \cup 0..Minute
  BY <1>2, MinuteIsPositive
<1> QED
  BY <1>1, <1>3 DEF SocketData, States
-----------------------------------------------------------------------------
\* A rejection sets a cooldown and leaves the rest of the sockets alone.
LEMMA CooledDown ==
  ASSUME sock \in [Sockets -> SocketData], rest \in [Drivers -> 0..Minute], SocketsSound,
         NEW x \in Sockets, Open(x), CoolDown(x)
  PROVE  /\ sock' \in [Sockets -> SocketData] /\ rest' \in [Drivers -> 0..Minute]
         /\ SocketsSound' /\ SocketsKept
<1>1. sock[x].account \in Drivers
  BY DEF Open, SocketsSound
<1>2. \/ sock' = sock /\ rest' = rest
      \/ /\ sock' = [sock EXCEPT ![x] = [sock[x] EXCEPT !.cooldown = Minute]]
         /\ rest' = [rest EXCEPT ![sock[x].account] = Minute]
  BY DEF CoolDown, Put
<1>3. rest' \in [Drivers -> 0..Minute]
  BY <1>1, <1>2, MinuteIsPositive
<1>4. [sock[x] EXCEPT !.cooldown = Minute] \in SocketData
  BY FieldsKept
<1>5. sock' \in [Sockets -> SocketData]
  BY <1>2, <1>4
<1>6. \A y \in Sockets :
        /\ sock'[y].account = sock[y].account /\ sock'[y].room = sock[y].room
        /\ sock'[y].state = sock[y].state
  BY <1>2 DEF SocketData
<1> QED
  BY <1>3, <1>5, <1>6 DEF SocketsSound, SocketsKept

\* Connections, status, time and the end of the process keep what searches know.
LEMMA SocketSteps ==
  ASSUME ServerTypeOK, SocketsSound,
         \/ \E x \in Sockets : Connection(x)
         \/ Tick
         \/ Crash
  PROVE  ServerTypeOK' /\ SocketsSound' /\ SocketsKept /\ SearchesQuiet /\ offers' = offers
<1> USE DEF ServerTypeOK
<1>1. CASE \E x \in Sockets, d \in Drivers : Connect(x, d)
  <2>1. PICK x \in Sockets, d \in Drivers : Connect(x, d)
    BY <1>1
  <2> DEFINE s == Socket(d, "joining", None, home[d], None)
  <2>2. s \in SocketData
    BY Constructed DEF States
  <2>3. s.account = d /\ s.state = "joining" /\ s.room = None
    BY DEF Socket
  <2> HIDE DEF s
  <2>4. sock' = [sock EXCEPT ![x] = s] /\ sock[x].state = "new"
    BY <2>1 DEF Connect, Put, s
  <2>5. UNCHANGED <<home, search, offers, rest>>
    BY <2>1 DEF Connect
  <2> QED
    BY <2>2, <2>3, <2>4, <2>5 DEF SocketsSound, SocketsKept, SearchesQuiet
<1>2. CASE \E x \in Sockets : Join(x)
  <2>1. PICK x \in Sockets : Join(x)
    BY <1>2
  <2> DEFINE s == Socket(sock[x].account, "ready", sock[x].read, sock[x].read, sock[x].cooldown)
  <2>2. sock[x] \in SocketData
    OBVIOUS
  <2>3. s \in SocketData
    BY <2>2, Constructed DEF States, SocketData
  <2>4. s.account = sock[x].account /\ s.state = "ready"
    BY DEF Socket
  <2> HIDE DEF s
  <2>5. sock' = [sock EXCEPT ![x] = s] /\ sock[x].state = "joining"
    BY <2>1 DEF Join, Put, s
  <2>6. UNCHANGED <<home, search, offers, rest>>
    BY <2>1 DEF Join
  <2> QED
    BY <2>3, <2>4, <2>5, <2>6 DEF SocketsSound, SocketsKept, SearchesQuiet
<1>3. CASE Die
  <2>1. UNCHANGED <<home, offers, rest>> /\ search' = [h \in Handlers |-> Idle]
    BY <1>3 DEF Die
  <2>2. \A x \in Sockets : sock'[x] \in {sock[x], Closed(x)}
                           /\ (sock[x].state = "new" => sock'[x] = sock[x])
    BY <1>3 DEF Die, Open
  <2>3. sock' \in [Sockets -> SocketData]
    BY <1>3, <2>2, FieldsKept DEF Die, Closed
  <2>4. search' \in [Handlers -> SearchType]
    BY <2>1, Constructed
  <2>5. SearchesQuiet
    BY <2>1 DEF SearchesQuiet
  <2>6. \A x \in Sockets :
          /\ sock'[x].account = sock[x].account
          /\ sock'[x].state \in {sock[x].state, "closed"}
          /\ sock'[x].state # "closed" => sock'[x] = sock[x]
          /\ sock[x].state = "new" => sock'[x] = sock[x]
    <3>1. \A x \in Sockets : Closed(x).account = sock[x].account /\ Closed(x).state = "closed"
      BY DEF SocketData, Closed
    <3> QED
      BY <2>2, <3>1
  <2>7. SocketsSound' /\ SocketsKept
    BY <2>2, <2>6 DEF SocketsSound, SocketsKept
  <2> QED
    BY <2>1, <2>3, <2>4, <2>5, <2>7
<1>4. CASE \E x \in Sockets : Close(x)
  <2>1. PICK x \in Sockets : Close(x)
    BY <1>4
  <2>2. /\ sock' = [sock EXCEPT ![x] = Closed(x)]
        /\ sock[x].state \in {"joining", "ready"}
        /\ UNCHANGED <<home, search, offers, rest>>
    BY <2>1 DEF Close, Put, Open
  <2>3. Closed(x) \in SocketData
    BY FieldsKept DEF Closed
  <2>4. sock'[x].account = sock[x].account /\ sock'[x].state = "closed"
    BY <2>2 DEF SocketData, Closed
  <2>5. ServerTypeOK'
    BY <2>2, <2>3
  <2>6. \A y \in Sockets \ {x} : sock'[y] = sock[y]
    BY <2>2
  <2> QED
    BY <2>2, <2>4, <2>5, <2>6 DEF SocketsSound, SocketsKept, SearchesQuiet
<1>5. CASE \E x \in Sockets, status \in BOOLEAN : UpdateDriverStatus(x, status)
  <2>1. PICK x \in Sockets, status \in BOOLEAN : UpdateDriverStatus(x, status)
    BY <1>5
  <2>2. /\ sock' = [sock EXCEPT ![x] = [sock[x] EXCEPT !.online = status]]
        /\ UNCHANGED <<home, search, offers, rest>>
    BY <2>1 DEF UpdateDriverStatus, Put
  <2>3. [sock[x] EXCEPT !.online = status] \in SocketData
    BY FieldsKept
  <2>4. /\ sock'[x].account = sock[x].account /\ sock'[x].room = sock[x].room
        /\ sock'[x].state = sock[x].state
    BY <2>2 DEF SocketData
  <2>5. ServerTypeOK'
    BY <2>2, <2>3
  <2>6. \A y \in Sockets \ {x} : sock'[y] = sock[y]
    BY <2>2
  <2> QED
    BY <2>2, <2>4, <2>5, <2>6 DEF SocketsSound, SocketsKept, SearchesQuiet
<1>6. CASE Tick
  <2>1. sock' \in [Sockets -> SocketData]
    BY <1>6, FieldsKept DEF Tick
  <2>2. \A x \in Sockets :
          /\ sock'[x].account = sock[x].account /\ sock'[x].room = sock[x].room
          /\ sock'[x].state = sock[x].state
    BY <1>6 DEF Tick, SocketData
  <2>3. \A n \in 0..Minute : (IF n = 0 THEN 0 ELSE n - 1) \in 0..Minute
    BY MinuteIsPositive
  <2>5. rest' \in [Drivers -> 0..Minute]
    BY <1>6, <2>3 DEF Tick
  <2>4. UNCHANGED <<home, search, offers>>
    BY <1>6 DEF Tick
  <2> QED
    BY <2>1, <2>2, <2>4, <2>5 DEF SocketsSound, SocketsKept, SearchesQuiet
<1>7. CASE \E x \in Sockets : RejectNowhere(x)
  <2>1. PICK x \in Sockets : RejectNowhere(x)
    BY <1>7
  <2>2. UNCHANGED <<home, search, offers>> /\ Open(x) /\ CoolDown(x)
    BY <2>1 DEF RejectNowhere
  <2> QED
    BY <2>2, CooledDown DEF SearchesQuiet
<1> QED
  BY <1>1, <1>2, <1>3, <1>4, <1>5, <1>6, <1>7 DEF Connection, Refuse, Crash

\* The messages that begin a search, and the end of one.
LEMMA MessageSteps ==
  ASSUME ServerTypeOK, SocketsSound,
         \/ \E h \in Handlers, u \in Users : RequestDrive(h, u)
         \/ \E h \in Handlers, x \in Sockets, u \in Users : Reject(h, x, u)
         \/ \E o \in offers : Accept(o)
         \/ \E d \in Drivers, s \in Spots \cup {None} : ChangeSpot(d, s)
         \/ \E h \in Handlers : NoNearbySpot(h) \/ GiveUp(h)
  PROVE  ServerTypeOK' /\ SocketsSound' /\ SocketsKept /\ SearchesQuiet /\ offers' \subseteq offers
<1> USE DEF ServerTypeOK
<1>1. CASE \E h \in Handlers, u \in Users : RequestDrive(h, u)
  BY <1>1, Constructed DEF RequestDrive, SocketsSound, SocketsKept, SearchesQuiet
<1>2. CASE \E h \in Handlers, x \in Sockets, u \in Users : Reject(h, x, u)
  <2>1. PICK h \in Handlers, x \in Sockets, u \in Users : Reject(h, x, u)
    BY <1>2
  <2>2. /\ search' = [search EXCEPT ![h] = Begun(u)]
        /\ offers' \subseteq offers
        /\ home' = home
        /\ Open(x) /\ CoolDown(x)
    BY <2>1 DEF Reject
  <2>3. search' \in [Handlers -> SearchType] /\ SearchesQuiet
    BY <2>2, Constructed DEF SearchesQuiet
  <2> QED
    BY <2>2, <2>3, CooledDown
<1>3. CASE \E o \in offers : Accept(o)
  BY <1>3 DEF Accept, SocketsSound, SocketsKept, SearchesQuiet
<1>4. CASE \E d \in Drivers, s \in Spots \cup {None} : ChangeSpot(d, s)
  BY <1>4 DEF ChangeSpot, SocketsSound, SocketsKept, SearchesQuiet
<1>5. CASE \E h \in Handlers : NoNearbySpot(h) \/ GiveUp(h)
  BY <1>5, Constructed
  DEF NoNearbySpot, GiveUp, Return, SocketsSound, SocketsKept, SearchesQuiet
<1> QED
  BY <1>1, <1>2, <1>3, <1>4, <1>5
-----------------------------------------------------------------------------
\* What the history of a search may be after a step.
LEMMA Watched ==
  ASSUME Watch, steady \in [Handlers -> SUBSET Sockets]
  PROVE  /\ steady' \in [Handlers -> SUBSET Sockets]
         /\ SteadyAreEligible'
         /\ \A h \in Handlers :
              /\ search[h].pc # "spots" => steady'[h] \subseteq steady[h]
              /\ search'[h].pc \in {"idle", "spots"} => steady'[h] = {}
<1>1. \A h \in Handlers : Eligible(h)' \subseteq Sockets
  BY DEF Eligible
<1>2. \A h \in Handlers :
        steady'[h] = IF search'[h].pc \in {"idle", "spots"} THEN {}
                     ELSE IF search[h].pc = "spots" THEN Eligible(h)'
                     ELSE steady[h] \cap Eligible(h)'
  BY DEF Watch
<1>3. steady' \in [Handlers -> SUBSET Sockets]
  BY <1>1 DEF Watch
<1>4. SteadyAreEligible'
  BY <1>2 DEF SteadyAreEligible
<1> QED
  BY <1>2, <1>3, <1>4

\* Which spot a steady socket stands in.
LEMMA SteadyStand ==
  ASSUME SteadyAreEligible, NEW h \in Handlers, NEW x \in steady[h],
         search[h].near \in Nearby
  PROVE  /\ x \in Sockets /\ Open(x) /\ Available(x)
         /\ \E i \in 1..Len(search[h].near) : sock[x].room = search[h].near[i]
         /\ sock[x].room \in Spots /\ sock[x].room # None
         /\ sock[x].state # "new"
<1>1. x \in Eligible(h)
  BY DEF SteadyAreEligible
<1>2. PICK i \in 1..Len(search[h].near) : sock[x].room = search[h].near[i]
  BY <1>1 DEF Eligible
<1>3. search[h].near \in Seq(Spots)
  BY NearbyAreSpots
<1>4. search[h].near[i] \in Spots
  BY <1>2, <1>3
<1> QED
  BY <1>1, <1>2, <1>4, NoneIsNobody DEF Eligible, Open

\* A search that a step leaves alone, or ends or begins, stays as it should be.
LEMMA SameSearch ==
  ASSUME ServerTypeOK, SearchesSound, SteadyAreEligible, SteadyAreSeen,
         SocketsKept, NEW h \in Handlers, steady'[h] \subseteq steady[h],
         SteadyAreEligible', search'[h] = search[h]
  PROVE  SearchSound(h)' /\ SteadySeen(h)'
<1>1. search[h] \in SearchType /\ SearchSound(h) /\ SteadySeen(h)
  BY DEF ServerTypeOK, SearchesSound, SteadyAreSeen
<1>2. \A x \in search[h].seen : x \in Sockets /\ sock[x].state # "new"
  BY <1>1 DEF SearchSound, SearchType
<1>3. search[h].pick # None =>
        /\ search[h].pick \in Sockets
        /\ sock[search[h].pick].state # "new" /\ sock[search[h].pick].account # search[h].user
  BY <1>1 DEF SearchSound, SearchType
<1>4. ASSUME search[h].pc = "look", NEW x \in steady'[h]
      PROVE  /\ sock'[x].room = sock[x].room
             /\ sock[x].room = search[h].near[search[h].next] => x \in search[h].seen
             /\ /\ search[h].user \notin Drivers
                /\ \E i \in 1..(search[h].next - 1) : sock[x].room = search[h].near[i]
                => search[h].pick # None
  <2>1. search[h].near \in Nearby
    BY <1>1, <1>4 DEF SearchSound
  <2>2. x \in Sockets /\ sock[x].state # "new" /\ sock[x].room # None
    BY <2>1, SteadyStand
  <2>3. sock'[x].state # "closed"
    BY DEF SteadyAreEligible, Eligible, Open
  <2> QED
    BY <1>1, <1>4, <2>2, <2>3 DEF SocketsKept, SteadySeen
<1>5. search[h].pc = "nobody" /\ search[h].user \notin Drivers => steady[h] = {}
  BY <1>1 DEF SteadySeen
<1>6. SearchSound(h)'
  BY <1>1, <1>2, <1>3 DEF SearchSound, SocketsKept
<1>7. SteadySeen(h)'
  BY <1>4, <1>5 DEF SteadySeen
<1> QED
  BY <1>6, <1>7

\* A search that a step begins or ends.
LEMMA NewSearches ==
  /\ Idle.pc = "idle" /\ Idle.near = <<>> /\ Idle.seen = {} /\ Idle.pick = None
  /\ \A u \in Users :
       /\ Begun(u).pc = "spots" /\ Begun(u).near = <<>> /\ Begun(u).seen = {}
       /\ Begun(u).pick = None /\ Begun(u).user = u
  BY DEF Idle, Begun, Search

\* Such a search is as it should be.
LEMMA NewSearch ==
  ASSUME NEW h \in Handlers, steady'[h] = {},
         search'[h] = Idle \/ \E u \in Users : search'[h] = Begun(u)
  PROVE  SearchSound(h)' /\ SteadySeen(h)'
<1>1. /\ search'[h].pc \in {"idle", "spots"} /\ search'[h].near = <<>>
      /\ search'[h].seen = {} /\ search'[h].pick = None
      /\ search'[h].pc # "idle" => search'[h].user \in Users
  BY NewSearches
<1> QED
  BY <1>1 DEF SearchSound, SteadySeen

\* What a quiet step does to searches and offers.
LEMMA QuietSound ==
  ASSUME DispatchSound, SocketsKept, SearchesQuiet, Watch, offers' \subseteq offers
  PROVE  SearchesSound' /\ SteadyAreSeen' /\ NobodyDrivesThemselves'
<1> USE DEF DispatchSound
<1>1. ServerTypeOK /\ steady \in [Handlers -> SUBSET Sockets]
  BY DEF ServerTypeOK, TypeOK, SearchType
<1>2. ASSUME NEW h \in Handlers
      PROVE  SearchSound(h)' /\ SteadySeen(h)'
  <2>1. CASE search'[h] = search[h]
    <3>1. steady'[h] \subseteq steady[h] /\ SteadyAreEligible'
      BY <1>1, <2>1, Watched
    <3> QED
      BY <1>1, <2>1, <3>1, SameSearch
  <2>2. CASE search'[h] = Idle \/ \E u \in Users : search'[h] = Begun(u)
    <3>1. search'[h].pc \in {"idle", "spots"}
      BY <2>2, NewSearches
    <3>2. steady'[h] = {}
      BY <1>1, <3>1, Watched
    <3> QED
      BY <2>2, <3>2, NewSearch
  <2> QED
    BY <2>1, <2>2 DEF SearchesQuiet
<1>3. NobodyDrivesThemselves'
  BY DEF NobodyDrivesThemselves
<1> QED
  BY <1>2, <1>3 DEF SearchesSound, SteadyAreSeen

\* What a step of one search leaves to prove: that search.
LEMMA OneSearch ==
  ASSUME DispatchSound, Watch, UNCHANGED sock, NEW h \in Handlers,
         \A g \in Handlers \ {h} : search'[g] = search[g],
         SearchSound(h)', SteadySeen(h)'
  PROVE  SearchesSound' /\ SteadyAreSeen'
<1>1. ServerTypeOK /\ steady \in [Handlers -> SUBSET Sockets]
  BY DEF DispatchSound, ServerTypeOK, TypeOK, SearchType
<1>2. SocketsKept
  BY DEF SocketsKept
<1>3. ASSUME NEW g \in Handlers \ {h}
      PROVE  SearchSound(g)' /\ SteadySeen(g)'
  <2>1. steady'[g] \subseteq steady[g] /\ SteadyAreEligible'
    BY <1>1, Watched
  <2> QED
    BY <1>1, <1>2, <2>1, SameSearch DEF DispatchSound
<1> QED
  BY <1>3 DEF SearchesSound, SteadyAreSeen
-----------------------------------------------------------------------------
\* A search that looks into its first room sees the steady sockets of the room.
LEMMA LookSound ==
  ASSUME DispatchSound, Watch, NEW h \in Handlers, NEW near \in Nearby, Look(h, near)
  PROVE  SearchesSound' /\ SteadyAreSeen'
<1> DEFINE new == Search("look", search[h].user, near, 1, Room(near[1]), None)
<1>1. /\ search' = [search EXCEPT ![h] = new] /\ search[h].pc = "spots"
      /\ UNCHANGED sock
  BY DEF Look
<1>2. /\ new.pc = "look" /\ new.user = search[h].user /\ new.near = near
      /\ new.next = 1 /\ new.seen = Room(near[1]) /\ new.pick = None
  BY DEF Search
<1> HIDE DEF new
<1>3. search'[h] = new /\ \A g \in Handlers \ {h} : search'[g] = search[g]
  BY <1>1 DEF DispatchSound, TypeOK
<1>4. near \in Seq(Spots) /\ near # <<>> /\ 1 \in 1..Len(near)
  BY NearbyAreSpots
<1>5. search[h].user \in Users
  BY <1>1 DEF DispatchSound, SearchesSound, SearchSound
<1>6. \A x \in new.seen : sock[x].state # "new"
  BY <1>2 DEF Room, Open
<1>7. SearchSound(h)'
  BY <1>1, <1>2, <1>3, <1>4, <1>5, <1>6 DEF SearchSound
<1>8. steady'[h] \subseteq Eligible(h)'
  BY Watched DEF DispatchSound, TypeOK, SteadyAreEligible
<1>9. \A x \in steady'[h] : x \in Sockets /\ Open(x)
  BY <1>1, <1>8 DEF Eligible, Open
<1>10. \A x \in steady'[h] : sock[x].room = near[1] => x \in new.seen
  BY <1>2, <1>9 DEF Room
<1>11. SteadySeen(h)'
  BY <1>1, <1>2, <1>3, <1>10 DEF SteadySeen
<1> QED
  BY <1>1, <1>3, <1>7, <1>11, OneSearch

\* What a search goes on with, field by field.
LEMMA GoOnFields ==
  ASSUME NEW j, NEW pick
  PROVE  LET new == GoOn(j, pick) IN
         /\ new.user = j.user /\ new.near = j.near /\ new.pick = pick
         /\ j.next < Len(j.near) =>
              /\ new.pc = "look" /\ new.next = j.next + 1
              /\ new.seen = Room(j.near[j.next + 1])
         /\ ~(j.next < Len(j.near)) =>
              /\ new.pc = (IF pick = None THEN "nobody" ELSE "offer")
              /\ new.seen = {}
  BY DEF GoOn, Search

\* A search that leaves a room has a driver if one of the rooms behind held a steady
\* socket, and has not kept the passenger's own.
LEMMA PickSound ==
  ASSUME DispatchSound, Watch, NEW h \in Handlers, Pick(h)
  PROVE  SearchesSound' /\ SteadyAreSeen'
<1> DEFINE j == search[h]
           available == {x \in j.seen : Available(x)}
           Keep(x) == IF sock[x].account = j.user THEN j.pick ELSE x
<1>1. /\ j.pc = "look" /\ UNCHANGED sock
      /\ \/ available = {} /\ search' = [search EXCEPT ![h] = GoOn(j, j.pick)]
         \/ \E x \in available : search' = [search EXCEPT ![h] = GoOn(j, Keep(x))]
  BY DEF Pick
<1>2. PICK pick :
        /\ search' = [search EXCEPT ![h] = GoOn(j, pick)]
        /\ \/ available = {} /\ pick = j.pick
           \/ \E x \in available : pick = Keep(x)
  BY <1>1
<1>3. SearchSound(h) /\ SteadySeen(h) /\ j \in SearchType
  BY DEF DispatchSound, SearchesSound, SteadyAreSeen, TypeOK, SearchType
<1>4. j.user \in Users /\ j.near \in Nearby /\ j.next \in 1..Len(j.near)
  BY <1>1, <1>3 DEF SearchSound
<1>5. j.near \in Seq(Spots) /\ Len(j.near) \in Nat /\ j.next \in Nat
  BY <1>4, NearbyAreSpots
<1>6. \A x \in j.seen : x \in Sockets /\ sock[x].state # "new" /\ sock[x].account \in Drivers
  BY <1>3 DEF SearchSound, SearchType, DispatchSound, SocketsSound
<1>7. pick # None => sock[pick].state # "new" /\ sock[pick].account # j.user
  BY <1>2, <1>3, <1>6 DEF SearchSound
<1>8. j.user \notin Drivers /\ available # {} => pick # None
  BY <1>2, <1>6, NoneIsNobody
<1>9. j.pick # None => pick # None
  BY <1>2, <1>6, NoneIsNobody
<1>10. search'[h] = GoOn(j, pick) /\ \A g \in Handlers \ {h} : search'[g] = search[g]
  BY <1>2 DEF DispatchSound, TypeOK
<1> DEFINE new == GoOn(j, pick)
<1>11. /\ new.user = j.user /\ new.near = j.near /\ new.pick = pick
       /\ j.next < Len(j.near) =>
            /\ new.pc = "look" /\ new.next = j.next + 1
            /\ new.seen = Room(j.near[j.next + 1])
       /\ ~(j.next < Len(j.near)) =>
            /\ new.pc = (IF pick = None THEN "nobody" ELSE "offer")
            /\ new.seen = {}
  BY GoOnFields
<1> HIDE DEF new
<1>12. search'[h] = new
  BY <1>10 DEF new
<1>13. \A x \in new.seen : sock[x].state # "new"
  BY <1>11 DEF Room, Open
<1>14. SearchSound(h)'
  <2>1. new.pc \in {"look", "nobody", "offer"} /\ (new.pc = "offer" => pick # None)
    BY <1>11
  <2>2. new.pc = "look" => new.next \in 1..Len(new.near)
    BY <1>5, <1>11
  <2> QED
    BY <1>1, <1>4, <1>7, <1>11, <1>12, <1>13, <2>1, <2>2 DEF SearchSound
\* The steady sockets of the rooms up to this one.
<1>15. steady'[h] \subseteq steady[h] /\ steady'[h] \subseteq Eligible(h)'
  BY <1>1, Watched DEF DispatchSound, TypeOK, SteadyAreEligible
<1>16. \A x \in steady'[h] : x \in Sockets /\ Open(x) /\ Available(x)
  BY <1>4, <1>15, SteadyStand DEF DispatchSound
<1>17. ASSUME NEW x \in steady'[h], j.user \notin Drivers, NEW i \in 1..j.next,
              sock[x].room = j.near[i]
       PROVE  pick # None
  <2>1. CASE i = j.next
    <3>1. x \in available
      BY <1>1, <1>3, <1>15, <1>16, <1>17, <2>1 DEF SteadySeen
    <3> QED
      BY <1>8, <1>17, <3>1
  <2>2. CASE i # j.next
    <3>1. i \in 1..(j.next - 1)
      BY <1>5, <2>2
    <3>2. j.pick # None
      BY <1>1, <1>3, <1>15, <1>17, <3>1 DEF SteadySeen
    <3> QED
      BY <1>9, <3>2
  <2> QED
    BY <2>1, <2>2
<1>18. ASSUME new.pc = "look", NEW x \in steady'[h]
       PROVE  /\ sock[x].room = new.near[new.next] => x \in new.seen
              /\ /\ new.user \notin Drivers
                 /\ \E i \in 1..(new.next - 1) : sock[x].room = new.near[i]
                 => new.pick # None
  <2>1. j.next < Len(j.near)
    BY <1>11, <1>18
  <2>2. new.next - 1 = j.next
    BY <1>5, <1>11, <2>1
  <2>3. sock[x].room = new.near[new.next] => x \in new.seen
    BY <1>11, <1>16, <2>1 DEF Room
  <2> QED
    BY <1>11, <1>17, <2>2, <2>3
<1>19. ASSUME new.pc = "nobody", new.user \notin Drivers
       PROVE  steady'[h] = {}
  <2>1. ~(j.next < Len(j.near)) /\ pick = None
    BY <1>11, <1>19
  <2>2. j.next = Len(j.near)
    BY <1>4, <1>5, <2>1
  <2>3. ASSUME NEW x \in steady'[h] PROVE FALSE
    <3>1. PICK i \in 1..Len(j.near) : sock[x].room = j.near[i]
      BY <1>4, <1>15, SteadyStand DEF DispatchSound
    <3> QED
      BY <1>11, <1>17, <1>19, <2>1, <2>2, <3>1
  <2> QED
    BY <2>3
<1>20. SteadySeen(h)'
  BY <1>1, <1>12, <1>18, <1>19 DEF SteadySeen
<1> QED
  BY <1>1, <1>10, <1>14, <1>20, OneSearch
-----------------------------------------------------------------------------
\* The steps of searches keep the types.
LEMMA SearchTypes ==
  ASSUME ServerTypeOK, SearchesSound, NEW h \in Handlers,
         Pick(h) \/ \E near \in Nearby : Look(h, near)
  PROVE  ServerTypeOK' /\ UNCHANGED <<sock, offers>>
<1> USE DEF ServerTypeOK
<1>1. CASE \E near \in Nearby : Look(h, near)
  <2>1. PICK near \in Nearby : Look(h, near)
    BY <1>1
  <2>2. search[h].user \in Users
    BY <2>1 DEF Look, SearchesSound, SearchSound
  <2>3. Room(near[1]) \in SUBSET Sockets
    BY RoomOfSockets
  <2>4. Search("look", search[h].user, near, 1, Room(near[1]), None) \in SearchType
    BY <2>2, <2>3 DEF Search, SearchType, PCs
  <2> QED
    BY <2>1, <2>4 DEF Look
<1>2. CASE Pick(h)
  <2> DEFINE j == search[h]
  <2>1. j \in SearchType
    OBVIOUS
  <2>2. j.near \in Nearby /\ j.next \in 1..Len(j.near)
    BY <1>2 DEF Pick, SearchesSound, SearchSound
  <2>3. /\ UNCHANGED <<home, sock, offers, rest>>
        /\ \E pick : /\ pick = j.pick \/ pick \in j.seen
                     /\ search' = [search EXCEPT ![h] = GoOn(j, pick)]
    BY <1>2 DEF Pick
  <2>4. PICK pick : /\ pick = j.pick \/ pick \in j.seen
                    /\ search' = [search EXCEPT ![h] = GoOn(j, pick)]
    BY <2>3
  <2>5. pick \in Sockets \cup {None}
    BY <2>1, <2>4 DEF SearchType
  <2>6. GoOn(j, pick) \in SearchType
    BY <2>1, <2>2, <2>5, WentOn
  <2> QED
    BY <2>3, <2>4, <2>6
<1> QED
  BY <1>1, <1>2

\* An offer goes to an account that is not the passenger's.
LEMMA OfferSteps ==
  ASSUME DispatchSound, Watch, NEW h \in Handlers, Offer(h)
  PROVE  /\ ServerTypeOK' /\ UNCHANGED sock
         /\ SearchesSound' /\ SteadyAreSeen' /\ NobodyDrivesThemselves'
<1>1. /\ search[h].pc = "offer" /\ search' = [search EXCEPT ![h] = Idle]
      /\ offers' \subseteq offers \cup {[driver |-> Picked(h), user |-> search[h].user]}
      /\ UNCHANGED <<home, sock, rest>>
  BY DEF Offer, Return
<1>2. SearchSound(h) /\ ServerTypeOK
  BY DEF DispatchSound, SearchesSound, TypeOK, ServerTypeOK, SearchType
<1>3. /\ search[h].user \in Users /\ search[h].pick \in Sockets
      /\ sock[search[h].pick].state # "new" /\ Picked(h) # search[h].user
  BY <1>1, <1>2 DEF SearchSound, Picked, ServerTypeOK, SearchType
<1>4. Picked(h) \in Drivers
  BY <1>3 DEF DispatchSound, SocketsSound, Picked
<1>5. ServerTypeOK'
  BY <1>1, <1>2, <1>3, <1>4, Constructed DEF ServerTypeOK
<1>6. NobodyDrivesThemselves'
  BY <1>1, <1>3 DEF DispatchSound, NobodyDrivesThemselves
<1>7. SocketsKept /\ SearchesQuiet
  BY <1>1, <1>2 DEF SocketsKept, SearchesQuiet, ServerTypeOK
<1>8. search'[h] = Idle /\ \A g \in Handlers \ {h} : search'[g] = search[g]
  BY <1>1, <1>2 DEF ServerTypeOK
<1>9. SearchSound(h)' /\ SteadySeen(h)'
  <2>1. steady'[h] = {}
    BY <1>8, NewSearches, Watched DEF DispatchSound, TypeOK
  <2> QED
    BY <1>8, <2>1, NewSearch
<1> QED
  BY <1>1, <1>5, <1>6, <1>8, <1>9, OneSearch

\* Every step keeps the invariant.
LEMMA DispatchStep ==
  ASSUME DispatchSound, [Next]_vars
  PROVE  DispatchSound'
<1>1. ServerTypeOK /\ SocketsSound /\ SearchesSound
  BY DEF DispatchSound, TypeOK, ServerTypeOK, SearchType
<1>2. CASE UNCHANGED vars
  BY <1>2
  DEF vars, DispatchSound, TypeOK, SocketsSound, SearchesSound, SearchSound, SteadyAreEligible,
      Eligible, Open, Available, SteadyAreSeen, SteadySeen, NobodyDrivesThemselves
<1>3. CASE Step /\ Watch
  <2>1. steady' \in [Handlers -> SUBSET Sockets] /\ SteadyAreEligible'
    BY <1>3, Watched DEF DispatchSound, TypeOK
  <2>2. SUFFICES /\ ServerTypeOK' /\ SocketsSound'
                 /\ SearchesSound' /\ SteadyAreSeen' /\ NobodyDrivesThemselves'
    BY <2>1 DEF DispatchSound, TypeOK, ServerTypeOK, SearchType
  <2>3. CASE \/ \E x \in Sockets : Connection(x)
             \/ Tick
             \/ Crash
    BY <1>1, <1>3, <2>3, SocketSteps, QuietSound
  <2>4. CASE \/ \E h \in Handlers, u \in Users : RequestDrive(h, u)
             \/ \E h \in Handlers, x \in Sockets, u \in Users : Reject(h, x, u)
             \/ \E o \in offers : Accept(o)
             \/ \E d \in Drivers, s \in Spots \cup {None} : ChangeSpot(d, s)
             \/ \E h \in Handlers : NoNearbySpot(h) \/ GiveUp(h)
    BY <1>1, <1>3, <2>4, MessageSteps, QuietSound
  <2>5. CASE \E h \in Handlers : Pick(h) \/ \E near \in Nearby : Look(h, near)
    <3>1. PICK h \in Handlers : Pick(h) \/ \E near \in Nearby : Look(h, near)
      BY <2>5
    <3>2. ServerTypeOK' /\ UNCHANGED <<sock, offers>>
      BY <1>1, <3>1, SearchTypes
    <3>3. SearchesSound' /\ SteadyAreSeen'
      BY <1>3, <3>1, LookSound, PickSound
    <3> QED
      BY <1>1, <3>2, <3>3 DEF SocketsSound, DispatchSound, NobodyDrivesThemselves
  <2>6. CASE \E h \in Handlers : Offer(h)
    BY <1>1, <1>3, <2>6, OfferSteps DEF SocketsSound
  <2> QED
    BY <1>3, <2>3, <2>4, <2>5, <2>6 DEF Step, Continue
<1> QED
  BY <1>2, <1>3 DEF Next

\* The first states.
LEMMA InitSound == Init => DispatchSound
<1> SUFFICES ASSUME Init
             PROVE  DispatchSound
  OBVIOUS
<1>1. NewSocket \in SocketData /\ NewSocket.state = "new" /\ NewSocket.room = None
  BY DEF NewSocket, Socket, SocketData, States
<1>2. ServerTypeOK
  BY <1>1, Constructed, MinuteIsPositive DEF Init, ServerTypeOK
<1>3. steady \in [Handlers -> SUBSET Sockets] /\ \A h \in Handlers : steady[h] = {}
  BY DEF Init
<1>4. TypeOK
  BY <1>2, <1>3 DEF TypeOK, ServerTypeOK, SearchType
<1>5. SocketsSound
  BY <1>1 DEF Init, SocketsSound
<1>6. SearchesSound
  BY NewSearches DEF Init, SearchesSound, SearchSound
<1>7. SteadyAreEligible /\ SteadyAreSeen
  BY <1>3 DEF SteadyAreEligible, SteadyAreSeen, SteadySeen
<1>8. NobodyDrivesThemselves
  BY DEF Init, NobodyDrivesThemselves
<1> QED
  BY <1>4, <1>5, <1>6, <1>7, <1>8 DEF DispatchSound

\* The invariant of the dispatch, for any number of drivers, sockets and searches.
THEOREM DispatchSoundHolds == Spec => []DispatchSound
  BY InitSound, DispatchStep, PTL DEF Spec

\* Nobody is offered the job of driving themselves.
THEOREM NobodyDrivesThemselvesHolds == Spec => []NobodyDrivesThemselves
<1>1. DispatchSound => NobodyDrivesThemselves
  BY DEF DispatchSound
<1> QED
  BY <1>1, DispatchSoundHolds, PTL

\* NO_DRIVER_AVAILABLE is not said over a driver who was free all along.
THEOREM FreeDriverFoundHolds == Spec => []FreeDriverFound
<1>1. DispatchSound => FreeDriverFound
  BY DEF DispatchSound, SteadyAreSeen, SteadySeen, FreeDriverFound
<1> QED
  BY <1>1, DispatchSoundHolds, PTL

\* Every variable of the dispatch keeps its shape.
THEOREM DispatchTypeCorrect == Spec => []TypeOK
<1>1. DispatchSound => TypeOK
  BY DEF DispatchSound
<1> QED
  BY <1>1, DispatchSoundHolds, PTL
-----------------------------------------------------------------------------
(***************************************************************************)
(* RestingAreNotDrawn. Most steps open no socket and leave the accounts    *)
(* and cooldowns of the open ones alone.                                   *)
(***************************************************************************)
CooldownsKept ==
  /\ rest' = rest
  /\ \A x \in Sockets : Open(x)' => /\ Open(x)
                                    /\ sock'[x].account = sock[x].account
                                    /\ sock'[x].cooldown = sock[x].cooldown

\* Such a step keeps what the cooldowns say.
LEMMA KeptRests ==
  ASSUME Rested, CooldownsKept
  PROVE  Rested'
BY DEF Rested, CooldownsKept, OneOpenEach, CooldownsRest

\* A driver who connects has rested, and has no other connection.
LEMMA ConnectRests ==
  ASSUME "connects_rested" \in Assumed, TypeOK, Rested,
         NEW x \in Sockets, NEW d \in Drivers, Connect(x, d)
  PROVE  Rested'
<1>1. rest[d] = 0 /\ \A y \in Sockets : Open(y) => sock[y].account # d
  BY DEF Connect, MayConnect
<1>2. /\ sock'[x].account = d /\ sock'[x].cooldown = None
      /\ \A y \in Sockets \ {x} : sock'[y] = sock[y]
      /\ rest' = rest
  BY DEF Connect, Put, Socket, TypeOK
<1>3. \A y \in Sockets \ {x} : Open(y)' = Open(y)
  BY <1>2 DEF Open
<1>4. OneOpenEach'
  BY <1>1, <1>2, <1>3 DEF Rested, OneOpenEach
<1>5. CooldownsRest'
  BY <1>1, <1>2, <1>3 DEF Rested, CooldownsRest
<1> QED
  BY <1>4, <1>5 DEF Rested

\* A rejection begins the minute on the driver's one open socket.
LEMMA RejectRests ==
  ASSUME TypeOK, SocketsSound, Rested,
         NEW x \in Sockets, Open(x), CoolDown(x)
  PROVE  Rested'
<1> DEFINE d == sock[x].account
<1>1. Open(x) /\ d \in Drivers
  BY DEF Open, SocketsSound
<1> HIDE DEF d
<1>2. CASE UNCHANGED <<sock, rest>>
  BY <1>2 DEF Rested, OneOpenEach, CooldownsRest, Open
<1>3. CASE /\ sock' = [sock EXCEPT ![x] = [sock[x] EXCEPT !.cooldown = Minute]]
           /\ rest' = [rest EXCEPT ![d] = Minute]
  <2>1. /\ sock'[x].account = d /\ sock'[x].cooldown = Minute
        /\ sock'[x].state = sock[x].state
        /\ \A y \in Sockets \ {x} : sock'[y] = sock[y]
        /\ rest'[d] = Minute
        /\ \A e \in Drivers \ {d} : rest'[e] = rest[e]
    BY <1>1, <1>3 DEF TypeOK, SocketData, d
  <2>2. \A y \in Sockets : /\ Open(y)' = Open(y) /\ sock'[y].account = sock[y].account
                           /\ Open(y) => sock[y].account \in Drivers
    BY <2>1 DEF Open, SocketsSound, d
  <2>3. \A y \in Sockets \ {x} : Open(y) => sock[y].account # d
    BY <1>1 DEF Rested, OneOpenEach, d
  <2>4. OneOpenEach'
    BY <2>2 DEF Rested, OneOpenEach
  <2>5. CooldownsRest'
    <3>1. Minute # None
      BY MinuteIsPositive, NoneIsNoTime
    <3>2. ASSUME NEW y \in Sockets \ {x}, Open(y)
          PROVE  rest'[sock'[y].account] =
                   IF sock'[y].cooldown = None THEN 0 ELSE sock'[y].cooldown
      <4>1. rest'[sock[y].account] = rest[sock[y].account] /\ sock'[y] = sock[y]
        BY <2>1, <2>2, <2>3, <3>2
      <4> QED
        BY <3>2, <4>1 DEF Rested, CooldownsRest
    <3> QED
      BY <2>1, <2>2, <3>1, <3>2 DEF CooldownsRest
  <2> QED
    BY <2>4, <2>5 DEF Rested
<1> QED
  BY <1>2, <1>3 DEF CoolDown, Put, d

\* The minute and the cooldown run down together.
LEMMA TickRests ==
  ASSUME TypeOK, SocketsSound, Rested, Tick
  PROVE  Rested'
<1> USE DEF TypeOK
<1>1. \A x \in Sockets :
        /\ sock'[x].account = sock[x].account /\ sock'[x].state = sock[x].state
        /\ sock'[x].cooldown = IF sock[x].cooldown \in {None, 0} THEN sock[x].cooldown
                               ELSE sock[x].cooldown - 1
  BY DEF Tick, SocketData
<1>2. \A d \in Drivers : rest'[d] = IF rest[d] = 0 THEN 0 ELSE rest[d] - 1
  BY DEF Tick
<1>3. \A x \in Sockets : Open(x)' = Open(x)
  BY <1>1 DEF Open
<1>4. OneOpenEach'
  BY <1>1, <1>3 DEF Rested, OneOpenEach
<1>5. CooldownsRest'
  <2>1. \A x \in Sockets : sock[x].cooldown \in {None} \cup 0..Minute
    BY DEF SocketData
  <2>2. \A n \in 0..Minute : (n # 0 => n - 1 \in 0..Minute) /\ n # None
    BY MinuteIsPositive, NoneIsNoTime
  <2>3. ASSUME NEW x \in Sockets, Open(x)
        PROVE  rest'[sock[x].account] =
                 IF sock'[x].cooldown = None THEN 0 ELSE sock'[x].cooldown
    <3>1. rest[sock[x].account] = IF sock[x].cooldown = None THEN 0 ELSE sock[x].cooldown
      BY <2>3 DEF Rested, CooldownsRest
    <3>2. sock[x].account \in Drivers
      BY <2>3 DEF SocketsSound, Open
    <3>3. rest'[sock[x].account] =
            IF rest[sock[x].account] = 0 THEN 0 ELSE rest[sock[x].account] - 1
      BY <1>2, <3>2
    <3> QED
      BY <1>1, <2>1, <2>2, <3>1, <3>3
  <2> QED
    BY <1>1, <1>3, <2>3 DEF CooldownsRest
<1> QED
  BY <1>4, <1>5 DEF Rested

\* Every step keeps the cooldowns in step with the minutes.
LEMMA RestedStep ==
  ASSUME "connects_rested" \in Assumed, DispatchSound, Rested, [Next]_vars
  PROVE  Rested'
<1>1. TypeOK /\ SocketsSound
  BY DEF DispatchSound
<1>2. CASE \E x \in Sockets : Join(x)
  <2>1. PICK x \in Sockets : Join(x)
    BY <1>2
  <2>2. CooldownsKept
    BY <1>1, <2>1 DEF Join, Put, Socket, CooldownsKept, Open, TypeOK
  <2> QED
    BY <2>2, KeptRests
<1>3. CASE Die
  <2>1. rest' = rest /\ \A x \in Sockets : ~Open(x)'
    <3>1. \A x \in Sockets :
            sock'[x] = IF Open(x) THEN Closed(x) ELSE sock[x]
      BY <1>3 DEF Die
    <3>2. ASSUME NEW x \in Sockets PROVE ~Open(x)'
      <4>1. sock[x] \in SocketData
        BY <1>1 DEF TypeOK
      <4>2. CASE Open(x)
        <5>1. sock'[x].state = "closed"
          BY <3>1, <4>1, <4>2 DEF SocketData, Closed
        <5> QED
          BY <5>1 DEF Open
      <4>3. CASE ~Open(x)
        BY <3>1, <4>3 DEF Open
      <4> QED
        BY <4>2, <4>3
    <3> QED
      BY <1>3, <3>2 DEF Die
  <2> QED
    BY <2>1, KeptRests DEF CooldownsKept
<1>4. CASE \E x \in Sockets : Close(x) \/ \E status \in BOOLEAN : UpdateDriverStatus(x, status)
  <2>1. rest' = rest
    BY <1>4 DEF Close, UpdateDriverStatus
  <2>2. PICK y \in Sockets : Close(y) \/ \E status \in BOOLEAN : UpdateDriverStatus(y, status)
    BY <1>4
  <2>3. ASSUME NEW x \in Sockets, Open(x)'
        PROVE  /\ Open(x)
               /\ sock'[x].account = sock[x].account
               /\ sock'[x].cooldown = sock[x].cooldown
    <3>1. \/ sock'[x] = sock[x]
          \/ sock'[x] = Closed(x)
          \/ \E status \in BOOLEAN : sock'[x] = [sock[x] EXCEPT !.online = status]
      BY <1>1, <2>2 DEF Close, UpdateDriverStatus, Put, TypeOK
    <3>2. sock[x] \in SocketData
      BY <1>1 DEF TypeOK
    <3> QED
      BY <2>3, <3>1, <3>2 DEF SocketData, Open, Closed
  <2> QED
    BY <2>1, <2>3, KeptRests DEF CooldownsKept
<1>5. CASE UNCHANGED <<sock, rest>>
  BY <1>5, KeptRests DEF CooldownsKept, Open
<1>6. CASE \E x \in Sockets :
             RejectNowhere(x) \/ \E h \in Handlers, u \in Users : Reject(h, x, u)
  <2>1. PICK x \in Sockets : Open(x) /\ CoolDown(x)
    BY <1>6 DEF Reject, RejectNowhere
  <2> QED
    BY <1>1, <2>1, RejectRests
<1>7. \/ UNCHANGED <<sock, rest>>
      \/ \E x \in Sockets : Connection(x)
      \/ \E h \in Handlers, x \in Sockets, u \in Users : Reject(h, x, u)
      \/ Tick
      \/ Crash
  BY DEF Next, Step, Continue, RequestDrive, NoNearbySpot, GiveUp, Offer, Look, Pick, Accept,
         ChangeSpot, vars
<1> QED
  BY <1>1, <1>2, <1>3, <1>4, <1>5, <1>6, <1>7, ConnectRests, TickRests
  DEF Connection, Refuse, Crash

\* The first states: no socket is open.
LEMMA InitRested == Init => Rested
<1>1. NewSocket.state = "new"
  BY DEF NewSocket, Socket
<1> QED
  BY <1>1 DEF Init, Rested, OneOpenEach, CooldownsRest, Open

\* What searches hold once they have begun, ended or looked into a first room.
LEMMA NewSearchesDrawNobody ==
  /\ Idle.pick = None
  /\ \A u : Begun(u).pick = None
  /\ \A u, near, next, seen : Search("look", u, near, next, seen, None).pick = None
  BY DEF Idle, Begun, Search

\* Who is drawn was seen in a room, and is available at that moment.
LEMMA DrawnAreAvailable ==
  ASSUME TypeOK, SearchesSound, [Next]_vars, NEW h \in Handlers,
         search'[h].pick \notin {None, search[h].pick}
  PROVE  search'[h].pick \in Sockets /\ Available(search'[h].pick)
<1> USE DEF TypeOK
<1>1. ASSUME NEW g \in Handlers, Pick(g)
      PROVE  search'[h].pick \in Sockets /\ Available(search'[h].pick)
  <2>1. PICK pick : /\ pick = search[g].pick \/ (pick \in search[g].seen /\ Available(pick))
                    /\ search' = [search EXCEPT ![g] = GoOn(search[g], pick)]
    BY <1>1 DEF Pick
  <2>2. search'[g].pick = pick /\ \A f \in Handlers \ {g} : search'[f] = search[f]
    BY <2>1, GoOnFields
  <2>3. search[g].seen \subseteq Sockets
    OBVIOUS
  <2> QED
    BY <2>1, <2>2, <2>3
<1>2. ASSUME NEW g \in Handlers, NEW job, job.pick = None, search' = [search EXCEPT ![g] = job]
      PROVE  FALSE
  <2>1. search'[g] = job /\ \A f \in Handlers \ {g} : search'[f] = search[f]
    BY <1>2
  <2> QED
    BY <1>2, <2>1
<1>3. ASSUME NEW g \in Handlers, NEW near \in Nearby, Look(g, near) PROVE FALSE
  <2> DEFINE job == Search("look", search[g].user, near, 1, Room(near[1]), None)
  <2>1. search' = [search EXCEPT ![g] = job]
    BY <1>3 DEF Look
  <2>2. job.pick = None
    BY NewSearchesDrawNobody
  <2> HIDE DEF job
  <2> QED
    BY <1>2, <2>1, <2>2
<1>4. ASSUME NEW g \in Handlers, NoNearbySpot(g) \/ GiveUp(g) \/ Offer(g) PROVE FALSE
  <2>1. search' = [search EXCEPT ![g] = Idle]
    BY <1>4 DEF NoNearbySpot, GiveUp, Offer, Return
  <2> QED
    BY <1>2, <2>1, NewSearchesDrawNobody
<1>5. ASSUME NEW g \in Handlers, NEW u \in Users,
             RequestDrive(g, u) \/ \E x \in Sockets : Reject(g, x, u)
      PROVE  FALSE
  <2>1. search' = [search EXCEPT ![g] = Begun(u)]
    BY <1>5 DEF RequestDrive, Reject
  <2> QED
    BY <1>2, <2>1, NewSearchesDrawNobody
<1>6. ASSUME Die PROVE FALSE
  BY <1>6, NewSearchesDrawNobody DEF Die
<1>7. ASSUME search' = search PROVE FALSE
  BY <1>7
<1> QED
  BY <1>1, <1>3, <1>4, <1>5, <1>6, <1>7
  DEF Next, Step, Continue, Connection, Connect, Join, Refuse, Close, UpdateDriverStatus,
      RejectNowhere, Crash, Accept, ChangeSpot, Tick, vars

\* No search draws a driver, by an open connection, within the minute after the driver
\* rejected, if drivers connect when they have rested.
THEOREM RestingAreNotDrawnHolds ==
  ASSUME "connects_rested" \in Assumed
  PROVE  Spec => RestingAreNotDrawn
<1>1. DispatchSound /\ Rested /\ [Next]_vars => Rested'
  BY RestedStep
<1>2. DispatchSound /\ Rested /\ [Next]_vars =>
        [\A h \in Handlers :
           LET x == search'[h].pick IN
           x \notin {None, search[h].pick} /\ Open(x) => rest[sock[x].account] = 0]_vars
  <2> SUFFICES ASSUME DispatchSound, Rested, [Next]_vars, NEW h \in Handlers,
                      search'[h].pick \notin {None, search[h].pick}, Open(search'[h].pick)
               PROVE  rest[sock[search'[h].pick].account] = 0
    OBVIOUS
  <2>1. search'[h].pick \in Sockets /\ Available(search'[h].pick)
    BY DrawnAreAvailable DEF DispatchSound
  <2> QED
    BY <2>1 DEF Rested, CooldownsRest, Available
<1> QED
  BY <1>1, <1>2, InitRested, DispatchSoundHolds, PTL DEF Spec, RestingAreNotDrawn
=============================================================================
