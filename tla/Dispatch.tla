------------------------------- MODULE Dispatch -------------------------------
(***************************************************************************)
(* Which driver is offered a job: the sockets of the driver app, the rooms *)
(* service-spots:{id} they join, the flags online and cooldown kept on each *)
(* socket, and findDriverSocketToOfferJob, which looks into the rooms of   *)
(* the nearby spots one after the other with an await before each look.    *)
(*                                                                         *)
(* A socket is one connection: an app that reconnects comes back as another *)
(* one. The search holds on to sockets and reads their flags when it       *)
(* filters them, also when they have been closed since.                    *)
(***************************************************************************)
EXTENDS Integers, Sequences

CONSTANTS
  Users,       \* accounts that ask for rides
  Drivers,     \* accounts of the driver app; one account may be both
  Sockets,     \* connections of the driver app
  Spots,       \* service spots
  Nearby,      \* what findAllByDistance may answer: spots by distance
  Handlers,    \* slots for searches in progress at one time
  Minute,      \* the cooldown, in units of Tick
  Production,  \* NODE_ENV is production
  Faults,      \* "crash", "database": the query for a driver's spot fails
  Assumed,     \* what is taken for granted of the outside
  None         \* null

\* "connects_rested": a driver connects only without another connection, and not within
\* the minute after a rejection. "genuine_answers": an app rejects only what it was offered.
ASSUME NoneIsNobody == None \notin Users \cup Drivers \cup Spots \cup Sockets

ASSUME NearbyAreSpots == \A near \in Nearby : near \in Seq(Spots) /\ near # <<>>

ASSUME MinuteIsPositive == Minute \in Nat \ {0}

ASSUME NoneIsNoTime == None \notin 0..Minute

ASSUME ProductionIsFlag == Production \in BOOLEAN

VARIABLES
  home,    \* the service spot of each driver, in the driver table
  sock,    \* each socket: its account, state, room and data
  search,  \* what each search keeps across its awaits
  offers,  \* job-offers in the driver apps' hands
  rest,    \* history: what is left of the minute since an account's last rejection
  steady   \* history: sockets a search could have picked at any time since it began

vars == <<home, sock, search, offers, rest, steady>>

States == {"new", "joining", "ready", "closed"}

\* cooldown: None before the first rejection, then the time to the moment it holds.
SocketData == [account: Drivers \cup {None}, state: States, room: Spots \cup {None},
               read: Spots \cup {None}, online: BOOLEAN, cooldown: {None} \cup 0..Minute]

Socket(account, state, room, read, cooldown) ==
  [account |-> account, state |-> state, room |-> room, read |-> read,
   online |-> FALSE, cooldown |-> cooldown]

NewSocket == Socket(None, "new", None, None, None)

PCs == {"idle", "spots", "look", "offer", "nobody"}

Search(pc, user, near, next, seen, pick) ==
  [pc |-> pc, user |-> user, near |-> near, next |-> next, seen |-> seen, pick |-> pick]

Idle == Search("idle", None, <<>>, 0, {}, None)

Begun(user) == Search("spots", user, <<>>, 0, {}, None)

Init ==
  /\ home \in [Drivers -> Spots \cup {None}]
  /\ sock = [x \in Sockets |-> NewSocket]
  /\ search = [h \in Handlers |-> Idle]
  /\ offers = {}
  /\ rest = [d \in Drivers |-> 0]
  /\ steady = [h \in Handlers |-> {}]
-----------------------------------------------------------------------------
Open(x) == sock[x].state \in {"joining", "ready"}

\* fetchSockets: sockets of a room are open ones.
Room(spot) == {x \in Sockets : Open(x) /\ sock[x].room = spot}

\* Fault: only the online flag is asked.
AvailableOnline(x) == sock[x].online

\* The filter. moment(cooldown).isBefore(moment()), once there is a cooldown, does
\* not ask whether the socket is online.
Available(x) ==
  \/ sock[x].cooldown = None /\ sock[x].online
  \/ sock[x].cooldown = 0

\* Sockets of the rooms of a search that it could pick.
Eligible(h) ==
  {x \in Sockets : /\ Open(x) /\ Available(x)
                   /\ \E i \in 1..Len(search[h].near) : sock[x].room = search[h].near[i]}

\* What a search could have picked all along, to be set in every step.
Watch ==
  steady' = [h \in Handlers |->
    IF search'[h].pc \in {"idle", "spots"} THEN {}
    ELSE IF search[h].pc = "spots" THEN Eligible(h)'
    ELSE steady[h] \cap Eligible(h)']
-----------------------------------------------------------------------------
MayConnect(d) ==
  "connects_rested" \in Assumed =>
    rest[d] = 0 /\ \A x \in Sockets : Open(x) => sock[x].account # d

MayReject(x, u) ==
  "genuine_answers" \in Assumed => [driver |-> sock[x].account, user |-> u] \in offers

Put(x, data) == sock' = [sock EXCEPT ![x] = data]
Goto(h, pc)  == search' = [search EXCEPT ![h].pc = pc]
Return(h)    == search' = [search EXCEPT ![h] = Idle]
-----------------------------------------------------------------------------
(***************************************************************************)
(* Connections.                                                            *)
(***************************************************************************)
\* handleConnection joins the account's room and does not await the rest, which
\* reads the driver's spot.
Connect(x, d) ==
  /\ sock[x].state = "new"
  /\ MayConnect(d)
  /\ Put(x, Socket(d, "joining", None, home[d], None))
  /\ UNCHANGED <<home, search, offers, rest>>

\* The continuation: messages may have come in between.
Join(x) ==
  /\ sock[x].state = "joining"
  /\ sock[x].read # None
  /\ Put(x, Socket(sock[x].account, "ready", sock[x].read, sock[x].read, sock[x].cooldown))
  /\ UNCHANGED <<home, search, offers, rest>>

\* A socket that closes leaves its rooms, and what its continuation has read is of no
\* use to anybody. Its data stay with the searches that hold it.
Closed(x) == [sock[x] EXCEPT !.state = "closed", !.room = None, !.read = None]

\* The process ends with every connection and every search.
Die ==
  /\ sock' = [x \in Sockets |-> IF Open(x) THEN Closed(x) ELSE sock[x]]
  /\ search' = [h \in Handlers |-> Idle]
  /\ UNCHANGED <<home, offers, rest>>

\* A driver without a spot, or a failing query: rejectUnauthorizedClient throws in
\* a promise that nobody awaits, and Node ends the process.
Refuse(x) ==
  /\ sock[x].state = "joining"
  /\ sock[x].read = None \/ "database" \in Faults
  /\ Die

Crash == "crash" \in Faults /\ Die

Close(x) ==
  /\ Open(x)
  /\ Put(x, Closed(x))
  /\ UNCHANGED <<home, search, offers, rest>>

\* update-driver-status
UpdateDriverStatus(x, status) ==
  /\ Open(x)
  /\ sock[x].online # status
  /\ Put(x, [sock[x] EXCEPT !.online = status])
  /\ UNCHANGED <<home, search, offers, rest>>

\* A driver joins a spot or is removed from one; rooms are left as they are.
ChangeSpot(d, s) ==
  /\ home[d] # s
  /\ home[d] = None \/ s = None
  /\ home' = [home EXCEPT ![d] = s]
  /\ UNCHANGED <<sock, search, offers, rest>>
-----------------------------------------------------------------------------
(***************************************************************************)
(* The search, one action per spot.                                        *)
(***************************************************************************)
\* request-drive
RequestDrive(h, u) ==
  /\ search[h] = Idle
  /\ search' = [search EXCEPT ![h] = Begun(u)]
  /\ UNCHANGED <<home, sock, offers, rest>>

\* findAllByDistance has answered; fetchSockets of the first room. No spot nearby:
\* the search is over.
Look(h, near) ==
  /\ search[h].pc = "spots"
  /\ search' = [search EXCEPT ![h] =
       Search("look", search[h].user, near, 1, Room(near[1]), None)]
  /\ UNCHANGED <<home, sock, offers, rest>>

NoNearbySpot(h) ==
  /\ search[h].pc = "spots"
  /\ Return(h)
  /\ UNCHANGED <<home, sock, offers, rest>>

\* The next room of a search, or its end.
GoOn(j, pick) ==
  IF j.next < Len(j.near)
  THEN Search("look", j.user, j.near, j.next + 1, Room(j.near[j.next + 1]), pick)
  ELSE Search(IF pick = None THEN "nobody" ELSE "offer", j.user, j.near, 0, {}, pick)

\* Fault: a spot without available drivers ends the loop.
PickBreak(h) ==
  LET j == search[h]
      available == {x \in j.seen : Available(x)}
      Keep(x) == IF sock[x].account = j.user THEN j.pick ELSE x IN
  /\ j.pc = "look"
  /\ \/ /\ available = {}
        /\ search' = [search EXCEPT ![h] = GoOn([j EXCEPT !.next = Len(j.near)], j.pick)]
     \/ \E x \in available : search' = [search EXCEPT ![h] = GoOn(j, Keep(x))]
  /\ UNCHANGED <<home, sock, offers, rest>>

\* Fault: the requester is not told from the others.
PickAnyone(h) ==
  LET j == search[h]
      available == {x \in j.seen : Available(x)} IN
  /\ j.pc = "look"
  /\ \/ available = {} /\ search' = [search EXCEPT ![h] = GoOn(j, j.pick)]
     \/ \E x \in available : search' = [search EXCEPT ![h] = GoOn(j, x)]
  /\ UNCHANGED <<home, sock, offers, rest>>

\* The sockets of the room looked into are filtered by their flags of now, one of
\* them is drawn, and kept unless it is the requester's; the next room is looked
\* into. The last spot that yields a driver wins.
Pick(h) ==
  LET j == search[h]
      available == {x \in j.seen : Available(x)}
      Keep(x) == IF sock[x].account = j.user THEN j.pick ELSE x IN
  /\ j.pc = "look"
  /\ \/ available = {} /\ search' = [search EXCEPT ![h] = GoOn(j, j.pick)]
     \/ \E x \in available : search' = [search EXCEPT ![h] = GoOn(j, Keep(x))]
  /\ UNCHANGED <<home, sock, offers, rest>>

Picked(h) == sock[search[h].pick].account

\* After the geocoding, the save and the driver's info: to the room of the account,
\* whose other sockets get it as well.
Offer(h) ==
  /\ search[h].pc = "offer"
  /\ offers' = IF \E x \in Sockets : Open(x) /\ sock[x].account = Picked(h)
               THEN offers \cup {[driver |-> Picked(h), user |-> search[h].user]}
               ELSE offers
  /\ Return(h)
  /\ UNCHANGED <<home, sock, rest>>

\* NO_DRIVER_AVAILABLE
GiveUp(h) ==
  /\ search[h].pc = "nobody"
  /\ Return(h)
  /\ UNCHANGED <<home, sock, offers, rest>>

\* Fault: the minute is added to the cooldown that the socket has.
RejectAdds(h, x, u) ==
  /\ search[h] = Idle
  /\ Open(x) /\ MayReject(x, u)
  /\ IF Production
     THEN /\ Put(x, [sock[x] EXCEPT !.cooldown = Minute + IF @ = None THEN 0 ELSE @])
          /\ rest' = [rest EXCEPT ![sock[x].account] = Minute]
     ELSE UNCHANGED <<sock, rest>>
  /\ offers' = offers \ {[driver |-> sock[x].account, user |-> u]}
  /\ search' = [search EXCEPT ![h] = Begun(u)]
  /\ UNCHANGED home

CoolDown(x) ==
  IF Production
  THEN /\ Put(x, [sock[x] EXCEPT !.cooldown = Minute])
       /\ rest' = [rest EXCEPT ![sock[x].account] = Minute]
  ELSE UNCHANGED <<sock, rest>>

\* reject-drive-request, by any socket and of any offer, also one it was never sent:
\* the cooldown is the socket's, the search that of the requester it names.
Reject(h, x, u) ==
  /\ search[h] = Idle
  /\ Open(x) /\ MayReject(x, u)
  /\ CoolDown(x)
  /\ offers' = offers \ {[driver |-> sock[x].account, user |-> u]}
  /\ search' = [search EXCEPT ![h] = Begun(u)]
  /\ UNCHANGED home

\* A body without an origin: the search throws before it has begun.
RejectNowhere(x) ==
  /\ "genuine_answers" \notin Assumed
  /\ Open(x)
  /\ CoolDown(x)
  /\ UNCHANGED <<home, search, offers>>

\* accept-drive-request, and offers nobody answers: see DriveSession.
Accept(o) ==
  /\ offers' = offers \ {o}
  /\ UNCHANGED <<home, sock, search, rest>>

Tick ==
  /\ \/ \E d \in Drivers : rest[d] > 0
     \/ \E x \in Sockets : sock[x].cooldown \notin {None, 0}
  /\ sock' = [x \in Sockets |->
       [sock[x] EXCEPT !.cooldown = IF @ \in {None, 0} THEN @ ELSE @ - 1]]
  /\ rest' = [d \in Drivers |-> IF rest[d] = 0 THEN 0 ELSE rest[d] - 1]
  /\ UNCHANGED <<home, search, offers>>
-----------------------------------------------------------------------------
Continue(h) ==
  \/ \E near \in Nearby : Look(h, near)
  \/ NoNearbySpot(h)
  \/ Pick(h)
  \/ Offer(h)
  \/ GiveUp(h)

Connection(x) ==
  \/ \E d \in Drivers : Connect(x, d)
  \/ Join(x)
  \/ Refuse(x)
  \/ Close(x)
  \/ \E status \in BOOLEAN : UpdateDriverStatus(x, status)
  \/ RejectNowhere(x)

Step ==
  \/ \E h \in Handlers : Continue(h)
  \/ \E h \in Handlers, u \in Users :
       RequestDrive(h, u) \/ \E x \in Sockets : Reject(h, x, u)
  \/ \E o \in offers : Accept(o)
  \/ \E x \in Sockets : Connection(x)
  \/ \E d \in Drivers, s \in Spots \cup {None} : ChangeSpot(d, s)
  \/ Tick
  \/ Crash

Next == Step /\ Watch

Spec == Init /\ [][Next]_vars
-----------------------------------------------------------------------------
\* Every variable keeps its shape: sockets, searches and offers.
TypeOK ==
  /\ home \in [Drivers -> Spots \cup {None}]
  /\ sock \in [Sockets -> SocketData]
  /\ search \in [Handlers -> [pc: PCs, user: Users \cup {None}, near: Nearby \cup {<<>>},
                              next: Nat, seen: SUBSET Sockets, pick: Sockets \cup {None}]]
  /\ offers \subseteq [driver: Drivers, user: Users]
  /\ rest \in [Drivers -> 0..Minute]
  /\ steady \in [Handlers -> SUBSET Sockets]

\* Nobody is offered the job of driving themselves, whichever rooms their own app is
\* in and however often the offer has been passed on.
NobodyDrivesThemselves == \A o \in offers : o.driver # o.user

\* "Cooldown driver for 1 minutes before they can get another job offer": no offer
\* goes to an account within the minute after it rejected one. The cooldown is kept
\* on a socket, and asked long before the offer goes out: a connection made within the
\* minute has none.
CooldownRespected ==
  [][\A h \in Handlers : Offer(h) => rest[Picked(h)] = 0]_vars

\* No search draws a driver, by a connection that is still open, within the minute
\* after the driver rejected: not from a room that was looked into before the
\* rejection, and not on a connection that came after another. It takes "connects_rested". (A rejection after the draw does
\* not keep that search's offer back, see CooldownRespected.)
RestingAreNotDrawn ==
  [][\A h \in Handlers :
       LET x == search'[h].pick IN
       x \notin {None, search[h].pick} /\ Open(x) => rest[sock[x].account] = 0]_vars

\* A search that ends with NO_DRIVER_AVAILABLE passed over nobody: no socket was in
\* one of the nearby rooms and available from its beginning to its end, unless the
\* passenger is a driver too, who may be drawn and skipped in place of others.
FreeDriverFound ==
  \A h \in Handlers :
    search[h].pc = "nobody" /\ search[h].user \notin Drivers => steady[h] = {}

(***************************************************************************)
(* Why FreeDriverFound holds.                                              *)
(***************************************************************************)
SocketsSound ==
  \A x \in Sockets :
    /\ sock[x].state # "new" => sock[x].account \in Drivers
    /\ sock[x].state \in {"new", "joining"} => sock[x].room = None

SearchSound(h) ==
  LET j == search[h] IN
  /\ j.pc \in {"idle", "spots"} => j.near = <<>> /\ j.seen = {} /\ j.pick = None
  /\ j.pc # "idle" => j.user \in Users
  /\ j.pc \in {"look", "offer", "nobody"} => j.near \in Nearby
  /\ j.pc = "look" => j.next \in 1..Len(j.near)
  /\ \A x \in j.seen : sock[x].state # "new"
  /\ j.pick # None => sock[j.pick].state # "new" /\ sock[j.pick].account # j.user
  /\ j.pc = "offer" => j.pick # None

SearchesSound == \A h \in Handlers : SearchSound(h)

SteadyAreEligible == \A h \in Handlers : steady[h] \subseteq Eligible(h)

\* The rooms behind have yielded a driver if they held a steady one; the room under
\* the search's eyes has been seen with its steady ones.
SteadySeen(h) ==
  LET j == search[h] IN
  /\ j.pc = "look" => \A x \in steady[h] :
       /\ sock[x].room = j.near[j.next] => x \in j.seen
       /\ j.user \notin Drivers /\ (\E i \in 1..(j.next - 1) : sock[x].room = j.near[i])
            => j.pick # None
  /\ j.pc = "nobody" /\ j.user \notin Drivers => steady[h] = {}

SteadyAreSeen == \A h \in Handlers : SteadySeen(h)

\* Inductive.
DispatchSound ==
  /\ TypeOK
  /\ SocketsSound
  /\ SearchesSound
  /\ SteadyAreEligible
  /\ SteadyAreSeen
  /\ NobodyDrivesThemselves

(***************************************************************************)
(* Why RestingAreNotDrawn holds: under "connects_rested" the cooldown on a *)
(* driver's one open socket is what is left of the driver's minute.        *)
(***************************************************************************)
OneOpenEach ==
  \A x, y \in Sockets :
    Open(x) /\ Open(y) /\ sock[x].account = sock[y].account => x = y

CooldownsRest ==
  \A x \in Sockets : Open(x) =>
    rest[sock[x].account] = IF sock[x].cooldown = None THEN 0 ELSE sock[x].cooldown

\* Inductive together with DispatchSound.
Rested == OneOpenEach /\ CooldownsRest
=============================================================================
