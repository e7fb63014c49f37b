------------------------------ MODULE Membership ------------------------------
(***************************************************************************)
(* Who belongs to which service spot: the rows of driver (serviceSpotId    *)
(* and role) and of service_spot, and the requests that change them, drivers/me, *)
(* service-spot/join, the creation of a spot and the removal of a driver,  *)
(* together with the invite codes (InviteCode) that lead to a join.        *)
(*                                                                         *)
(* Each request is a chain of queries with an await after each; a query    *)
(* outside a transaction takes effect at once. The creation runs in a      *)
(* transaction at READ COMMITTED: its writes are seen from its commit on,  *)
(* and until then they lock the driver's row against other writers.        *)
(***************************************************************************)
EXTENDS InviteCode

CONSTANTS
  Drivers,  \* drivers' account ids
  Faults    \* "failure": a query or the upload of the image fails; "crash"

\* "one_request_each": a driver has one of these requests under way at a time.
ASSUME NoneIsNoDriver == None \notin Drivers \cup {"member", "owner"}

VARIABLES
  row,      \* the rows of driver: spot and role; NoRow before registration
  creator,  \* the rows of service_spot, by the driver who created each
  job,      \* what each request keeps across its awaits
  cameBy    \* history: the code a driver came by since last being removed

memberVars == <<row, creator, job, cameBy>>
vars == <<codeVars, memberVars>>

MEMBER == "member"
OWNER  == "owner"

Rows  == [spot: Spots \cup {None}, role: {MEMBER, OWNER}]
NoRow == [spot |-> None, role |-> None]

CreatePCs == {"create_read", "create_save", "create_commit"}
JoinPCs   == {"join_resolve", "join_update"}
RemovePCs == {"remove_read", "remove_save"}
PCs       == {"idle", "invite"} \cup CreatePCs \cup JoinPCs \cup RemovePCs

Job(pc, d, s, t) == [pc |-> pc, caller |-> d, spot |-> s, target |-> t]

Idle == Job("idle", None, None, None)

Init ==
  /\ CodeInit
  /\ row = [d \in Drivers |-> NoRow]
  /\ creator = [s \in Spots |-> None]
  /\ job = [h \in Handlers |-> Idle]
  /\ cameBy = [d \in Drivers |-> None]
-----------------------------------------------------------------------------
Free(h) == job[h].pc = "idle" /\ ask[h].pc = "idle"

MayStart(d) == "one_request_each" \in Assumed => \A h \in Handlers : job[h].caller # d

Goto(h, pc) == job' = [job EXCEPT ![h].pc = pc]
Return(h)   == job' = [job EXCEPT ![h] = Idle]

\* isOwnedServiceSpot
IsOwned(d, s) == row[d] = [spot |-> s, role |-> OWNER]

\* IsDriverHasServiceSpot
HasSpot(d) == row[d].spot # None

\* History: the request's driver has named a code that works.
ComeBy(h, c) ==
  cameBy' = [cameBy EXCEPT ![job[h].caller] = IF Resolve(c) = None THEN @ ELSE c]

\* The row lock of the UPDATE in a creation's transaction, held until it ends.
Locked(d) == \E h \in Handlers : job[h].pc = "create_commit" /\ job[h].caller = d
-----------------------------------------------------------------------------
(***************************************************************************)
(* Faulty variants of the operations below.                                *)
(***************************************************************************)
\* Fault: the driver's row is given the spot but not the role.
CreateCommitMember(h) ==
  LET d == job[h].caller IN
  /\ job[h].pc = "create_commit"
  /\ creator' = [creator EXCEPT ![job[h].spot] = d]
  /\ row' = [row EXCEPT ![d] = [spot |-> job[h].spot, role |-> row[d].role]]
  /\ Return(h)
  /\ UNCHANGED <<cameBy, codeVars>>

\* Fault: the removal does not look which spot the driver is in.
RemoveReadAny(h) ==
  /\ job[h].pc = "remove_read"
  /\ IF row[job[h].target].spot # None THEN Goto(h, "remove_save") ELSE Return(h)
  /\ UNCHANGED <<row, creator, cameBy, codeVars>>

\* Fault: any code that works leads into the spot the request names.
JoinResolveNamed(h, c) ==
  /\ job[h].pc = "join_resolve"
  /\ Resolve(c) # None
  /\ \E s \in {t \in Spots : creator[t] # None} :
       job' = [job EXCEPT ![h] = Job("join_update", job[h].caller, s, None)]
  /\ ComeBy(h, c)
  /\ UNCHANGED <<row, creator, codeVars>>

\* Fault: a driver without a row gets one, without a role, as save() would have it.
JoinUpdateUpsert(h) ==
  LET d == job[h].caller IN
  /\ job[h].pc = "join_update"
  /\ ~Locked(d)
  /\ row' = [row EXCEPT ![d].spot = job[h].spot]
  /\ Return(h)
  /\ UNCHANGED <<creator, cameBy, codeVars>>
-----------------------------------------------------------------------------
\* drivers/me: the row is inserted unless it is there; the key settles a race.
Register(d) ==
  /\ row[d] = NoRow
  /\ row' = [row EXCEPT ![d] = [spot |-> None, role |-> MEMBER]]
  /\ UNCHANGED <<creator, job, cameBy, codeVars>>

Start(h, caller, pc) ==
  /\ Free(h)
  /\ MayStart(caller)
  /\ job' = [job EXCEPT ![h] = Job(pc, caller, None, None)]

(***************************************************************************)
(* The creation of a spot. The driver is read a second time, outside the   *)
(* transaction, when that has begun.                                       *)
(***************************************************************************)
CreateCheck(h, d) ==
  /\ ~HasSpot(d)
  /\ Start(h, d, "create_read")
  /\ UNCHANGED <<row, creator, cameBy, codeVars>>

CreateRead(h) ==
  LET d == job[h].caller IN
  /\ job[h].pc = "create_read"
  /\ IF row[d] # NoRow /\ ~HasSpot(d) THEN Goto(h, "create_save") ELSE Return(h)
  /\ UNCHANGED <<row, creator, cameBy, codeVars>>

\* Both INSERT and UPDATE; the id comes from a sequence.
CreateSave(h, s) ==
  /\ job[h].pc = "create_save"
  /\ ~Locked(job[h].caller)
  /\ creator[s] = None
  /\ \A g \in Handlers : job[g].pc = "create_commit" => job[g].spot # s
  /\ job' = [job EXCEPT ![h] = Job("create_commit", job[h].caller, s, None)]
  /\ UNCHANGED <<row, creator, cameBy, codeVars>>

CreateCommit(h) ==
  LET d == job[h].caller IN
  /\ job[h].pc = "create_commit"
  /\ creator' = [creator EXCEPT ![job[h].spot] = d]
  /\ row' = [row EXCEPT ![d] = [spot |-> job[h].spot, role |-> OWNER]]
  /\ Return(h)
  /\ UNCHANGED <<cameBy, codeVars>>

(***************************************************************************)
(* The join. The role is not written; a driver without a row is told that  *)
(* all went well.                                                          *)
(***************************************************************************)
JoinCheck(h, d) ==
  /\ ~HasSpot(d)
  /\ Start(h, d, "join_resolve")
  /\ UNCHANGED <<row, creator, cameBy, codeVars>>

JoinResolve(h, c) ==
  /\ job[h].pc = "join_resolve"
  /\ IF Resolve(c) = None THEN Return(h)
     ELSE job' = [job EXCEPT ![h] = Job("join_update", job[h].caller, Resolve(c), None)]
  /\ ComeBy(h, c)
  /\ UNCHANGED <<row, creator, codeVars>>

JoinUpdate(h) ==
  LET d == job[h].caller IN
  /\ job[h].pc = "join_update"
  /\ ~Locked(d)
  /\ row' = IF row[d] = NoRow THEN row ELSE [row EXCEPT ![d].spot = job[h].spot]
  /\ Return(h)
  /\ UNCHANGED <<creator, cameBy, codeVars>>

(***************************************************************************)
(* The removal. The driver is read outside the transaction; the save       *)
(* writes null over whatever spot the row has by then.                     *)
(***************************************************************************)
RemoveCheck(h, o, s, d) ==
  /\ IsOwned(o, s)
  /\ d # o
  /\ Free(h)
  /\ MayStart(o)
  /\ job' = [job EXCEPT ![h] = Job("remove_read", o, s, d)]
  /\ UNCHANGED <<row, creator, cameBy, codeVars>>

RemoveRead(h) ==
  /\ job[h].pc = "remove_read"
  /\ IF row[job[h].target].spot = job[h].spot THEN Goto(h, "remove_save") ELSE Return(h)
  /\ UNCHANGED <<row, creator, cameBy, codeVars>>

RemoveSave(h) ==
  /\ job[h].pc = "remove_save"
  /\ ~Locked(job[h].target)
  /\ row' = [row EXCEPT ![job[h].target].spot = None]
  /\ cameBy' = [cameBy EXCEPT ![job[h].target] = None]
  /\ Return(h)
  /\ UNCHANGED <<creator, codeVars>>

\* The owner's spot's code.
InviteCheck(h, o, s) ==
  /\ IsOwned(o, s)
  /\ Free(h)
  /\ MayStart(o)
  /\ job' = [job EXCEPT ![h] = Job("invite", o, s, None)]
  /\ UNCHANGED <<row, creator, cameBy, codeVars>>

Invite(h) ==
  /\ job[h].pc = "invite"
  /\ ReadSpotCode(h, job[h].spot)
  /\ Return(h)
  /\ UNCHANGED <<row, creator, cameBy>>

\* A query or the upload fails: the transaction, if there is one, is rolled back.
Fail(h) ==
  /\ "failure" \in Faults
  /\ job[h].pc # "idle"
  /\ Return(h)
  /\ UNCHANGED <<row, creator, cameBy, codeVars>>

Crash ==
  /\ "crash" \in Faults
  /\ job' = [h \in Handlers |-> Idle]
  /\ CodeCrash
  /\ UNCHANGED <<row, creator, cameBy>>
-----------------------------------------------------------------------------
Request(h) ==
  \/ \E d \in Drivers : CreateCheck(h, d) \/ JoinCheck(h, d)
  \/ \E o, d \in Drivers, s \in Spots : RemoveCheck(h, o, s, d)
  \/ \E o \in Drivers, s \in Spots : InviteCheck(h, o, s)

Continue(h) ==
  \/ CreateRead(h)
  \/ \E s \in Spots : CreateSave(h, s)
  \/ CreateCommit(h)
  \/ \E c \in Codes : JoinResolve(h, c)
  \/ JoinUpdate(h)
  \/ RemoveRead(h)
  \/ RemoveSave(h)
  \/ Invite(h)

Next ==
  \/ \E d \in Drivers : Register(d)
  \/ \E h \in Handlers : Request(h) \/ Continue(h) \/ Fail(h)
  \/ CodeStep /\ UNCHANGED memberVars
  \/ Crash

Spec == Init /\ [][Next]_vars
-----------------------------------------------------------------------------
\* Every variable keeps its shape: the two tables, the requests and the codes.
TypeOK ==
  /\ CodeTypeOK
  /\ row \in [Drivers -> Rows \cup {NoRow}]
  /\ creator \in [Spots -> Drivers \cup {None}]
  /\ job \in [Handlers -> [pc: PCs, caller: Drivers \cup {None},
                           spot: Spots \cup {None}, target: Drivers \cup {None}]]
  /\ cameBy \in [Drivers -> Codes \cup {None}]

\* A spot keeps the one owner it was created by, through joins, removals and
\* creations that overlap: without its owner nobody can invite or remove drivers,
\* and mapToDto shows none. It takes "one_request_each".
SpotKeepsOwner ==
  \A s \in Spots : creator[s] # None =>
    \A d \in Drivers : IsOwned(d, s) <=> d = creator[s]

\* A driver who is in a spot stays in it until the owner of that spot removes the
\* driver; "Driver already in service spot" keeps every other request from moving
\* the driver. It takes "one_request_each".
RemovedByOwner(d) ==
  /\ row'[d].spot = None
  /\ \E h \in Handlers : /\ job[h].pc = "remove_save" /\ job[h].target = d
                         /\ job[h].spot = row[d].spot
                         /\ IsOwned(job[h].caller, row[d].spot)

StaysUntilRemoved ==
  [][\A d \in Drivers :
       HasSpot(d) => row'[d].spot = row[d].spot \/ RemovedByOwner(d)]_vars

\* A driver in a spot created it or came in by a code drawn for that very spot, and
\* one who was removed since has named a code again: keys that expire one after the
\* other, codes of two spots asked for at once, a join that resolved its code long ago
\* and a removal let nobody into a spot on another's code or on one used up before the
\* removal. It takes "fresh_codes" and "one_request_each".
MembersWereInvited ==
  \A d \in Drivers : HasSpot(d) =>
    \/ creator[row[d].spot] = d
    \/ cameBy[d] # None /\ drawnFor[cameBy[d]] = row[d].spot

(***************************************************************************)
(* Why SpotKeepsOwner and StaysUntilRemoved hold: what a request has read  *)
(* of its driver is still so when it writes.                               *)
(***************************************************************************)
OneRequestEach ==
  \A g, h \in Handlers : job[g].caller = job[h].caller /\ job[g].caller # None => g = h

JobsAreWhole ==
  \A h \in Handlers :
    /\ job[h].pc # "idle" => job[h].caller # None
    /\ job[h].pc \in {"create_commit", "join_update", "invite"} \cup RemovePCs =>
         job[h].spot # None
    /\ job[h].pc \in RemovePCs => job[h].target # None

OwnersCreated ==
  \A d \in Drivers : row[d].role = OWNER => HasSpot(d) /\ creator[row[d].spot] = d

ChecksStillHold ==
  \A h \in Handlers :
    /\ job[h].pc \in CreatePCs \cup JoinPCs => ~HasSpot(job[h].caller)
    /\ job[h].pc \in {"create_save", "create_commit"} => row[job[h].caller] # NoRow
    /\ job[h].pc \in RemovePCs \cup {"invite"} => IsOwned(job[h].caller, job[h].spot)
    /\ job[h].pc \in RemovePCs => job[h].target # job[h].caller
    /\ job[h].pc = "remove_save" => row[job[h].target].spot = job[h].spot

NewSpotsAreNew ==
  \A h \in Handlers : job[h].pc = "create_commit" =>
    /\ creator[job[h].spot] = None
    /\ \A g \in Handlers : job[g].pc = "create_commit" /\ job[g].spot = job[h].spot => g = h

\* Spots that are asked for, invited to or joined exist.
SpotsExist ==
  /\ \A d \in Drivers : HasSpot(d) => creator[row[d].spot] # None
  /\ \A h \in Handlers : job[h].pc = "join_update" => creator[job[h].spot] # None
  /\ \A h \in Handlers : ask[h].spot # None => creator[ask[h].spot] # None
  /\ \A c \in Codes : invitation[c].spot # None => creator[invitation[c].spot] # None

\* Drivers about to join have resolved a code of the spot.
JoinersInvited ==
  \A h \in Handlers : job[h].pc = "join_update" =>
    /\ cameBy[job[h].caller] # None
    /\ drawnFor[cameBy[job[h].caller]] = job[h].spot

\* Inductive under "one_request_each".
MembershipSound ==
  /\ TypeOK
  /\ OneRequestEach
  /\ JobsAreWhole
  /\ OwnersCreated
  /\ ChecksStillHold
  /\ NewSpotsAreNew
  /\ SpotsExist
  /\ SpotKeepsOwner
=============================================================================
