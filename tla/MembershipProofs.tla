--------------------------- MODULE MembershipProofs ---------------------------
(***************************************************************************)
(* An invite code lasts as long as the owner was told, and who belongs to  *)
(* which spot, for any number of spots, drivers, codes and requests under  *)
(* way, with queries that fail and processes that die. What rests on codes *)
(* that do not repeat and what on one request per driver is kept apart.    *)
(***************************************************************************)
EXTENDS Membership, TLAPS

-----------------------------------------------------------------------------
(***************************************************************************)
(* The codes by themselves.                                                *)
(***************************************************************************)
CodeShape == CodeTypeOK /\ AskingIsWhole

\* A key that time passes for keeps its value, and has less time left.
LEMMA TickShortens ==
  ASSUME CodeTypeOK, Tick
  PROVE  /\ \A c \in Codes :
              /\ invitation'[c] \in [spot: Spots, left: 0..Ttl] \cup {NoInvitation}
              /\ invitation'[c].spot = invitation[c].spot
              /\ told'[c] \in [spot: Spots \cup {None}, ttl: {-2} \cup 0..Ttl,
                               left: {-2} \cup 0..Ttl]
              /\ told'[c].spot = told[c].spot
              /\ told'[c].left > 0 =>
                   told[c].left > 0 /\ (invitation[c].left >= told[c].left /\
                                        invitation[c] # NoInvitation =>
                                          invitation'[c].left >= told'[c].left)
         /\ \A s \in Spots :
              /\ spotCode'[s] \in [code: Codes, left: 0..Ttl] \cup {NoSpotCode}
              /\ spotCode'[s].code = spotCode[s].code
<1> USE TtlIsPositive, NoneIsNoSpotOrCode DEF CodeTypeOK, NoInvitation, NoSpotCode
<1>1. ASSUME NEW c \in Codes
      PROVE  /\ invitation'[c] \in [spot: Spots, left: 0..Ttl] \cup {NoInvitation}
             /\ invitation'[c].spot = invitation[c].spot
             /\ invitation[c] # NoInvitation => invitation'[c].left = invitation[c].left - 1
  <2>1. CASE invitation[c] = NoInvitation
    BY <2>1 DEF Tick
  <2>2. CASE invitation[c] # NoInvitation
    <3>1. invitation[c] \in [spot: Spots, left: 0..Ttl] /\ invitation[c].left # 0
      BY <2>2 DEF Tick, Due
    <3>2. PICK s \in Spots, n \in 1..Ttl : invitation[c] = [spot |-> s, left |-> n]
      <4>1. invitation[c].left \in 1..Ttl /\ invitation[c].spot \in Spots
        BY <3>1
      <4> QED
        BY <3>1, <4>1
    <3>3. invitation'[c] = [invitation[c] EXCEPT !.left = invitation[c].left - 1]
      BY <2>2 DEF Tick
    <3>4. invitation'[c] = [spot |-> s, left |-> n - 1] /\ n - 1 \in 0..Ttl
      BY <3>2, <3>3
    <3> QED
      BY <3>2, <3>4
  <2> QED
    BY <2>1, <2>2
<1>2. ASSUME NEW c \in Codes
      PROVE  /\ told'[c] \in [spot: Spots \cup {None}, ttl: {-2} \cup 0..Ttl,
                              left: {-2} \cup 0..Ttl]
             /\ told'[c].spot = told[c].spot
             /\ told'[c].left = IF told[c].left > 0 THEN told[c].left - 1 ELSE told[c].left
  <2>1. told[c].left \in {-2} \cup 0..Ttl
    OBVIOUS
  <2>2. told'[c] = [told[c] EXCEPT
          !.left = IF told[c].left > 0 THEN told[c].left - 1 ELSE told[c].left]
    BY DEF Tick
  <2> QED
    BY <2>1, <2>2
<1>3. ASSUME NEW c \in Codes, told'[c].left > 0
      PROVE  told[c].left > 0 /\ (invitation[c].left >= told[c].left /\
                                  invitation[c] # NoInvitation =>
                                    invitation'[c].left >= told'[c].left)
  <2>1. told[c].left \in {-2} \cup 0..Ttl /\ invitation[c].left \in 0..Ttl
    OBVIOUS
  <2> QED
    BY <1>1, <1>2, <1>3, <2>1
<1>4. ASSUME NEW s \in Spots
      PROVE  /\ spotCode'[s] \in [code: Codes, left: 0..Ttl] \cup {NoSpotCode}
             /\ spotCode'[s].code = spotCode[s].code
  <2>1. CASE spotCode[s] = NoSpotCode
    BY <2>1 DEF Tick
  <2>2. CASE spotCode[s] # NoSpotCode
    <3>1. spotCode[s] \in [code: Codes, left: 0..Ttl] /\ spotCode[s].left # 0
      BY <2>2 DEF Tick, Due
    <3>2. PICK c \in Codes, n \in 1..Ttl : spotCode[s] = [code |-> c, left |-> n]
      <4>1. spotCode[s].left \in 1..Ttl /\ spotCode[s].code \in Codes
        BY <3>1
      <4> QED
        BY <3>1, <4>1
    <3>3. spotCode'[s] = [spotCode[s] EXCEPT !.left = spotCode[s].left - 1]
      BY <2>2 DEF Tick
    <3>4. spotCode'[s] = [code |-> c, left |-> n - 1] /\ n - 1 \in 0..Ttl
      BY <3>2, <3>3
    <3> QED
      BY <3>2, <3>4
  <2> QED
    BY <2>1, <2>2
<1> QED
  BY <1>1, <1>2, <1>3, <1>4

\* The keys, the calls and the histories keep their shape, also if codes repeat.
LEMMA CodeShapeStep ==
  ASSUME CodeShape, [CodeNext]_codeVars
  PROVE  CodeShape'
<1> USE TtlIsPositive, NoneIsNoSpotOrCode
<1> USE DEF CodeShape, CodeTypeOK, AskingIsWhole, NoInvitation, NoSpotCode, NotAsking
<1>1. ASSUME NEW h \in Handlers, SetKeys(h) PROVE CodeShape'
  BY <1>1 DEF SetKeys, Tell
<1>2. ASSUME NEW h \in Handlers, ReadTtl(h) PROVE CodeShape'
  BY <1>2 DEF ReadTtl, Tell
<1>3. ASSUME NEW h \in Handlers, NEW c \in Codes, ReadInvitation(h, c) PROVE CodeShape'
  BY <1>3 DEF ReadInvitation
<1>4. CASE Tick
  BY <1>4, TickShortens DEF Tick
<1>5. ASSUME NEW c \in Codes, ExpireInvitation(c) PROVE CodeShape'
  BY <1>5 DEF ExpireInvitation
<1>6. ASSUME NEW s \in Spots, ExpireSpotCode(s) PROVE CodeShape'
  BY <1>6 DEF ExpireSpotCode
<1>7. ASSUME NEW h \in Handlers, NEW s \in Spots, ReadSpotCode(h, s) PROVE CodeShape'
  BY <1>7 DEF ReadSpotCode
<1>8. CASE CodeCrash
  BY <1>8 DEF CodeCrash
<1>9. CASE UNCHANGED codeVars
  BY <1>9 DEF codeVars
<1> QED
  BY <1>1, <1>2, <1>3, <1>4, <1>5, <1>6, <1>7, <1>8, <1>9 DEF CodeNext, CodeStep

\* Every key, call and answer goes on naming a code with the spot it was drawn for, and
\* an invitation goes on outliving what was told of it.
LEMMA CodesSoundStep ==
  ASSUME "fresh_codes" \in Assumed, CodesSound, [CodeNext]_codeVars
  PROVE  CodesSound'
<1> USE TtlIsPositive, NoneIsNoSpotOrCode
<1>0. CodeTypeOK' /\ AskingIsWhole'
  BY CodeShapeStep DEF CodesSound, CodeShape
<1> USE DEF CodesSound, CodeTypeOK, AskingIsWhole, OneSpotPerCode, CodeLastsAsTold,
            NoInvitation, NoSpotCode, NotAsking
<1>1. ASSUME NEW h \in Handlers, SetKeys(h) PROVE CodesSound'
  BY <1>1 DEF SetKeys, Tell
<1>2. ASSUME NEW h \in Handlers, ReadTtl(h) PROVE CodesSound'
  BY <1>2 DEF ReadTtl, Tell
<1>3. ASSUME NEW h \in Handlers, NEW c \in Codes, ReadInvitation(h, c) PROVE CodesSound'
  BY <1>3 DEF ReadInvitation, MayDraw
<1>4. CASE Tick
  <2>1. OneSpotPerCode'
    <3>1. UNCHANGED <<ask, drawnFor>>
      BY <1>4 DEF Tick
    <3> QED
      BY <1>4, <3>1, TickShortens
  <2>2. CodeLastsAsTold'
    <3> SUFFICES ASSUME NEW c \in Codes, told'[c].left > 0
                 PROVE  /\ invitation'[c].spot = told'[c].spot
                        /\ invitation'[c].left >= told'[c].left
      OBVIOUS
    <3>1. told[c].left > 0
      BY <1>4, TickShortens
    <3>2. invitation[c].left >= told[c].left /\ invitation[c].spot = told[c].spot
      BY <3>1
    <3>3. invitation[c] # NoInvitation
      BY <3>1, <3>2
    <3> QED
      BY <1>4, <3>2, <3>3, TickShortens
  <2> QED
    BY <1>0, <2>1, <2>2
<1>5. ASSUME NEW c \in Codes, ExpireInvitation(c) PROVE CodesSound'
  BY <1>5 DEF ExpireInvitation, Due
<1>6. ASSUME NEW s \in Spots, ExpireSpotCode(s) PROVE CodesSound'
  BY <1>6 DEF ExpireSpotCode, Due
<1>7. ASSUME NEW h \in Handlers, NEW s \in Spots, ReadSpotCode(h, s) PROVE CodesSound'
  BY <1>7 DEF ReadSpotCode
<1>8. CASE CodeCrash
  BY <1>8 DEF CodeCrash
<1>9. CASE UNCHANGED codeVars
  BY <1>9 DEF codeVars
<1> QED
  BY <1>1, <1>2, <1>3, <1>4, <1>5, <1>6, <1>7, <1>8, <1>9 DEF CodeNext, CodeStep

\* If the drawn characters do not repeat, a code works for as long as was told, and for
\* the spot it was drawn for: the invariant that says why.
THEOREM CodesSoundHolds ==
  ASSUME "fresh_codes" \in Assumed
  PROVE  CodeSpec => []CodesSound
<1>1. CodeInit => CodesSound
  BY TtlIsPositive, NoneIsNoSpotOrCode
  DEF CodeInit, CodesSound, CodeTypeOK, AskingIsWhole, OneSpotPerCode, CodeLastsAsTold,
      NoInvitation, NoSpotCode, NotAsking, NeverTold
<1>2. CodesSound /\ [CodeNext]_codeVars => CodesSound'
  BY CodesSoundStep
<1> QED
  BY <1>1, <1>2, PTL DEF CodeSpec

\* A code that was told with a time works for that time, and for that spot.
THEOREM CodeLastsAsToldHolds ==
  ASSUME "fresh_codes" \in Assumed
  PROVE  CodeSpec => []CodeLastsAsTold
<1>1. CodesSound => CodeLastsAsTold
  BY DEF CodesSound
<1> QED
  BY <1>1, CodesSoundHolds, PTL

-----------------------------------------------------------------------------
(***************************************************************************)
(* The members.                                                            *)
(***************************************************************************)
\* What keeps its shape whatever is assumed of the requests and the codes.
Shape == TypeOK /\ JobsAreWhole /\ AskingIsWhole

\* Drivers' requests do with the invite codes what getInviteCode does, and nothing
\* else: what is proved of the codes by themselves holds of them here.
LEMMA CodeSteps ==
  ASSUME TypeOK, JobsAreWhole, [Next]_vars
  PROVE  [CodeNext]_codeVars
<1>1. ASSUME NEW h \in Handlers, Invite(h) PROVE CodeNext
  <2>1. ReadSpotCode(h, job[h].spot)
    BY <1>1 DEF Invite
  <2>2. job[h].spot \in Spots
    BY <1>1 DEF Invite, JobsAreWhole, TypeOK
  <2> QED
    BY <2>1, <2>2 DEF CodeNext
<1>2. ASSUME NEW h \in Handlers, Request(h) \/ Fail(h) PROVE UNCHANGED codeVars
  BY <1>2 DEF Request, Fail, CreateCheck, JoinCheck, RemoveCheck, InviteCheck
<1>3. ASSUME NEW h \in Handlers, Continue(h), ~Invite(h) PROVE UNCHANGED codeVars
  BY <1>3 DEF Continue, CreateRead, CreateSave, CreateCommit, JoinResolve, JoinUpdate,
              RemoveRead, RemoveSave
<1>4. ASSUME NEW d \in Drivers, Register(d) PROVE UNCHANGED codeVars
  BY <1>4 DEF Register
<1>5. CASE Crash
  BY <1>5 DEF Crash, CodeNext
<1>6. CASE UNCHANGED vars
  BY <1>6 DEF vars
<1> QED
  BY <1>1, <1>2, <1>3, <1>4, <1>5, <1>6 DEF Next, CodeNext

\* No step takes a row, a spot, a request or a call out of its shape.
LEMMA ShapeStep ==
  ASSUME Shape, [Next]_vars
  PROVE  Shape'
<1> DEFINE JobShape == [pc: PCs, caller: Drivers \cup {None}, spot: Spots \cup {None},
                        target: Drivers \cup {None}]
           Typed == /\ row' \in [Drivers -> Rows \cup {NoRow}]
                    /\ creator' \in [Spots -> Drivers \cup {None}]
                    /\ job' \in [Handlers -> JobShape]
                    /\ cameBy' \in [Drivers -> Codes \cup {None}]
<1>0. CodeTypeOK' /\ AskingIsWhole'
  BY CodeSteps, CodeShapeStep DEF Shape, TypeOK, CodeShape
<1>1. ASSUME Typed, JobsAreWhole' PROVE Shape'
  BY <1>0, <1>1 DEF Shape, TypeOK
<1> USE NoneIsNoSpotOrCode, NoneIsNoDriver
<1> USE DEF Shape, TypeOK, JobsAreWhole, Idle, Job, PCs, CreatePCs, JoinPCs, RemovePCs
<1>2. ASSUME NEW d \in Drivers, Register(d) PROVE Typed /\ JobsAreWhole'
  BY <1>2 DEF Register, Rows
<1>3. ASSUME NEW h \in Handlers, NEW j \in JobShape, job' = [job EXCEPT ![h] = j],
             /\ j.pc # "idle" => j.caller # None
             /\ j.pc \in {"create_commit", "join_update", "invite"} \cup RemovePCs =>
                  j.spot # None
             /\ j.pc \in RemovePCs => j.target # None
      PROVE  job' \in [Handlers -> JobShape] /\ JobsAreWhole'
  BY <1>3
<1>4. Idle \in JobShape
  OBVIOUS
<1>5. ASSUME NEW h \in Handlers, Return(h)
      PROVE  job' \in [Handlers -> JobShape] /\ JobsAreWhole'
  BY <1>3, <1>4, <1>5 DEF Return
<1>6. ASSUME NEW h \in Handlers, NEW d \in Drivers, CreateCheck(h, d) \/ JoinCheck(h, d)
      PROVE  Typed /\ JobsAreWhole'
  BY <1>6 DEF CreateCheck, JoinCheck, Start
<1>7. ASSUME NEW h \in Handlers, NEW o \in Drivers, NEW d \in Drivers, NEW s \in Spots,
             RemoveCheck(h, o, s, d) \/ InviteCheck(h, o, s)
      PROVE  Typed /\ JobsAreWhole'
  BY <1>7 DEF RemoveCheck, InviteCheck
<1>8. ASSUME NEW h \in Handlers, CreateRead(h) \/ RemoveRead(h)
      PROVE  Typed /\ JobsAreWhole'
  <2>1. UNCHANGED <<row, creator, cameBy>>
    BY <1>8 DEF CreateRead, RemoveRead
  <2>2. \/ Return(h)
        \/ job[h].pc = "create_read" /\ Goto(h, "create_save")
        \/ job[h].pc = "remove_read" /\ Goto(h, "remove_save")
    BY <1>8 DEF CreateRead, RemoveRead
  <2>3. ASSUME job[h].pc = "create_read", Goto(h, "create_save")
        PROVE  job' \in [Handlers -> JobShape] /\ JobsAreWhole'
    BY <2>3 DEF Goto
  <2>4. ASSUME job[h].pc = "remove_read", Goto(h, "remove_save")
        PROVE  job' \in [Handlers -> JobShape] /\ JobsAreWhole'
    BY <2>4 DEF Goto
  <2> QED
    BY <1>5, <2>1, <2>2, <2>3, <2>4
<1>9. ASSUME NEW h \in Handlers, NEW s \in Spots, CreateSave(h, s)
      PROVE  Typed /\ JobsAreWhole'
  BY <1>9 DEF CreateSave
<1>10. ASSUME NEW h \in Handlers, CreateCommit(h) PROVE Typed /\ JobsAreWhole'
  <2>1. job[h].caller \in Drivers /\ job[h].spot \in Spots
    BY <1>10 DEF CreateCommit
  <2> QED
    BY <1>5, <1>10, <2>1 DEF CreateCommit, Rows, MEMBER, OWNER
<1>11. ASSUME NEW h \in Handlers, NEW c \in Codes, JoinResolve(h, c)
       PROVE  Typed /\ JobsAreWhole'
  <2>1. Resolve(c) \in Spots \cup {None}
    BY DEF Resolve, CodeTypeOK, NoInvitation
  <2>2. /\ UNCHANGED <<row, creator>> /\ job[h].pc = "join_resolve"
        /\ cameBy' \in [Drivers -> Codes \cup {None}]
    BY <1>11 DEF JoinResolve, ComeBy
  <2>3. CASE Resolve(c) = None
    BY <1>5, <1>11, <2>2, <2>3 DEF JoinResolve
  <2>4. CASE Resolve(c) # None
    <3>1. job' = [job EXCEPT ![h] = Job("join_update", job[h].caller, Resolve(c), None)]
      BY <1>11, <2>4 DEF JoinResolve
    <3>2. job[h].caller \in Drivers
      BY <2>2
    <3> QED
      BY <1>3, <2>1, <2>2, <2>4, <3>1, <3>2
  <2> QED
    BY <2>3, <2>4
<1>12. ASSUME NEW h \in Handlers, JoinUpdate(h) PROVE Typed /\ JobsAreWhole'
  <2>1. job[h].caller \in Drivers /\ job[h].spot \in Spots
    BY <1>12 DEF JoinUpdate
  <2> QED
    BY <1>5, <1>12, <2>1 DEF JoinUpdate, Rows
<1>13. ASSUME NEW h \in Handlers, RemoveSave(h) PROVE Typed /\ JobsAreWhole'
  <2>1. job[h].target \in Drivers
    BY <1>13 DEF RemoveSave
  <2> QED
    BY <1>5, <1>13, <2>1 DEF RemoveSave, Rows, NoRow
<1>14. ASSUME NEW h \in Handlers, Invite(h) \/ Fail(h) PROVE Typed /\ JobsAreWhole'
  BY <1>5, <1>14 DEF Invite, Fail
<1>15. ASSUME (CodeStep /\ UNCHANGED memberVars) \/ Crash \/ UNCHANGED vars
       PROVE  Typed /\ JobsAreWhole'
  BY <1>15 DEF Crash, vars, memberVars
<1> HIDE DEF Shape, TypeOK, JobsAreWhole, Typed
<1> QED
  BY <1>1, <1>2, <1>6, <1>7, <1>8, <1>9, <1>10, <1>11, <1>12, <1>13, <1>14, <1>15,
     <1>0 DEF Next, Request, Continue, Typed

\* The type invariant: rows, spots, requests, keys and calls keep their shape, whatever
\* overlaps and whichever codes repeat.
THEOREM MembershipTypeOKHolds == Spec => []TypeOK
<1>1. Init => Shape
  BY TtlIsPositive, NoneIsNoSpotOrCode, NoneIsNoDriver
  DEF Init, CodeInit, Shape, TypeOK, CodeTypeOK, JobsAreWhole, AskingIsWhole, NoInvitation,
      NoSpotCode, NotAsking, NeverTold, Idle, Job, PCs, CreatePCs, JoinPCs, RemovePCs
<1>2. Shape /\ [Next]_vars => Shape'
  BY ShapeStep
<1>3. Shape => TypeOK
  BY DEF Shape
<1> QED
  BY <1>1, <1>2, <1>3, PTL DEF Spec

\* What the codes' own steps do to the spots they name.
LEMMA CodeStepSound ==
  ASSUME MembershipSound, TypeOK', CodeStep, UNCHANGED memberVars
  PROVE  MembershipSound'
<1> USE DEF MembershipSound, TypeOK, CodeTypeOK
<1>1. SpotsExist'
  <2> USE NoneIsNoSpotOrCode DEF SpotsExist, memberVars, HasSpot, NoInvitation, NotAsking
  <2>1. ASSUME NEW h \in Handlers, SetKeys(h) PROVE SpotsExist'
    BY <2>1 DEF SetKeys
  <2>2. ASSUME NEW h \in Handlers, ReadTtl(h) PROVE SpotsExist'
    BY <2>2 DEF ReadTtl
  <2>3. ASSUME NEW h \in Handlers, NEW c \in Codes, ReadInvitation(h, c) PROVE SpotsExist'
    BY <2>3 DEF ReadInvitation
  <2>4. CASE Tick
    <3>1. \A c \in Codes : invitation'[c].spot = invitation[c].spot
      BY <2>4 DEF Tick
    <3> QED
      BY <2>4, <3>1 DEF Tick
  <2>5. ASSUME NEW c \in Codes, ExpireInvitation(c) PROVE SpotsExist'
    BY <2>5 DEF ExpireInvitation
  <2>6. ASSUME NEW s \in Spots, ExpireSpotCode(s) PROVE SpotsExist'
    BY <2>6 DEF ExpireSpotCode
  <2> QED
    BY <2>1, <2>2, <2>3, <2>4, <2>5, <2>6 DEF CodeStep
<1> QED
  BY <1>1 DEF OneRequestEach, JobsAreWhole, OwnersCreated, ChecksStillHold,
     NewSpotsAreNew, SpotKeepsOwner, memberVars, HasSpot, IsOwned

\* Every request's step keeps what the others have read of their drivers.
LEMMA RequestStepSound ==
  ASSUME "one_request_each" \in Assumed, MembershipSound, TypeOK', JobsAreWhole',
         NEW h \in Handlers,
         Request(h) \/ Continue(h) \/ Fail(h)
  PROVE  MembershipSound'
<1> USE NoneIsNoSpotOrCode, NoneIsNoDriver
<1> USE DEF MembershipSound, TypeOK, OneRequestEach, JobsAreWhole, OwnersCreated,
            ChecksStillHold, NewSpotsAreNew, SpotsExist, SpotKeepsOwner, HasSpot, IsOwned,
            Idle, Job, Rows, NoRow, MEMBER, OWNER, CreatePCs, JoinPCs, RemovePCs, PCs,
            Goto, Return, codeVars
<1>1. ASSUME NEW d \in Drivers, CreateCheck(h, d) PROVE MembershipSound'
  <2>1. OneRequestEach'
    BY <1>1 DEF CreateCheck, Start, Free, MayStart
  <2>2. OwnersCreated'
    BY <1>1 DEF CreateCheck, Start, Free, MayStart
  <2>3. ChecksStillHold'
    BY <1>1 DEF CreateCheck, Start, Free, MayStart
  <2>4. NewSpotsAreNew'
    BY <1>1 DEF CreateCheck, Start, Free, MayStart
  <2>5. SpotsExist'
    BY <1>1 DEF CreateCheck, Start, Free, MayStart
  <2>6. SpotKeepsOwner'
    BY <1>1 DEF CreateCheck, Start, Free, MayStart
  <2> QED
    BY <2>1, <2>2, <2>3, <2>4, <2>5, <2>6
<1>2. ASSUME NEW d \in Drivers, JoinCheck(h, d) PROVE MembershipSound'
  <2>1. OneRequestEach'
    BY <1>2 DEF JoinCheck, Start, Free, MayStart
  <2>2. OwnersCreated'
    BY <1>2 DEF JoinCheck, Start, Free, MayStart
  <2>3. ChecksStillHold'
    BY <1>2 DEF JoinCheck, Start, Free, MayStart
  <2>4. NewSpotsAreNew'
    BY <1>2 DEF JoinCheck, Start, Free, MayStart
  <2>5. SpotsExist'
    BY <1>2 DEF JoinCheck, Start, Free, MayStart
  <2>6. SpotKeepsOwner'
    BY <1>2 DEF JoinCheck, Start, Free, MayStart
  <2> QED
    BY <2>1, <2>2, <2>3, <2>4, <2>5, <2>6
<1>3. ASSUME NEW o \in Drivers, NEW d \in Drivers, NEW s \in Spots, RemoveCheck(h, o, s, d)
      PROVE  MembershipSound'
  BY <1>3 DEF RemoveCheck, Free, MayStart
<1>4. ASSUME NEW o \in Drivers, NEW s \in Spots, InviteCheck(h, o, s) PROVE MembershipSound'
  <2>1. OneRequestEach'
    BY <1>4 DEF InviteCheck, Free, MayStart
  <2>2. OwnersCreated'
    BY <1>4 DEF InviteCheck, Free, MayStart
  <2>3. ChecksStillHold'
    BY <1>4 DEF InviteCheck, Free, MayStart
  <2>4. NewSpotsAreNew'
    BY <1>4 DEF InviteCheck, Free, MayStart
  <2>5. SpotsExist'
    BY <1>4 DEF InviteCheck, Free, MayStart
  <2>6. SpotKeepsOwner'
    BY <1>4 DEF InviteCheck, Free, MayStart
  <2> QED
    BY <2>1, <2>2, <2>3, <2>4, <2>5, <2>6
<1>5. CASE CreateRead(h)
  <2>1. OneRequestEach'
    BY <1>5 DEF CreateRead
  <2>2. OwnersCreated'
    BY <1>5 DEF CreateRead
  <2>3. ChecksStillHold'
    BY <1>5 DEF CreateRead
  <2>4. NewSpotsAreNew'
    BY <1>5 DEF CreateRead
  <2>5. SpotsExist'
    BY <1>5 DEF CreateRead
  <2>6. SpotKeepsOwner'
    BY <1>5 DEF CreateRead
  <2> QED
    BY <2>1, <2>2, <2>3, <2>4, <2>5, <2>6
<1>6. ASSUME NEW s \in Spots, CreateSave(h, s) PROVE MembershipSound'
  <2>1. OneRequestEach'
    BY <1>6 DEF CreateSave
  <2>2. OwnersCreated'
    BY <1>6 DEF CreateSave
  <2>3. ChecksStillHold'
    BY <1>6 DEF CreateSave
  <2>4. NewSpotsAreNew'
    BY <1>6 DEF CreateSave
  <2>5. SpotsExist'
    BY <1>6 DEF CreateSave
  <2>6. SpotKeepsOwner'
    BY <1>6 DEF CreateSave
  <2> QED
    BY <2>1, <2>2, <2>3, <2>4, <2>5, <2>6
<1>7. CASE CreateCommit(h)
  <2>1. OneRequestEach'
    BY <1>7 DEF CreateCommit
  <2>2. OwnersCreated'
    BY <1>7 DEF CreateCommit
  <2>3. ChecksStillHold'
    BY <1>7 DEF CreateCommit
  <2>4. NewSpotsAreNew'
    BY <1>7 DEF CreateCommit
  <2>5. SpotsExist'
    BY <1>7 DEF CreateCommit
  <2>6. SpotKeepsOwner'
    BY <1>7 DEF CreateCommit
  <2> QED
    BY <2>1, <2>2, <2>3, <2>4, <2>5, <2>6
<1>8. ASSUME NEW c \in Codes, JoinResolve(h, c) PROVE MembershipSound'
  <2> DEFINE to == Resolve(c)
  <2>0. to \in Spots \cup {None} /\ (to # None => creator[to] # None)
    BY DEF Resolve, CodeTypeOK, NoInvitation
  <2> HIDE DEF to
  <2>1. CASE to = None
    <3>1. job' = [job EXCEPT ![h] = Idle] /\ UNCHANGED <<row, creator, codeVars>>
      BY <1>8, <2>1 DEF JoinResolve, to
    <3> QED
      BY <3>1
  <2>2. CASE to # None
    <3>1. /\ to \in Spots /\ creator[to] # None
          /\ job' = [job EXCEPT ![h] = Job("join_update", job[h].caller, to, None)]
          /\ job[h].pc = "join_resolve"
          /\ UNCHANGED <<row, creator, codeVars>>
      BY <1>8, <2>0, <2>2 DEF JoinResolve, to
    <3>2. OneRequestEach'
      BY <3>1
    <3>3. OwnersCreated'
      BY <3>1
    <3>4. ChecksStillHold'
      BY <3>1
    <3>5. NewSpotsAreNew'
      BY <3>1
    <3>6. SpotsExist'
      BY <3>1
    <3>7. SpotKeepsOwner'
      BY <3>1
    <3> QED
      BY <3>2, <3>3, <3>4, <3>5, <3>6, <3>7
  <2> QED
    BY <2>1, <2>2
<1>9. CASE JoinUpdate(h)
  <2>1. OneRequestEach'
    BY <1>9 DEF JoinUpdate
  <2>2. OwnersCreated'
    BY <1>9 DEF JoinUpdate
  <2>3. ChecksStillHold'
    BY <1>9 DEF JoinUpdate
  <2>4. NewSpotsAreNew'
    BY <1>9 DEF JoinUpdate
  <2>5. SpotsExist'
    BY <1>9 DEF JoinUpdate
  <2>6. SpotKeepsOwner'
    BY <1>9 DEF JoinUpdate
  <2> QED
    BY <2>1, <2>2, <2>3, <2>4, <2>5, <2>6
<1>10. CASE RemoveRead(h)
  <2>a. UNCHANGED <<row, creator, ask, invitation>>
    BY <1>10 DEF RemoveRead
  <2>b. \A g \in Handlers \ {h} : job'[g] = job[g]
    BY <1>10 DEF RemoveRead
  <2>c. \/ job'[h] = Idle
        \/ /\ job[h].pc = "remove_read" /\ job'[h] = [job[h] EXCEPT !.pc = "remove_save"]
           /\ row[job[h].target].spot = job[h].spot
    BY <1>10 DEF RemoveRead
  <2>d. \A g \in Handlers : job'[g].pc \in {"join_update", "create_commit"} => job'[g] = job[g]
    BY <2>b, <2>c
  <2>1. OneRequestEach'
    BY <1>10 DEF RemoveRead
  <2>2. OwnersCreated'
    BY <2>a
  <2>3. ChecksStillHold'
    <3> SUFFICES ASSUME NEW g \in Handlers
                 PROVE  /\ job'[g].pc \in CreatePCs \cup JoinPCs => ~HasSpot(job'[g].caller)
                        /\ job'[g].pc \in {"create_save", "create_commit"} =>
                             row[job'[g].caller] # NoRow
                        /\ job'[g].pc \in RemovePCs \cup {"invite"} =>
                             IsOwned(job'[g].caller, job'[g].spot)
                        /\ job'[g].pc \in RemovePCs => job'[g].target # job'[g].caller
                        /\ job'[g].pc = "remove_save" =>
                             row[job'[g].target].spot = job'[g].spot
      BY <2>a
    <3>4. CASE g # h
      BY <2>b, <3>4
    <3>5. CASE g = h /\ job'[h] = Idle
      BY <3>5
    <3>6. CASE g = h /\ job'[h] # Idle
      <4>1. /\ job'[g].pc = "remove_save" /\ job'[g].caller = job[g].caller
            /\ job'[g].spot = job[g].spot /\ job'[g].target = job[g].target
        BY <2>c, <3>6
      <4>2. /\ job[h].pc = "remove_read" /\ row[job[h].target].spot = job[h].spot
        BY <2>c, <3>6
      <4>3. IsOwned(job[h].caller, job[h].spot) /\ job[h].target # job[h].caller
        BY <4>2
      <4> QED
        BY <3>6, <4>1, <4>2, <4>3
    <3> QED
      BY <3>4, <3>5, <3>6
  <2>4. NewSpotsAreNew'
    BY <2>a, <2>d
  <2>5. SpotsExist'
    BY <2>a, <2>d
  <2>6. SpotKeepsOwner'
    BY <2>a
  <2> QED
    BY <2>1, <2>2, <2>3, <2>4, <2>5, <2>6
<1>11. CASE RemoveSave(h)
  <2> DEFINE d == job[h].target
             o == job[h].caller
             s == job[h].spot
  <2>a. /\ d \in Drivers /\ o \in Drivers /\ s \in Spots /\ d # o
        /\ row[d].spot = s /\ row[o] = [spot |-> s, role |-> OWNER]
    BY <1>11 DEF RemoveSave
  <2>b. creator[s] = o /\ row[d].role # OWNER
    <3>1. creator[s] # None /\ creator[s] = o
      BY <2>a
    <3>2. row[d] # [spot |-> s, role |-> OWNER]
      BY <2>a, <3>1
    <3>3. row[d] \in Rows
      BY <2>a
    <3> QED
      BY <2>a, <3>1, <3>2, <3>3
  <2>c. /\ row' = [row EXCEPT ![d].spot = None]
        /\ job' = [job EXCEPT ![h] = Idle] /\ UNCHANGED <<creator, codeVars>>
    BY <1>11 DEF RemoveSave
  <2>d. ASSUME NEW g \in Handlers, g # h, job[g].pc \in RemovePCs
        PROVE  job[g].target # d \/ job[g].spot # s
    BY <2>a, <2>b, <2>d
  <2>e. ASSUME NEW g \in Handlers, job[g].pc \in RemovePCs \cup {"invite"}
        PROVE  job[g].caller # d
    <3>1. row[job[g].caller] = [spot |-> job[g].spot, role |-> OWNER]
      BY <2>e
    <3> QED
      BY <2>b, <3>1
  <2>1. OneRequestEach'
    BY <2>a, <2>b, <2>c
  <2>2. OwnersCreated'
    BY <2>a, <2>b, <2>c
  <2>3. ChecksStillHold'
    BY <2>a, <2>b, <2>c, <2>d, <2>e
  <2>4. NewSpotsAreNew'
    BY <2>a, <2>b, <2>c
  <2>5. SpotsExist'
    BY <2>a, <2>b, <2>c
  <2>6. SpotKeepsOwner'
    BY <2>a, <2>b, <2>c
  <2> QED
    BY <2>1, <2>2, <2>3, <2>4, <2>5, <2>6
<1>12. CASE Invite(h)
  <2>1. OneRequestEach'
    BY <1>12 DEF Invite, ReadSpotCode
  <2>2. OwnersCreated'
    BY <1>12 DEF Invite, ReadSpotCode
  <2>3. ChecksStillHold'
    BY <1>12 DEF Invite, ReadSpotCode
  <2>4. NewSpotsAreNew'
    BY <1>12 DEF Invite, ReadSpotCode
  <2>5. SpotsExist'
    <3>1. creator[job[h].spot] # None
      <4>1. /\ row[job[h].caller] = [spot |-> job[h].spot, role |-> OWNER]
            /\ job[h].caller \in Drivers /\ job[h].spot # None
        BY <1>12 DEF Invite
      <4> QED
        BY <4>1
    <3>2. ask' = [ask EXCEPT ![h] = [pc |-> "draw", spot |-> job[h].spot,
                                    code |-> spotCode[job[h].spot].code]]
      BY <1>12 DEF Invite, ReadSpotCode
    <3>3. ask'[h].spot = job[h].spot /\ \A g \in Handlers \ {h} : ask'[g] = ask[g]
      BY <3>2 DEF CodeTypeOK
    <3>4. UNCHANGED <<row, creator, invitation>>
      BY <1>12 DEF Invite, ReadSpotCode
    <3>5. \A g \in Handlers : job'[g] = Idle \/ job'[g] = job[g]
      BY <1>12 DEF Invite
    <3> QED
      <4>1. \A d \in Drivers : row'[d].spot # None => creator'[row'[d].spot] # None
        BY <3>4
      <4>2. \A g \in Handlers : job'[g].pc = "join_update" => creator'[job'[g].spot] # None
        BY <3>4, <3>5
      <4>3. \A g \in Handlers : ask'[g].spot # None => creator'[ask'[g].spot] # None
        BY <3>1, <3>3, <3>4
      <4>4. \A c \in Codes : invitation'[c].spot # None => creator'[invitation'[c].spot] # None
        BY <3>4
      <4> QED
        BY <4>1, <4>2, <4>3, <4>4
  <2>6. SpotKeepsOwner'
    BY <1>12 DEF Invite, ReadSpotCode
  <2> QED
    BY <2>1, <2>2, <2>3, <2>4, <2>5, <2>6
<1>13. CASE Fail(h)
  BY <1>13 DEF Fail
<1> QED
  BY <1>1, <1>2, <1>3, <1>4, <1>5, <1>6, <1>7, <1>8, <1>9, <1>10, <1>11, <1>12, <1>13
  DEF Request, Continue

CreatesBy(h, d) ==
  /\ job[h].pc = "create_commit" /\ job[h].caller = d
  /\ row'[d].spot = job[h].spot /\ creator'[row'[d].spot] = d

JoinsBy(h, d) ==
  /\ job[h].pc = "join_update" /\ job[h].caller = d
  /\ row'[d].spot = job[h].spot

RemovesBy(h, d) ==
  /\ job[h].pc = "remove_save" /\ job[h].target = d
  /\ row'[d].spot = None

\* A driver's spot changes by the end of a creation, a join or a removal of that
\* driver; a spot keeps the name of its creator.
LEMMA DriverMoves ==
  ASSUME TypeOK, JobsAreWhole, NewSpotsAreNew, [Next]_vars
  PROVE  /\ \A d \in Drivers :
              \/ row'[d].spot = row[d].spot
              \/ \E h \in Handlers : CreatesBy(h, d) \/ JoinsBy(h, d) \/ RemovesBy(h, d)
         /\ \A s \in Spots : creator[s] # None => creator'[s] = creator[s]
<1> USE DEF TypeOK, JobsAreWhole, Rows, NoRow
<1> DEFINE Moves(d) == \/ row'[d].spot = row[d].spot
                       \/ \E h \in Handlers :
                            CreatesBy(h, d) \/ JoinsBy(h, d) \/ RemovesBy(h, d)
           Stays == \A s \in Spots : creator[s] # None => creator'[s] = creator[s]
<1>1. CASE UNCHANGED <<row, creator>>
  BY <1>1
<1>2. ASSUME NEW d \in Drivers, Register(d) PROVE (\A e \in Drivers : Moves(e)) /\ Stays
  BY <1>2 DEF Register
<1>3. ASSUME NEW h \in Handlers, CreateCommit(h) PROVE (\A e \in Drivers : Moves(e)) /\ Stays
  <2>1. /\ job[h].caller \in Drivers /\ job[h].spot \in Spots
        /\ creator[job[h].spot] = None
    BY <1>3 DEF CreateCommit, NewSpotsAreNew
  <2>2. CreatesBy(h, job[h].caller)
    BY <1>3, <2>1 DEF CreateCommit, CreatesBy
  <2> QED
    BY <1>3, <2>1, <2>2 DEF CreateCommit
<1>4. ASSUME NEW h \in Handlers, JoinUpdate(h) PROVE (\A e \in Drivers : Moves(e)) /\ Stays
  <2>1. job[h].caller \in Drivers
    BY <1>4 DEF JoinUpdate
  <2>2. CASE row[job[h].caller] = NoRow
    BY <1>4, <2>1, <2>2 DEF JoinUpdate
  <2>3. CASE row[job[h].caller] # NoRow
    <3>1. JoinsBy(h, job[h].caller)
      BY <1>4, <2>1, <2>3 DEF JoinUpdate, JoinsBy
    <3> QED
      BY <1>4, <2>1, <2>3, <3>1 DEF JoinUpdate
  <2> QED
    BY <2>2, <2>3
<1>5. ASSUME NEW h \in Handlers, RemoveSave(h) PROVE (\A e \in Drivers : Moves(e)) /\ Stays
  <2>1. job[h].target \in Drivers
    BY <1>5 DEF RemoveSave, RemovePCs
  <2>2. RemovesBy(h, job[h].target)
    BY <1>5, <2>1 DEF RemoveSave, RemovesBy
  <2> QED
    BY <1>5, <2>1, <2>2 DEF RemoveSave
<1>6. UNCHANGED <<row, creator>>
      \/ (\E d \in Drivers : Register(d))
      \/ \E h \in Handlers : CreateCommit(h) \/ JoinUpdate(h) \/ RemoveSave(h)
  BY DEF Next, Request, Continue, Fail, CreateCheck, JoinCheck, RemoveCheck, InviteCheck,
         CreateRead, CreateSave, JoinResolve, RemoveRead, Invite, Crash, vars, memberVars
<1> QED
  BY <1>1, <1>2, <1>3, <1>4, <1>5, <1>6

-----------------------------------------------------------------------------
(***************************************************************************)
(* Owners. What a request has read of its driver is still so when it       *)
(* writes, if a driver has one request under way at a time; codes may      *)
(* repeat.                                                                 *)
(***************************************************************************)
Owned == MembershipSound /\ AskingIsWhole

\* Spots and their owners stay sound whatever the codes do.
THEOREM OwnedHolds ==
  ASSUME "one_request_each" \in Assumed
  PROVE  Spec => []Owned
<1> USE NoneIsNoSpotOrCode, NoneIsNoDriver, TtlIsPositive
<1>1. Init => Owned
  <2> SUFFICES ASSUME Init PROVE Owned
    OBVIOUS
  <2> USE DEF Init, CodeInit, HasSpot, IsOwned, Idle, Job, NoRow, PCs, CreatePCs, JoinPCs,
              RemovePCs, NoInvitation, NotAsking
  <2>1. TypeOK /\ AskingIsWhole
    BY DEF TypeOK, CodeTypeOK, AskingIsWhole, NoSpotCode, NeverTold
  <2>2. OneRequestEach /\ JobsAreWhole /\ NewSpotsAreNew /\ ChecksStillHold
    BY DEF OneRequestEach, JobsAreWhole, NewSpotsAreNew, ChecksStillHold
  <2>3. OwnersCreated
    <3>1. None # OWNER
      BY DEF OWNER
    <3> QED
      BY <3>1 DEF OwnersCreated
  <2>4. SpotsExist
    BY DEF SpotsExist
  <2>5. SpotKeepsOwner
    BY DEF SpotKeepsOwner
  <2> QED
    BY <2>1, <2>2, <2>3, <2>4, <2>5 DEF Owned, MembershipSound
<1>2. Owned /\ [Next]_vars => Owned'
  <2> SUFFICES ASSUME Owned, [Next]_vars PROVE Owned'
    OBVIOUS
  <2>1. MembershipSound /\ TypeOK' /\ JobsAreWhole' /\ AskingIsWhole'
    BY ShapeStep DEF Owned, Shape, MembershipSound
  <2>2. ASSUME NEW d \in Drivers, Register(d) PROVE MembershipSound'
    BY <2>1, <2>2
    DEF Register, MembershipSound, TypeOK, OneRequestEach, JobsAreWhole,
        OwnersCreated, ChecksStillHold, NewSpotsAreNew, SpotsExist, SpotKeepsOwner,
        HasSpot, IsOwned, Rows, NoRow, MEMBER, OWNER, codeVars
  <2>3. ASSUME NEW h \in Handlers, Request(h) \/ Continue(h) \/ Fail(h)
        PROVE  MembershipSound'
    BY <2>1, <2>3, RequestStepSound
  <2>4. ASSUME CodeStep, UNCHANGED memberVars PROVE MembershipSound'
    BY <2>1, <2>4, CodeStepSound
  <2>5. ASSUME Crash PROVE MembershipSound'
    BY <2>1, <2>5
    DEF Crash, CodeCrash, MembershipSound, TypeOK, OneRequestEach,
        JobsAreWhole, OwnersCreated, ChecksStillHold, NewSpotsAreNew, SpotsExist,
        SpotKeepsOwner, HasSpot, IsOwned, Idle, Job, PCs, CreatePCs, JoinPCs, RemovePCs,
        NotAsking
  <2>6. ASSUME UNCHANGED vars PROVE MembershipSound'
    BY <2>1, <2>6
    DEF vars, memberVars, codeVars, MembershipSound, TypeOK, CodeTypeOK, OneRequestEach,
        JobsAreWhole, OwnersCreated, ChecksStillHold, NewSpotsAreNew, SpotsExist,
        SpotKeepsOwner, HasSpot, IsOwned
  <2> QED
    BY <2>1, <2>2, <2>3, <2>4, <2>5, <2>6 DEF Next, Owned
<1> QED
  BY <1>1, <1>2, PTL DEF Spec

\* A spot keeps the one owner it was created by, through joins, removals and creations
\* that overlap.
THEOREM SpotKeepsOwnerHolds ==
  ASSUME "one_request_each" \in Assumed
  PROVE  Spec => []SpotKeepsOwner
<1>1. Owned => SpotKeepsOwner
  BY DEF Owned, MembershipSound
<1> QED
  BY <1>1, OwnedHolds, PTL

\* A driver in a spot stays there until its owner removes the driver.
THEOREM StaysUntilRemovedHolds ==
  ASSUME "one_request_each" \in Assumed
  PROVE  Spec => StaysUntilRemoved
<1>1. ASSUME Owned, [Next]_vars, NEW d \in Drivers, HasSpot(d)
      PROVE  row'[d].spot = row[d].spot \/ RemovedByOwner(d)
  <2> USE DEF Owned, MembershipSound
  <2>1. \A h \in Handlers : ~CreatesBy(h, d) /\ ~JoinsBy(h, d)
    BY <1>1 DEF CreatesBy, JoinsBy, ChecksStillHold, CreatePCs, JoinPCs
  <2>2. \A h \in Handlers : RemovesBy(h, d) => RemovedByOwner(d)
    BY <1>1 DEF RemovesBy, RemovedByOwner, ChecksStillHold, RemovePCs
  <2> QED
    BY <1>1, <2>1, <2>2, DriverMoves
<1>2. Owned /\ [Next]_vars =>
        [\A d \in Drivers :
           HasSpot(d) => row'[d].spot = row[d].spot \/ RemovedByOwner(d)]_vars
  BY <1>1
<1> QED
  BY <1>2, OwnedHolds, PTL DEF Spec, StaysUntilRemoved

-----------------------------------------------------------------------------
(***************************************************************************)
(* Members. A driver who joins has named a code of the spot since being    *)
(* removed last: codes do not repeat, and what a request of the driver has *)
(* read is still so when it writes.                                        *)
(***************************************************************************)
Invited == Owned /\ CodesSound /\ MembersWereInvited /\ JoinersInvited

\* The codes drawn so far keep their spots.
LEMMA DrawnForStays ==
  ASSUME "fresh_codes" \in Assumed, CodesSound, [CodeNext]_codeVars,
         NEW c \in Codes, drawnFor[c] # None
  PROVE  drawnFor'[c] = drawnFor[c]
BY DEF CodeNext, CodeStep, SetKeys, ReadTtl, ReadInvitation, MayDraw, Tick,
       ExpireInvitation, ExpireSpotCode, ReadSpotCode, CodeCrash, codeVars,
       CodesSound, CodeTypeOK

\* The code a driver came by is another one after a code the driver named, and none
\* after a removal.
LEMMA CameByMoves ==
  ASSUME TypeOK, JobsAreWhole, [Next]_vars, NEW d \in Drivers
  PROVE  \/ cameBy'[d] = cameBy[d]
         \/ \E h \in Handlers, c \in Codes :
              JoinResolve(h, c) /\ job[h].caller = d /\ Resolve(c) # None /\ cameBy'[d] = c
         \/ \E h \in Handlers : RemoveSave(h) /\ job[h].target = d
<1> USE DEF TypeOK
<1>1. ASSUME NEW h \in Handlers, NEW c \in Codes, JoinResolve(h, c)
      PROVE  \/ cameBy'[d] = cameBy[d]
             \/ job[h].caller = d /\ Resolve(c) # None /\ cameBy'[d] = c
  BY <1>1 DEF JoinResolve, ComeBy
<1>2. ASSUME NEW h \in Handlers, RemoveSave(h)
      PROVE  cameBy'[d] = cameBy[d] \/ job[h].target = d
  BY <1>2 DEF RemoveSave
<1>3. \/ UNCHANGED cameBy
      \/ \E h \in Handlers : RemoveSave(h) \/ \E c \in Codes : JoinResolve(h, c)
  BY DEF Next, Request, Continue, Fail, CreateCheck, JoinCheck, RemoveCheck, InviteCheck,
         CreateRead, CreateSave, CreateCommit, JoinUpdate, RemoveRead, Invite, Register,
         Crash, vars, memberVars
<1> QED
  BY <1>1, <1>2, <1>3

\* A request is about to join because it was, or because it has resolved a code.
LEMMA NewJoiners ==
  ASSUME TypeOK, JobsAreWhole, [Next]_vars, NEW h \in Handlers, job'[h].pc = "join_update"
  PROVE  \/ job'[h] = job[h]
         \/ \E c \in Codes : /\ JoinResolve(h, c) /\ Resolve(c) # None
                             /\ job'[h].spot = Resolve(c)
                             /\ job'[h].caller = job[h].caller /\ job[h].caller \in Drivers
                             /\ cameBy'[job[h].caller] = c
<1> USE NoneIsNoDriver DEF TypeOK, Goto, Return, Idle, Job
<1>1. ASSUME NEW g \in Handlers, Continue(g), \A c \in Codes : ~JoinResolve(g, c)
      PROVE  job'[h] = job[h]
  BY <1>1 DEF Continue, CreateRead, CreateSave, CreateCommit, JoinUpdate, RemoveRead,
              RemoveSave, Invite
<1>2. ASSUME NEW g \in Handlers, NEW c \in Codes, JoinResolve(g, c)
      PROVE  \/ job'[h] = job[h]
             \/ /\ g = h /\ Resolve(c) # None /\ job'[h].spot = Resolve(c)
                /\ job'[h].caller = job[h].caller /\ job[h].caller \in Drivers
                /\ cameBy'[job[h].caller] = c
  <2>1. job[g].caller \in Drivers
    BY <1>2 DEF JoinResolve, JobsAreWhole
  <2>2. CASE Resolve(c) = None
    BY <1>2, <2>2 DEF JoinResolve
  <2>3. CASE Resolve(c) # None
    BY <1>2, <2>1, <2>3 DEF JoinResolve, ComeBy
  <2> QED
    BY <2>2, <2>3
<1>3. ASSUME NEW g \in Handlers, Request(g) \/ Fail(g) PROVE job'[h] = job[h]
  BY <1>3 DEF Request, Fail, CreateCheck, JoinCheck, RemoveCheck, InviteCheck, Start
<1>4. CASE UNCHANGED job
  BY <1>4
<1>5. CASE Crash
  BY <1>5 DEF Crash
<1> QED
  BY <1>1, <1>2, <1>3, <1>4, <1>5 DEF Next, Register, vars, memberVars

\* While a driver is in a spot, or about to join one, the code the driver came by
\* stands, but for a removal.
LEMMA CameByStays ==
  ASSUME Owned, [Next]_vars, NEW d \in Drivers,
         \/ HasSpot(d) /\ HasSpot(d)'
         \/ \E h \in Handlers : job[h].pc = "join_update" /\ job[h].caller = d
  PROVE  cameBy'[d] = cameBy[d]
<1> USE NoneIsNoSpotOrCode, NoneIsNoDriver DEF Owned, MembershipSound
<1>1. ASSUME NEW h \in Handlers, NEW c \in Codes, JoinResolve(h, c), job[h].caller = d
      PROVE  FALSE
  <2>1. job[h].pc = "join_resolve"
    BY <1>1 DEF JoinResolve
  <2>2. ~HasSpot(d)
    BY <1>1, <2>1 DEF ChecksStillHold, JoinPCs
  <2>3. \A g \in Handlers : job[g].caller = d => g = h
    BY <1>1 DEF OneRequestEach
  <2> QED
    BY <2>1, <2>2, <2>3
<1>2. ASSUME NEW h \in Handlers, RemoveSave(h), job[h].target = d PROVE FALSE
  <2>1. job[h].pc = "remove_save" /\ row'[d].spot = None
    BY <1>2 DEF RemoveSave, TypeOK, Rows, NoRow
  <2>2. row[d].spot = job[h].spot /\ job[h].spot # None
    BY <1>2, <2>1 DEF ChecksStillHold, JobsAreWhole, RemovePCs
  <2>3. HasSpot(d) /\ ~HasSpot(d)'
    BY <2>1, <2>2 DEF HasSpot
  <2>4. \A g \in Handlers : job[g].pc = "join_update" => job[g].caller # d
    BY <2>3 DEF ChecksStillHold, JoinPCs
  <2> QED
    BY <2>3, <2>4
<1> QED
  BY <1>1, <1>2, CameByMoves

\* Members and joiners have come by a code of their spot, and the codes last.
THEOREM InvitedHolds ==
  ASSUME "fresh_codes" \in Assumed, "one_request_each" \in Assumed
  PROVE  Spec => []Invited
<1> USE NoneIsNoSpotOrCode, NoneIsNoDriver, TtlIsPositive
<1>1. Init => CodesSound /\ MembersWereInvited /\ JoinersInvited
  BY DEF Init, CodeInit, CodesSound, CodeTypeOK, AskingIsWhole, OneSpotPerCode,
         CodeLastsAsTold, NoInvitation, NoSpotCode, NotAsking, NeverTold,
         MembersWereInvited, JoinersInvited, HasSpot, NoRow, Idle, Job
<1>2. Owned /\ CodesSound /\ MembersWereInvited /\ JoinersInvited /\ Owned' /\ [Next]_vars
        => (CodesSound /\ MembersWereInvited /\ JoinersInvited)'
  <2> SUFFICES ASSUME Owned, CodesSound, MembersWereInvited, JoinersInvited, Owned',
                      [Next]_vars
               PROVE  (CodesSound /\ MembersWereInvited /\ JoinersInvited)'
    OBVIOUS
  <2>0. /\ TypeOK /\ JobsAreWhole /\ NewSpotsAreNew
        /\ TypeOK' /\ JobsAreWhole'
    BY DEF Owned, MembershipSound
  <2>1. [CodeNext]_codeVars
    BY <2>0, CodeSteps
  <2>2. CodesSound'
    BY <2>1, CodesSoundStep
  <2>3. \A c \in Codes : drawnFor[c] # None => drawnFor'[c] = drawnFor[c]
    BY <2>1, DrawnForStays
  <2>4. MembersWereInvited'
    <3> SUFFICES ASSUME NEW d \in Drivers, HasSpot(d)'
                 PROVE  \/ creator'[row'[d].spot] = d
                        \/ cameBy'[d] # None /\ drawnFor'[cameBy'[d]] = row'[d].spot
      BY DEF MembersWereInvited
    <3>1. row'[d].spot \in Spots
      BY <2>0 DEF HasSpot, TypeOK, Rows, NoRow
    <3>2. CASE row'[d].spot = row[d].spot
      <4>1. HasSpot(d)
        BY <3>1, <3>2 DEF HasSpot
      <4>2. cameBy'[d] = cameBy[d]
        BY <4>1, CameByStays
      <4>3. cameBy[d] \in Codes \cup {None}
        BY <2>0 DEF TypeOK
      <4>4. \/ creator[row[d].spot] = d
            \/ cameBy[d] # None /\ drawnFor[cameBy[d]] = row[d].spot
        BY <4>1 DEF MembersWereInvited
      <4> QED
        BY <2>0, <2>3, <3>1, <3>2, <4>2, <4>3, <4>4, DriverMoves
    <3>3. ASSUME NEW h \in Handlers, JoinsBy(h, d)
          PROVE  cameBy'[d] # None /\ drawnFor'[cameBy'[d]] = row'[d].spot
      <4>1. cameBy'[d] = cameBy[d]
        BY <3>3, CameByStays DEF JoinsBy
      <4>2. cameBy[d] # None /\ drawnFor[cameBy[d]] = job[h].spot
        BY <3>3 DEF JoinersInvited, JoinsBy
      <4>3. cameBy[d] \in Codes
        BY <2>0, <4>2 DEF TypeOK
      <4> QED
        BY <2>3, <3>1, <3>3, <4>1, <4>2, <4>3 DEF JoinsBy
    <3>4. ASSUME NEW h \in Handlers, CreatesBy(h, d) PROVE creator'[row'[d].spot] = d
      BY <3>4 DEF CreatesBy
    <3>5. \A h \in Handlers : ~RemovesBy(h, d)
      BY <3>1 DEF RemovesBy
    <3> QED
      BY <2>0, <3>2, <3>3, <3>4, <3>5, DriverMoves
  <2>5. JoinersInvited'
    <3> SUFFICES ASSUME NEW h \in Handlers, job'[h].pc = "join_update"
                 PROVE  /\ cameBy'[job'[h].caller] # None
                        /\ drawnFor'[cameBy'[job'[h].caller]] = job'[h].spot
      BY DEF JoinersInvited
    <3>1. job'[h].spot \in Spots /\ job'[h].caller \in Drivers
      BY <2>0 DEF JobsAreWhole, TypeOK
    <3>2. CASE job'[h] = job[h]
      <4>1. cameBy'[job[h].caller] = cameBy[job[h].caller]
        BY <3>1, <3>2, CameByStays
      <4>2. /\ cameBy[job[h].caller] # None
            /\ drawnFor[cameBy[job[h].caller]] = job[h].spot
        BY <3>2 DEF JoinersInvited
      <4>3. cameBy[job[h].caller] \in Codes
        BY <2>0, <3>1, <3>2, <4>2 DEF TypeOK
      <4> QED
        BY <2>3, <3>1, <3>2, <4>1, <4>2, <4>3
    <3>3. ASSUME NEW c \in Codes, job'[h].spot = Resolve(c), Resolve(c) # None,
                 job'[h].caller = job[h].caller, cameBy'[job[h].caller] = c
          PROVE  /\ cameBy'[job'[h].caller] # None
                 /\ drawnFor'[cameBy'[job'[h].caller]] = job'[h].spot
      <4>1. drawnFor[c] = Resolve(c)
        BY <3>3 DEF Resolve, CodesSound, OneSpotPerCode
      <4> QED
        BY <2>3, <3>3, <4>1
    <3> QED
      BY <2>0, <3>2, <3>3, NewJoiners
  <2> QED
    BY <2>2, <2>4, <2>5
<1> QED
  BY <1>1, <1>2, OwnedHolds, PTL DEF Spec, Invited

\* A driver in a spot created it or came in by a code drawn for that very spot, one
\* that the driver has named since being removed last.
THEOREM MembersWereInvitedHolds ==
  ASSUME "fresh_codes" \in Assumed, "one_request_each" \in Assumed
  PROVE  Spec => []MembersWereInvited
<1>1. Invited => MembersWereInvited
  BY DEF Invited
<1> QED
  BY <1>1, InvitedHolds, PTL

\* A code lasts as long as was told, also among all the other requests, which may
\* overlap.
THEOREM CodesLastAmongMembers ==
  ASSUME "fresh_codes" \in Assumed
  PROVE  Spec => []CodeLastsAsTold
<1>1. Init => Shape /\ CodesSound
  BY TtlIsPositive, NoneIsNoSpotOrCode, NoneIsNoDriver
  DEF Init, CodeInit, Shape, TypeOK, CodeTypeOK, JobsAreWhole, AskingIsWhole, NoInvitation,
      NoSpotCode, NotAsking, NeverTold, Idle, Job, PCs, CreatePCs, JoinPCs, RemovePCs,
      CodesSound, OneSpotPerCode, CodeLastsAsTold
<1>2. Shape /\ CodesSound /\ [Next]_vars => (Shape /\ CodesSound)'
  <2> SUFFICES ASSUME Shape, CodesSound, [Next]_vars PROVE Shape' /\ CodesSound'
    OBVIOUS
  <2>1. [CodeNext]_codeVars
    BY CodeSteps DEF Shape
  <2> QED
    BY <2>1, ShapeStep, CodesSoundStep
<1>3. CodesSound => CodeLastsAsTold
  BY DEF CodesSound
<1> QED
  BY <1>1, <1>2, <1>3, PTL DEF Spec
=============================================================================
