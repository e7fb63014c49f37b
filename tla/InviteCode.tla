------------------------------ MODULE InviteCode ------------------------------
(***************************************************************************)
(* ServiceSpotsService.getInviteCode and findServiceSpotByInviteCode: the  *)
(* two Redis keys of an invite code, invitation:{code} with the spot it is *)
(* for and service-spot:{spot}:invite-code with the spot's code. Both have *)
(* a TTL. A call reads the spot's code, then the invitation, then either   *)
(* writes both keys or reads the invitation's TTL: three commands of Redis *)
(* between which other calls and expiries come.                            *)
(***************************************************************************)
EXTENDS Naturals, Integers

CONSTANTS
  Spots,       \* ids of service spots
  Codes,       \* what customAlphabet(36 characters, 5) may draw
  Handlers,    \* slots for calls in progress at one time
  Ttl,         \* 900 seconds, in units of Tick
  Assumed,     \* what is taken for granted of the outside
  None         \* null, an absent key

\* "fresh_codes": the five drawn characters do not repeat.
ASSUME TtlIsPositive == Ttl \in Nat \ {0}

ASSUME NoneIsNoSpotOrCode == None \notin Spots \cup Codes

VARIABLES
  invitation,  \* invitation:{code}: the spot and the time the key has left
  spotCode,    \* service-spot:{spot}:invite-code: the code and the time left
  ask,         \* what each call of getInviteCode keeps across its awaits
  drawnFor,    \* history: the spot a code was drawn for last
  told         \* history: the last TTL told with a code, and what is left of it

codeVars == <<invitation, spotCode, ask, drawnFor, told>>

NoInvitation == [spot |-> None, left |-> 0]
NoSpotCode   == [code |-> None, left |-> 0]
NotAsking    == [pc |-> "idle", spot |-> None, code |-> None]
NeverTold    == [spot |-> None, ttl |-> 0, left |-> 0]

CodeInit ==
  /\ invitation = [c \in Codes |-> NoInvitation]
  /\ spotCode = [s \in Spots |-> NoSpotCode]
  /\ ask = [h \in Handlers |-> NotAsking]
  /\ drawnFor = [c \in Codes |-> None]
  /\ told = [c \in Codes |-> NeverTold]
-----------------------------------------------------------------------------
MayDraw(c) == "fresh_codes" \in Assumed => drawnFor[c] = None

\* GET service-spot:{s}:invite-code.
ReadSpotCode(h, s) ==
  /\ ask[h].pc = "idle"
  /\ ask' = [ask EXCEPT ![h] = [pc |-> "draw", spot |-> s, code |-> spotCode[s].code]]
  /\ UNCHANGED <<invitation, spotCode, drawnFor, told>>

\* GET invitation:{c}, for the spot's code, or a new one when the spot has none.
ReadInvitation(h, c) ==
  /\ ask[h].pc = "draw"
  /\ IF ask[h].code = None
     THEN /\ MayDraw(c)
          /\ drawnFor' = [drawnFor EXCEPT ![c] = ask[h].spot]
     ELSE /\ c = ask[h].code
          /\ UNCHANGED drawnFor
  /\ ask' = [ask EXCEPT ![h].code = c,
                        ![h].pc = IF invitation[c].spot = None THEN "set" ELSE "ttl"]
  /\ UNCHANGED <<invitation, spotCode, told>>

Tell(s, c, n) == told' = [told EXCEPT ![c] = [spot |-> s, ttl |-> n, left |-> n]]

\* Fault: the invitation is left to what remains of it.
SetKeysOnce(h) ==
  LET s == ask[h].spot
      c == ask[h].code IN
  /\ ask[h].pc = "set"
  /\ invitation' = [invitation EXCEPT ![c] =
       [spot |-> s, left |-> IF invitation[c].spot = None THEN Ttl ELSE @.left]]
  /\ spotCode' = [spotCode EXCEPT ![s] = [code |-> c, left |-> Ttl]]
  /\ Tell(s, c, Ttl)
  /\ ask' = [ask EXCEPT ![h] = NotAsking]
  /\ UNCHANGED drawnFor

\* Both SETs are sent at once, each with the whole TTL, and the code is answered.
SetKeys(h) ==
  LET s == ask[h].spot
      c == ask[h].code IN
  /\ ask[h].pc = "set"
  /\ invitation' = [invitation EXCEPT ![c] = [spot |-> s, left |-> Ttl]]
  /\ spotCode' = [spotCode EXCEPT ![s] = [code |-> c, left |-> Ttl]]
  /\ Tell(s, c, Ttl)
  /\ ask' = [ask EXCEPT ![h] = NotAsking]
  /\ UNCHANGED drawnFor

\* TTL invitation:{c}, which is -2 when the key has expired since it was read.
ReadTtl(h) ==
  LET c == ask[h].code IN
  /\ ask[h].pc = "ttl"
  /\ Tell(ask[h].spot, c, IF invitation[c].spot = None THEN -2 ELSE invitation[c].left)
  /\ ask' = [ask EXCEPT ![h] = NotAsking]
  /\ UNCHANGED <<invitation, spotCode, drawnFor>>

\* findServiceSpotByInviteCode: GET invitation:{c}.
Resolve(c) == invitation[c].spot
-----------------------------------------------------------------------------
Due(key) == key.left = 0

\* Time passes; a key that is due goes first. What was told runs down too.
Tick ==
  /\ \A c \in Codes : invitation[c] # NoInvitation => ~Due(invitation[c])
  /\ \A s \in Spots : spotCode[s] # NoSpotCode => ~Due(spotCode[s])
  /\ invitation' = [c \in Codes |->
       IF invitation[c] = NoInvitation THEN NoInvitation
       ELSE [invitation[c] EXCEPT !.left = @ - 1]]
  /\ spotCode' = [s \in Spots |->
       IF spotCode[s] = NoSpotCode THEN NoSpotCode ELSE [spotCode[s] EXCEPT !.left = @ - 1]]
  /\ told' = [c \in Codes |->
       [told[c] EXCEPT !.left = IF @ > 0 THEN @ - 1 ELSE @]]
  /\ UNCHANGED <<ask, drawnFor>>

\* The two keys are set one after the other and may go one after the other.
ExpireInvitation(c) ==
  /\ invitation[c] # NoInvitation /\ Due(invitation[c])
  /\ invitation' = [invitation EXCEPT ![c] = NoInvitation]
  /\ UNCHANGED <<spotCode, ask, drawnFor, told>>

ExpireSpotCode(s) ==
  /\ spotCode[s] # NoSpotCode /\ Due(spotCode[s])
  /\ spotCode' = [spotCode EXCEPT ![s] = NoSpotCode]
  /\ UNCHANGED <<invitation, ask, drawnFor, told>>

\* The process dies: calls under way are lost, the keys are not.
CodeCrash ==
  /\ ask' = [h \in Handlers |-> NotAsking]
  /\ UNCHANGED <<invitation, spotCode, drawnFor, told>>
-----------------------------------------------------------------------------
\* What goes on without a new call.
CodeStep ==
  \/ \E h \in Handlers : SetKeys(h) \/ ReadTtl(h) \/ \E c \in Codes : ReadInvitation(h, c)
  \/ Tick
  \/ \E c \in Codes : ExpireInvitation(c)
  \/ \E s \in Spots : ExpireSpotCode(s)

CodeNext ==
  \/ CodeStep
  \/ \E h \in Handlers, s \in Spots : ReadSpotCode(h, s)
  \/ CodeCrash

CodeSpec == CodeInit /\ [][CodeNext]_codeVars
-----------------------------------------------------------------------------
\* Every variable keeps its shape: the two keys, the calls and the histories.
CodeTypeOK ==
  /\ invitation \in [Codes -> [spot: Spots, left: 0..Ttl] \cup {NoInvitation}]
  /\ spotCode \in [Spots -> [code: Codes, left: 0..Ttl] \cup {NoSpotCode}]
  /\ ask \in [Handlers -> [pc: {"idle", "draw", "set", "ttl"}, spot: Spots \cup {None},
                           code: Codes \cup {None}]]
  /\ drawnFor \in [Codes -> Spots \cup {None}]
  /\ told \in [Codes -> [spot: Spots \cup {None}, ttl: {-2} \cup 0..Ttl,
                         left: {-2} \cup 0..Ttl]]

\* A code works for as long as its spot's owner was told it would, and lets
\* drivers into that spot: other calls, for this spot or another, that read the
\* keys before and write them after, do not cut it short or turn it to another
\* spot. It takes "fresh_codes".
CodeLastsAsTold ==
  \A c \in Codes : told[c].left > 0 =>
    invitation[c].spot = told[c].spot /\ invitation[c].left >= told[c].left

\* A code is answered with the time it has left, as ServiceSpotInviteDto has it: "Time
\* in seconds when the invite code expires". The invitation may expire between the
\* GET that finds it and the TTL, which then says -2 of a code that leads nowhere.
TtlToldIsTime == \A c \in Codes : told[c].spot # None => told[c].ttl >= 0

(***************************************************************************)
(* Why CodeLastsAsTold holds: every key, call and answer that names a code *)
(* names it with the spot it was drawn for, and a call about to write an   *)
(* invitation can only lengthen its life.                                  *)
(***************************************************************************)
OneSpotPerCode ==
  /\ \A c \in Codes : invitation[c].spot \in {None, drawnFor[c]}
  /\ \A s \in Spots : spotCode[s].code # None => drawnFor[spotCode[s].code] = s
  /\ \A h \in Handlers : ask[h].code # None => drawnFor[ask[h].code] = ask[h].spot
  /\ \A c \in Codes : told[c].spot \in {None, drawnFor[c]}

AskingIsWhole ==
  \A h \in Handlers :
    /\ ask[h].pc # "idle" => ask[h].spot # None
    /\ ask[h].pc \in {"set", "ttl"} => ask[h].code # None
    /\ ask[h].pc = "idle" => ask[h].code = None

\* Inductive under "fresh_codes".
CodesSound == CodeTypeOK /\ AskingIsWhole /\ OneSpotPerCode /\ CodeLastsAsTold
=============================================================================
