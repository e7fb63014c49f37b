------------------------------- MODULE RideChat -------------------------------
(***************************************************************************)
(* The chat of a ride, the Redis list drive-request:{sid}:messages, beside *)
(* the hash of its session (DriveSession). RedisDriveRequestStore deletes  *)
(* the list and the hash in one MULTI; the TTL is the hash's alone, and    *)
(* chat-message appends to the list of whatever sid the app names.         *)
(***************************************************************************)
EXTENDS DriveSession

VARIABLES
  messages,  \* each list: when its messages came, while there was a hash or not
  expired    \* history: sids whose hash was removed by its TTL

chatVars == <<vars, messages, expired>>

ChatInit ==
  /\ Init
  /\ messages = [s \in Sids |-> {}]
  /\ expired = {}

\* chat-message; an app knows the sids that were handed out.
ChatMessage(s) ==
  /\ request[s] # NoRequest
  /\ messages' = [messages EXCEPT ![s] = @ \cup {IF Exists(s) THEN "during" ELSE "late"}]
  /\ UNCHANGED <<vars, expired>>

\* Fault: the list is deleted when the row is written, not with the hash.
DeletesListLate(s) ==
  \/ \E h \in Handlers : job[h].sid = s /\ CompleteInsert(h)
  \/ \E o \in Answers : o.sid = s /\ RejectRemove(o)

\* The steps that call removeDriveRequest.
DeletesList(s) ==
  \/ \E h \in Handlers : job[h].sid = s /\ CompleteRemove(h)
  \/ \E o \in Answers : o.sid = s /\ RejectRemove(o)

\* A step of the session, and what it does to the lists.
SessionStep ==
  /\ Next
  /\ messages' = [s \in Sids |-> IF DeletesList(s) THEN {} ELSE messages[s]]
  /\ expired' = expired \cup {s \in Sids : Expire(s)}

ChatNext == SessionStep \/ \E s \in Sids : ChatMessage(s)

ChatSpec == ChatInit /\ [][ChatNext]_chatVars /\ Fairness
-----------------------------------------------------------------------------
\* A ride's messages go with the ride: once its hash has been removed, by a handler
\* and not by its TTL, its list holds nothing but messages that came later, also when
\* a handler that was under way brings the hash back in part or removes it again.
ChatGoesWithRide ==
  \A s \in Sids \ expired : ~Exists(s) => "during" \notin messages[s]
=============================================================================
