----------------------------- MODULE SessionLogs -----------------------------
(***************************************************************************)
(* The sessions the dash has recorded (src/src/stores/session-logs.store   *)
(* .ts), listed, downloaded and deleted over HTTP.  Requests overtake one  *)
(* another: any outstanding one may be served, and answered, next.         *)
(***************************************************************************)
EXTENDS FiniteSets, Naturals

CONSTANTS
  LogNames,
  MaxRequests        \* bound: requests outstanding at one time

ASSUME SessionLogsAssumption == MaxRequests \in Nat

VARIABLES
  overWifi,          \* the tuner runs where the dash answers HTTP
  availability, logs,
  busy,              \* the session whose buttons are disabled, or NoLog
  requests,          \* id -> [op, name, answer, listed]
  asked,             \* the session the dialog asks to delete, or NoLog
  screenOpen,
  dashLogs,          \* what is on the card of the dash
  crossedLists,      \* history: another list was outstanding when the last began
  goneUnseen         \* history: what left the card since, with nobody told

sessionLogsVars == <<overWifi, availability, logs, busy, requests, asked, screenOpen,
                     dashLogs, crossedLists, goneUnseen>>

NoLog == "no log"
Refusals     == {"refused", "notOwner"}
FileProblems == {"missing", "unreachable"} \cup Refusals
Unlisted     == {"noCard", "unsupported", "unreachable"} \cup Refusals
Retryable    == {"noCard", "unreachable", "notOwner"}

SessionLogsInit ==
  /\ overWifi \in BOOLEAN
  /\ availability = "checking" /\ logs = {} /\ busy = NoLog
  /\ requests = [id \in {} |-> {}]
  /\ asked = NoLog /\ screenOpen = FALSE
  /\ dashLogs = LogNames
  /\ crossedLists = FALSE /\ goneUnseen = {}

-----------------------------------------------------------------------------
listing(reqs) == {id \in DOMAIN reqs : reqs[id].op = "list"}

freeId(reqs) == CHOOSE id \in 1 .. MaxRequests : id \notin DOMAIN reqs

request(reqs, op, name) ==
  [id \in DOMAIN reqs \cup {freeId(reqs)} |->
     IF id \in DOMAIN reqs THEN reqs[id] ELSE [op |-> op, name |-> name, answer |-> "none", listed |-> {}]]

answered(id) == [other \in DOMAIN requests \ {id} |-> requests[other]]

\* load(), with the requests that are outstanding beside it.
loadLogs(reqs) ==
  IF overWifi
  THEN /\ availability' = "checking"
       /\ requests' = request(reqs, "list", NoLog)
       /\ crossedLists' = (listing(reqs) # {})
       /\ goneUnseen' = {}
       /\ UNCHANGED logs
  ELSE /\ availability' = "noWifi"
       /\ logs' = {}
       /\ requests' = reqs
       /\ UNCHANGED <<crossedLists, goneUnseen>>

mayRequest == Cardinality(DOMAIN requests) < MaxRequests

openLogsScreen ==
  /\ ~screenOpen /\ mayRequest
  /\ screenOpen' = TRUE
  /\ loadLogs(requests)
  /\ UNCHANGED <<overWifi, busy, asked, dashLogs>>

leaveLogsScreen ==
  /\ screenOpen
  /\ screenOpen' = FALSE
  /\ asked' = NoLog
  /\ UNCHANGED <<overWifi, availability, logs, busy, requests, dashLogs, crossedLists, goneUnseen>>

retryLogs ==
  /\ screenOpen /\ availability \in Retryable /\ mayRequest
  /\ loadLogs(requests)
  /\ UNCHANGED <<overWifi, busy, asked, screenOpen, dashLogs>>

rowsShown == screenOpen /\ availability = "listed" /\ logs # {}

rowEnabled(name) == rowsShown /\ name \in logs /\ busy # name /\ asked = NoLog

askToDelete(name) ==
  /\ rowEnabled(name)
  /\ asked' = name
  /\ UNCHANGED <<overWifi, availability, logs, busy, requests, screenOpen, dashLogs,
                 crossedLists, goneUnseen>>

cancelDelete ==
  /\ rowsShown /\ asked # NoLog
  /\ asked' = NoLog
  /\ UNCHANGED <<overWifi, availability, logs, busy, requests, screenOpen, dashLogs,
                 crossedLists, goneUnseen>>

whileBusy(op, name) ==
  /\ mayRequest
  /\ busy' = name
  /\ requests' = request(requests, op, name)
  /\ UNCHANGED <<overWifi, availability, logs, screenOpen, dashLogs, crossedLists, goneUnseen>>

download(name) == rowEnabled(name) /\ whileBusy("download", name) /\ UNCHANGED asked

remove ==
  /\ rowsShown /\ asked # NoLog
  /\ whileBusy("delete", asked)
  /\ asked' = NoLog

-----------------------------------------------------------------------------
\* The dash serves a request: it reads the card, or deletes from it.
serve(id) ==
  /\ requests[id].answer = "none"
  /\ LET req  == requests[id]
         gone == req.op # "list" /\ req.name \notin dashLogs
     IN /\ requests' = [requests EXCEPT ![id].answer = IF gone THEN "missing" ELSE "done",
                                        ![id].listed = IF req.op = "list" THEN dashLogs ELSE {}]
        /\ dashLogs' = IF req.op = "delete" THEN dashLogs \ {req.name} ELSE dashLogs
  /\ UNCHANGED <<overWifi, availability, logs, busy, asked, screenOpen, crossedLists, goneUnseen>>

fromIndex(listed) == availability' = "listed" /\ logs' = listed

listArrives(id) ==
  /\ requests[id].op = "list" /\ requests[id].answer # "none"
  /\ fromIndex(requests[id].listed)
  /\ requests' = answered(id)
  /\ UNCHANGED <<overWifi, busy, asked, screenOpen, dashLogs, crossedLists, goneUnseen>>

\* The dash refuses, does not know the path, has no card, or does not answer.
listFails(id) ==
  /\ requests[id].op = "list"
  /\ availability' \in Unlisted
  /\ logs' = {}
  /\ requests' = answered(id)
  /\ asked' = NoLog                     \* the rows go, and the dialog with them
  /\ UNCHANGED <<overWifi, busy, screenOpen, dashLogs, crossedLists, goneUnseen>>

\* Faulted reloads: the list is kept when the session turns out to be gone.
reloadsAfterDelete(op, answer) == op = "delete" /\ answer = "done"

\* FILE_PROBLEMS and DELETE_OUTCOMES: when the list is to be read again.
reloads(op, answer) == answer = "missing" \/ (op = "delete" /\ answer = "done")

\* The request of whileBusy() ends: busy is cleared whichever session it names.
fileRequestEnds(id, answer) ==
  /\ busy' = NoLog
  /\ IF reloads(requests[id].op, answer)
     THEN loadLogs(answered(id)) /\ asked' = NoLog
     ELSE /\ requests' = answered(id)
          /\ UNCHANGED <<availability, logs, asked, crossedLists>>
          /\ goneUnseen' = IF answer = "missing" THEN goneUnseen \ {requests[id].name}
                           ELSE IF requests[id].op = "delete" /\ requests[id].answer = "done"
                           THEN goneUnseen \cup {requests[id].name} ELSE goneUnseen
  /\ UNCHANGED <<overWifi, screenOpen, dashLogs>>

fileAnswerArrives(id) ==
  /\ requests[id].op # "list" /\ requests[id].answer # "none"
  /\ fileRequestEnds(id, requests[id].answer)

\* It is refused before it is served, or no answer comes, served or not.
fileRequestFails(id) ==
  /\ requests[id].op # "list"
  /\ \E problem \in {"unreachable"} \cup (IF requests[id].answer = "none" THEN Refusals ELSE {}) :
       fileRequestEnds(id, problem)

\* Another device deletes a session, or the card is taken out and changed.
cardChanges(name) ==
  /\ name \in dashLogs
  /\ dashLogs' = dashLogs \ {name}
  /\ goneUnseen' = goneUnseen \cup {name}
  /\ UNCHANGED <<overWifi, availability, logs, busy, requests, asked, screenOpen, crossedLists>>

SessionLogsNext ==
  \/ openLogsScreen \/ leaveLogsScreen \/ retryLogs \/ cancelDelete \/ remove
  \/ \E name \in LogNames : askToDelete(name) \/ download(name) \/ cardChanges(name)
  \/ \E id \in DOMAIN requests :
       serve(id) \/ listArrives(id) \/ listFails(id) \/ fileAnswerArrives(id) \/ fileRequestFails(id)

SessionLogsSpec == SessionLogsInit /\ [][SessionLogsNext]_sessionLogsVars

-----------------------------------------------------------------------------
\* Once every request has ended the list shows what is on the card, whichever of
\* downloads, deletions and lists overtook which, unless two lists crossed
\* (the store has no generation to tell them apart), but for what left the
\* card with nobody told (session-logs.store.ts:77-147; session-logs.store.test.ts:109).
ListingIsCurrent ==
  (DOMAIN requests = {} /\ availability = "listed" /\ ~crossedLists)
     => logs \ goneUnseen = dashLogs
=============================================================================
