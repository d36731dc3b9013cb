------------------------ MODULE OperationsConsoleProofs ------------------------
(***************************************************************************)
(* What the operations API answers and why the console drops a session,    *)
(* for every set of users and every number of loads of the dashboard; and  *)
(* what the statistics of any job runs show.                               *)
(***************************************************************************)
EXTENDS OperationsConsole, SumFunctionLemmas, TLAPS

Statuses == {"healthy", "warning", "error"}
Overalls == {DetermineOverallStatus(S) : S \in SUBSET Statuses} \cup {"error"}
Reports  == [firestore : Statuses, overall : Overalls]

Phases ==
  {"unused", "token", "sent", "write", "read", "delete", "get", "list", "answered", "forbidden",
   "leaving", "settled"}

Tokens == Users \cup {Nobody}
Codes  == {0, 200, 401, 403, 500}
Values == Reports \cup {Nothing}

Requests ==
  [phase : Phases, token : Tokens, verified : BOOLEAN, alone : BOOLEAN, faulty : BOOLEAN,
   lost : BOOLEAN, status : Codes, value : Values]

Sessions == [user : Tokens, initialized : BOOLEAN, error : BOOLEAN]

\* Only the owner's requests get past the authentication, each to the controller
\* of its kind, and what is answered is about its user.
SoundRequest(q, r) ==
  /\ r \in Requests
  /\ r.phase \notin {"answered", "forbidden", "leaving"} => r.status = 0
  /\ r.phase \in {"write", "read", "delete", "get", "list"} => r.token = Owner
  /\ r.phase \in {"write", "read", "delete"} => q[2] = "healthcheck"
  /\ r.phase \in {"get", "list"} => q[2] = "statistics"
  /\ r.phase = "forbidden" => r.status = 403
  /\ r.status = 200 => r.token = Owner
  /\ r.status = 401 => r.token = Nobody
  /\ r.status = 403 => r.token # Owner \/ ~r.verified
  /\ q[2] = "healthcheck" /\ r.status = 200 /\ ~r.faulty /\ r.alone => r.value.firestore = "healthy"

RequestsSound ==
  /\ session \in Sessions /\ firebase \in Tokens
  /\ requests \in [Keys -> Requests]
  /\ \A q \in Keys : SoundRequest(q, requests[q])

OnDocument(r) == r.phase \in {"read", "delete"}

\* Checks that are both between their write and their end know of each other, and
\* the document of one that knows of no other is there until it is deleted.
DocumentsSound ==
  /\ \A p, q \in Keys :
       p # q /\ OnDocument(requests[p]) /\ OnDocument(requests[q]) => ~requests[q].alone
  /\ \A q \in Keys : In(q, "read") /\ requests[q].alone => healthDoc

ConsoleInv == RequestsSound /\ DocumentsSound
-----------------------------------------------------------------------------
(***************************************************************************)
(* Requests.                                                               *)
(***************************************************************************)
LEMMA InitialRequest == NoRequest \in Requests
BY DEF NoRequest, Requests, Phases, Codes, Tokens, Values

LEMMA UpdatedPhase ==
  ASSUME NEW s \in Requests, NEW phase \in Phases
  PROVE  LET u == [s EXCEPT !.phase = phase]
         IN /\ u \in Requests /\ u.phase = phase /\ u.token = s.token /\ u.status = s.status
            /\ u.value = s.value /\ u.verified = s.verified /\ u.alone = s.alone /\ u.faulty = s.faulty
BY DEF Requests

LEMMA UpdatedAnswer ==
  ASSUME NEW s \in Requests, NEW code \in Codes, NEW value \in Values
  PROVE  LET u == [s EXCEPT !.status = code, !.value = value]
         IN /\ u \in Requests /\ u.status = code /\ u.value = value /\ u.phase = s.phase
            /\ u.token = s.token /\ u.verified = s.verified /\ u.alone = s.alone /\ u.faulty = s.faulty
BY DEF Requests

LEMMA UpdatedToken ==
  ASSUME NEW s \in Requests, NEW phase \in Phases, NEW token \in Tokens
  PROVE  LET u == [s EXCEPT !.phase = phase, !.token = token]
         IN u \in Requests /\ u.status = s.status /\ u.phase = phase
BY DEF Requests

LEMMA UpdatedLost ==
  ASSUME NEW s \in Requests, NEW lost \in BOOLEAN
  PROVE  LET u == [s EXCEPT !.lost = lost]
         IN /\ u \in Requests /\ u.phase = s.phase /\ u.token = s.token /\ u.status = s.status
            /\ u.value = s.value /\ u.verified = s.verified /\ u.alone = s.alone /\ u.faulty = s.faulty
BY DEF Requests

LEMMA UpdatedVerdict ==
  ASSUME NEW s \in Requests
  PROVE  /\ [s EXCEPT !.status = 403, !.verified = FALSE] \in Requests
         /\ [s EXCEPT !.status = 403, !.verified = FALSE].status = 403
         /\ ~[s EXCEPT !.status = 403, !.verified = FALSE].verified
<1>1. /\ [s EXCEPT !.status = 403, !.verified = FALSE].status = 403
      /\ ~[s EXCEPT !.status = 403, !.verified = FALSE].verified
  BY DEF Requests
<1>2. ASSUME NEW code \in Codes, NEW b \in BOOLEAN
      PROVE  [s EXCEPT !.status = code, !.verified = b] \in Requests
  BY DEF Requests
<1>3. 403 \in Codes
  BY DEF Codes
<1>4. FALSE \in BOOLEAN
  OBVIOUS
<1>. QED
  BY Zenon, <1>1, <1>2, <1>3, <1>4

LEMMA UpdatedMeeting ==
  ASSUME NEW s \in Requests, NEW phase \in Phases, NEW alone \in BOOLEAN
  PROVE  /\ LET u == [s EXCEPT !.phase = phase, !.alone = alone]
            IN /\ u \in Requests /\ u.phase = phase /\ u.alone = alone
               /\ u.token = s.token /\ u.status = s.status
         /\ LET u == [s EXCEPT !.alone = alone]
            IN /\ u \in Requests /\ u.phase = s.phase /\ u.token = s.token /\ u.status = s.status
               /\ u.value = s.value /\ u.verified = s.verified /\ u.alone = alone
BY DEF Requests

LEMMA UpdatedFailure ==
  ASSUME NEW s \in Requests, NEW v \in Values
  PROVE  [s EXCEPT !.status = 200, !.faulty = TRUE, !.value = v] \in Requests
<1>1. ASSUME NEW code \in Codes, NEW b \in BOOLEAN
      PROVE  [s EXCEPT !.status = code, !.faulty = b, !.value = v] \in Requests
  BY DEF Requests
<1>2. 200 \in Codes
  BY DEF Codes
<1>3. TRUE \in BOOLEAN
  OBVIOUS
<1>. QED
  BY Zenon, <1>1, <1>2, <1>3

LEMMA SettledRequest ==
  ASSUME NEW q, NEW phase \in {"settled", "token", "unused"}
  PROVE  SoundRequest(q, [NoRequest EXCEPT !.phase = phase])
<1>. DEFINE r == [NoRequest EXCEPT !.phase = phase]
<1>1. r \in Requests /\ r.phase = phase /\ r.status = 0
  <2>1. phase \in Phases /\ NoRequest.status = 0
    BY DEF Phases, NoRequest
  <2>. QED
    BY <2>1, InitialRequest, UpdatedPhase
<1>2. r.phase \notin {"answered", "forbidden", "leaving", "write", "read", "delete", "get", "list"}
  BY <1>1
<1>. HIDE DEF r
<1>3. r.status # 200 /\ r.status # 401 /\ r.status # 403
  BY <1>1
<1>4. /\ r.phase # "forbidden" /\ r.phase \notin {"write", "read", "delete", "get", "list"}
      /\ r.phase \notin {"write", "read", "delete"} /\ r.phase \notin {"get", "list"}
  BY <1>2
<1>5. SoundRequest(q, r)
  BY <1>1, <1>3, <1>4 DEF SoundRequest
<1>. QED
  BY <1>5 DEF r

\* Whoever replaces one request by a sound one.
LEMMA SetSound ==
  ASSUME RequestsSound, NEW q \in Keys, NEW r, SoundRequest(q, r), Set(q, r),
         session' \in Sessions, firebase' \in Tokens
  PROVE  RequestsSound'
<1>1. requests' = [requests EXCEPT ![q] = r] /\ requests \in [Keys -> Requests] /\ r \in Requests
  BY DEF Set, RequestsSound, SoundRequest
<1>2. requests' \in [Keys -> Requests]
  BY <1>1
<1>3. \A p \in Keys : requests'[p] = IF p = q THEN r ELSE requests[p]
  BY <1>1
<1>4. \A p \in Keys : SoundRequest(p, requests'[p])
  BY <1>3 DEF RequestsSound
<1>. QED
  BY <1>2, <1>4 DEF RequestsSound

\* ... and a request that has nothing to do with the document, or goes on with it.
LEMMA SetDocuments ==
  ASSUME RequestsSound, DocumentsSound, NEW q \in Keys, NEW r, Set(q, r),
         \/ ~OnDocument(r)
         \/ /\ OnDocument(r) /\ OnDocument(requests[q]) /\ r.alone = requests[q].alone
            /\ r.phase = "read" => In(q, "read"),
         (healthDoc => healthDoc') \/ (In(q, "delete") /\ ~OnDocument(r))
  PROVE  DocumentsSound'
<1>1. \A p \in Keys : requests'[p] = IF p = q THEN r ELSE requests[p]
  BY DEF Set, RequestsSound
<1>2. ASSUME NEW p \in Keys, NEW s \in Keys, p # s, OnDocument(requests'[p]), OnDocument(requests'[s])
      PROVE  ~requests'[s].alone
  <2>1. OnDocument(requests[p]) /\ OnDocument(requests[s]) /\ requests'[s].alone = requests[s].alone
    BY <1>1, <1>2
  <2>. QED
    BY <1>2, <2>1 DEF DocumentsSound
<1>3. ASSUME NEW s \in Keys, requests'[s].phase = "read", requests'[s].alone
      PROVE  healthDoc'
  <2>1. OnDocument(requests'[s])
    BY <1>3 DEF OnDocument
  <2>2. In(s, "read") /\ requests[s].alone
    BY <1>1, <1>3, <2>1 DEF In
  <2>3. healthDoc /\ OnDocument(requests[s])
    BY <2>2 DEF DocumentsSound, In, OnDocument
  <2>4. CASE In(q, "delete") /\ ~OnDocument(r)
    <3>1. s # q /\ OnDocument(requests[q])
      BY <1>1, <2>1, <2>4 DEF In, OnDocument
    <3>. QED
      BY <2>2, <2>3, <3>1 DEF DocumentsSound
  <2>. QED
    BY <2>3, <2>4
<1>. QED
  BY <1>2, <1>3 DEF DocumentsSound, In, OnDocument

\* What the API answers, as Answer and Reply build it: nobody waits for the answer
\* to a request that is lost.
LEMMA ReplySound ==
  ASSUME NEW q, NEW r, Reply(q, r), SoundRequest(q, [r EXCEPT !.phase = "answered"]),
         [r EXCEPT !.phase = "answered"].phase = "answered"
  PROVE  \E s : Set(q, s) /\ SoundRequest(q, s) /\ ~OnDocument(s)
<1>1. [NoRequest EXCEPT !.phase = "settled"].phase = "settled"
  BY InitialRequest DEF Requests
<1>2. PICK s : Set(q, s) /\ SoundRequest(q, s) /\ s.phase \in {"answered", "settled"}
  BY <1>1, SettledRequest, Zenon DEF Reply, Settle
<1>3. ~OnDocument(s)
  BY <1>2 DEF OnDocument
<1>. QED
  BY <1>2, <1>3

LEMMA AnsweredKeeps ==
  ASSUME ConsoleInv, NEW q \in Keys,
         \E s : Set(q, s) /\ SoundRequest(q, s) /\ ~OnDocument(s),
         UNCHANGED <<session, firebase>>,
         (healthDoc => healthDoc') \/ In(q, "delete")
  PROVE  ConsoleInv'
<1>1. session' \in Sessions /\ firebase' \in Tokens
  BY DEF ConsoleInv, RequestsSound
<1>2. PICK s : Set(q, s) /\ SoundRequest(q, s) /\ ~OnDocument(s)
  OBVIOUS
<1>. QED
  BY <1>1, <1>2, SetSound, SetDocuments DEF ConsoleInv

\* The answers with a status and a value of their own.
LEMMA PlainAnswerSound ==
  ASSUME ConsoleInv, NEW q \in Keys, NEW code \in {200, 401, 403, 500}, NEW value \in Values,
         Answer(q, code, value),
         code = 200 => requests[q].token = Owner,
         code = 401 => requests[q].token = Nobody,
         code = 403 => requests[q].token # Owner,
         q[2] = "healthcheck" /\ code = 200 /\ requests[q].alone => value.firestore = "healthy",
         UNCHANGED <<session, firebase>>,
         healthDoc' = healthDoc \/ In(q, "delete")
  PROVE  ConsoleInv'
<1>. DEFINE r == [requests[q] EXCEPT !.status = code, !.value = value]
            a == [r EXCEPT !.phase = "answered"]
<1>1. requests[q] \in Requests
  BY DEF ConsoleInv, RequestsSound
<1>2. /\ r \in Requests /\ r.status = code
      /\ a \in Requests /\ a.phase = "answered" /\ a.status = code /\ a.value = value
      /\ a.token = requests[q].token /\ a.alone = requests[q].alone
  <2>1. code \in Codes /\ "answered" \in Phases
    BY DEF Codes, Phases
  <2>2. r \in Requests /\ r.status = code /\ r.value = value
        /\ r.token = requests[q].token /\ r.alone = requests[q].alone
    BY <1>1, <2>1 DEF Requests
  <2>. HIDE DEF r
  <2>. QED
    BY <2>1, <2>2, UpdatedPhase
<1>3. Reply(q, r)
  BY DEF Answer
<1>. HIDE DEF r
<1>4. SoundRequest(q, a)
  <2>. HIDE DEF a
  <2>. QED
    BY <1>2 DEF SoundRequest
<1>5. \E s : Set(q, s) /\ SoundRequest(q, s) /\ ~OnDocument(s)
  BY <1>2, <1>3, <1>4, ReplySound
<1>. HIDE DEF a
<1>6. (healthDoc => healthDoc') \/ In(q, "delete")
  OBVIOUS
<1>. QED
  BY <1>5, <1>6, AnsweredKeeps

\* A request that goes on to another phase of the API.
LEMMA GoesOnSound ==
  ASSUME ConsoleInv, NEW q \in Keys, NEW phase \in {"write", "get", "list", "delete"}, To(q, phase),
         requests[q].status = 0, requests[q].token = Owner,
         phase \in {"write", "delete"} <=> q[2] = "healthcheck",
         phase \in {"get", "list"} <=> q[2] = "statistics",
         phase = "delete" => In(q, "read"),
         UNCHANGED <<session, firebase, healthDoc>>
  PROVE  ConsoleInv'
<1>. DEFINE r == [requests[q] EXCEPT !.phase = phase]
<1>1. requests[q] \in Requests
  BY DEF ConsoleInv, RequestsSound
<1>2. /\ r \in Requests /\ r.status = 0 /\ r.phase = phase /\ r.token = Owner
      /\ r.alone = requests[q].alone
  <2>1. phase \in Phases
    BY DEF Phases
  <2>. QED
    BY <1>1, <2>1, UpdatedPhase
<1>3. Set(q, r)
  BY DEF To
<1>. HIDE DEF r
<1>4. SoundRequest(q, r)
  BY <1>2 DEF SoundRequest
<1>5. \/ ~OnDocument(r)
      \/ OnDocument(r) /\ OnDocument(requests[q]) /\ r.phase # "read"
  BY <1>2 DEF OnDocument, In
<1>6. session' \in Sessions /\ firebase' \in Tokens
  BY DEF ConsoleInv, RequestsSound
<1>. QED
  BY <1>2, <1>3, <1>4, <1>5, <1>6, SetSound, SetDocuments DEF ConsoleInv
-----------------------------------------------------------------------------
(***************************************************************************)
(* The steps of a request.                                                 *)
(***************************************************************************)
LEMMA SendKeeps ==
  ASSUME ConsoleInv, NEW q \in Keys, Send(q)
  PROVE  ConsoleInv'
<1>. DEFINE r == [requests[q] EXCEPT !.phase = "sent", !.token = session.user]
<1>1. /\ requests[q] \in Requests /\ SoundRequest(q, requests[q]) /\ session.user \in Tokens
      /\ requests[q].phase = "token" /\ Set(q, r) /\ UNCHANGED <<session, firebase, healthDoc>>
  BY DEF Send, ConsoleInv, RequestsSound, Sessions, In, browser
<1>2. requests[q].status = 0
  BY <1>1 DEF SoundRequest
<1>3. r \in Requests /\ r.status = 0 /\ r.phase = "sent"
  <2>1. "sent" \in Phases
    BY DEF Phases
  <2>. QED
    BY <1>1, <1>2, <2>1 DEF Requests
<1>. HIDE DEF r
<1>4. SoundRequest(q, r) /\ ~OnDocument(r)
  BY <1>3 DEF SoundRequest, OnDocument
<1>5. session' \in Sessions /\ firebase' \in Tokens
  BY <1>1 DEF ConsoleInv, RequestsSound
<1>. QED
  BY <1>1, <1>4, <1>5, SetSound, SetDocuments DEF ConsoleInv

LEMMA LoseKeeps ==
  ASSUME ConsoleInv, NEW q \in Keys, Lose(q)
  PROVE  ConsoleInv'
<1>1. /\ requests[q] \in Requests /\ SoundRequest(q, requests[q])
      /\ UNCHANGED <<session, firebase, healthDoc>>
      /\ session' \in Sessions /\ firebase' \in Tokens
  BY DEF Lose, ConsoleInv, RequestsSound, browser
<1>2. CASE (In(q, "token") \/ In(q, "sent")) /\ Answer(q, 0, Nothing)
  <2>. DEFINE r == [requests[q] EXCEPT !.status = 0, !.value = Nothing]
              a == [r EXCEPT !.phase = "answered"]
  <2>1. r \in Requests /\ a \in Requests /\ a.phase = "answered" /\ a.status = 0
    <3>1. 0 \in Codes /\ Nothing \in Values /\ "answered" \in Phases
      BY DEF Codes, Values, Phases
    <3>2. r \in Requests /\ r.status = 0
      BY <1>1, <3>1, UpdatedAnswer
    <3>. HIDE DEF r
    <3>. QED
      BY <3>1, <3>2, UpdatedPhase
  <2>2. Reply(q, r)
    BY <1>2 DEF Answer
  <2>. HIDE DEF r
  <2>3. SoundRequest(q, a)
    <3>. HIDE DEF a
    <3>. QED
      BY <2>1 DEF SoundRequest
  <2>4. \E s : Set(q, s) /\ SoundRequest(q, s) /\ ~OnDocument(s)
    BY <2>1, <2>2, <2>3, ReplySound
  <2>. QED
    BY <1>1, <2>4, AnsweredKeeps
<1>3. CASE Checking(q) /\ Set(q, [requests[q] EXCEPT !.lost = TRUE])
  <2>. DEFINE r == [requests[q] EXCEPT !.lost = TRUE]
  <2>1. /\ r \in Requests /\ r.phase = requests[q].phase /\ r.status = requests[q].status
        /\ r.token = requests[q].token /\ r.verified = requests[q].verified
        /\ r.alone = requests[q].alone /\ r.faulty = requests[q].faulty /\ r.value = requests[q].value
    BY <1>1, UpdatedLost
  <2>. HIDE DEF r
  <2>2. SoundRequest(q, r)
    BY <1>1, <2>1 DEF SoundRequest
  <2>3. \/ ~OnDocument(r)
        \/ /\ OnDocument(r) /\ OnDocument(requests[q]) /\ r.alone = requests[q].alone
           /\ r.phase = "read" => In(q, "read")
    BY <2>1 DEF OnDocument, In
  <2>. QED
    BY <1>1, <1>3, <2>2, <2>3, SetSound, SetDocuments DEF ConsoleInv, r
<1>. QED
  BY <1>2, <1>3 DEF Lose

LEMMA AuthenticateKeeps ==
  ASSUME ConsoleInv, NEW q \in Keys, Authenticate(q)
  PROVE  ConsoleInv'
<1>1. /\ requests[q] \in Requests /\ SoundRequest(q, requests[q])
      /\ requests[q].phase = "sent" /\ requests[q].status = 0
      /\ UNCHANGED <<session, firebase, healthDoc>>
  BY DEF Authenticate, ConsoleInv, RequestsSound, browser, In, SoundRequest
<1>0. Nothing \in Values /\ ~In(q, "delete")
  BY <1>1 DEF Values, In
<1>2. CASE requests[q].token = Nobody /\ Answer(q, 401, Nothing)
  BY <1>0, <1>1, <1>2, PlainAnswerSound
<1>3. CASE requests[q].token \in Strangers /\ Answer(q, 403, Nothing)
  BY <1>0, <1>1, <1>3, PlainAnswerSound, UsersAssumption
<1>4. CASE requests[q].token = Owner /\ To(q, Start(q[2]))
  <2>1. q[2] = "healthcheck" \/ q[2] = "statistics"
    BY DEF Keys, Kinds
  <2>2. CASE q[2] = "healthcheck"
    <3>1. Start(q[2]) = "write"
      BY <2>2 DEF Start
    <3>. QED
      BY <1>1, <1>4, <2>2, <3>1, GoesOnSound
  <2>3. CASE q[2] = "statistics"
    <3>1. Start(q[2]) = "get"
      BY <2>3 DEF Start
    <3>. QED
      BY <1>1, <1>4, <2>3, <3>1, GoesOnSound
  <2>. QED
    BY <2>1, <2>2, <2>3
<1>5. CASE Reply(q, [requests[q] EXCEPT !.status = 403, !.verified = FALSE])
  <2>. DEFINE r == [requests[q] EXCEPT !.status = 403, !.verified = FALSE]
              a == [r EXCEPT !.phase = "answered"]
  <2>1. /\ r \in Requests /\ r.status = 403 /\ a \in Requests
        /\ a.phase = "answered" /\ a.status = 403 /\ ~a.verified
    <3>1. 403 \in Codes /\ FALSE \in BOOLEAN /\ "answered" \in Phases
      BY DEF Codes, Phases
    <3>2. r \in Requests /\ r.status = 403 /\ ~r.verified
      <4>. DEFINE s == requests[q]
      <4>1. s \in Requests
        BY <1>1
      <4>. HIDE DEF s
      <4>2. /\ [s EXCEPT !.status = 403, !.verified = FALSE] \in Requests
            /\ [s EXCEPT !.status = 403, !.verified = FALSE].status = 403
            /\ ~[s EXCEPT !.status = 403, !.verified = FALSE].verified
        BY Zenon, <4>1, UpdatedVerdict
      <4>. QED
        BY Zenon, <4>2 DEF s
    <3>. HIDE DEF r
    <3>. QED
      BY <3>1, <3>2, UpdatedPhase
  <2>. HIDE DEF r
  <2>2. SoundRequest(q, a)
    <3>. HIDE DEF a
    <3>. QED
      BY <2>1 DEF SoundRequest
  <2>3. \E s : Set(q, s) /\ SoundRequest(q, s) /\ ~OnDocument(s)
    BY <1>5, <2>1, <2>2, ReplySound DEF r
  <2>. QED
    BY <1>1, <2>3, AnsweredKeeps
<1>. QED
  BY <1>2, <1>3, <1>4, <1>5 DEF Authenticate

\* Two checks that meet are both noted.
LEMMA WriteKeeps ==
  ASSUME ConsoleInv, NEW q \in Keys, WriteDocument(q)
  PROVE  ConsoleInv'
<1>1. /\ requests \in [Keys -> Requests] /\ \A p \in Keys : SoundRequest(p, requests[p])
      /\ requests[q].phase = "write" /\ healthDoc' = TRUE /\ Meet(q, "read")
      /\ session' \in Sessions /\ firebase' \in Tokens
  BY DEF WriteDocument, ConsoleInv, RequestsSound, In, browser
<1>. DEFINE b == (Others(q) = {})
            met(p) == IF p = q THEN [requests[q] EXCEPT !.phase = "read", !.alone = b]
                      ELSE IF p \in Others(q) THEN [requests[p] EXCEPT !.alone = FALSE]
                      ELSE requests[p]
<1>2. b \in BOOLEAN /\ "read" \in Phases /\ FALSE \in BOOLEAN
  BY DEF Phases
<1>3. \A p \in Keys : requests'[p] = met(p)
  BY <1>1 DEF Meet
<1>4. /\ requests'[q] \in Requests /\ requests'[q].phase = "read" /\ requests'[q].alone = b
      /\ requests'[q].token = requests[q].token /\ requests'[q].status = requests[q].status
  <2>1. requests'[q] = [requests[q] EXCEPT !.phase = "read", !.alone = b] /\ requests[q] \in Requests
    BY <1>1, <1>3
  <2>. HIDE DEF b
  <2>. QED
    BY <1>2, <2>1 DEF Requests
<1>5. ASSUME NEW p \in Others(q)
      PROVE  /\ p \in Keys /\ p # q /\ p[2] = "healthcheck" /\ Checking(p)
             /\ requests'[p] \in Requests /\ requests'[p].phase = requests[p].phase
             /\ requests'[p].token = requests[p].token /\ requests'[p].status = requests[p].status
             /\ requests'[p].verified = requests[p].verified /\ ~requests'[p].alone
  <2>1. p \in Keys /\ p # q /\ p[2] = "healthcheck" /\ Checking(p)
    BY DEF Others
  <2>2. requests'[p] = [requests[p] EXCEPT !.alone = FALSE] /\ requests[p] \in Requests
    BY <1>1, <1>3, <2>1
  <2>. DEFINE c == FALSE
  <2>3. c \in BOOLEAN /\ requests'[p] = [requests[p] EXCEPT !.alone = c] /\ ~c
    BY <2>2
  <2>. HIDE DEF c
  <2>. QED
    BY <2>1, <2>2, <2>3 DEF Requests
<1>6. \A p \in Keys : p # q /\ p \notin Others(q) => requests'[p] = requests[p]
  BY <1>3
<1>. HIDE DEF met
<1>7. SoundRequest(q, requests'[q])
  BY <1>1, <1>4 DEF SoundRequest
<1>8. \A p \in Keys : SoundRequest(p, requests'[p])
  <2>. SUFFICES ASSUME NEW p \in Keys PROVE SoundRequest(p, requests'[p])
    OBVIOUS
  <2>1. CASE p \in Others(q)
    <3>1. /\ SoundRequest(p, requests[p]) /\ requests[p].phase \in {"write", "read", "delete"}
          /\ p[2] = "healthcheck"
      BY <1>1, <1>5, <2>1 DEF Checking
    <3>2. requests[p].status = 0 /\ requests[p].token = Owner
      BY <3>1 DEF SoundRequest
    <3>3. /\ requests'[p] \in Requests /\ requests'[p].phase \in {"write", "read", "delete"}
          /\ requests'[p].status = 0 /\ requests'[p].token = Owner
      BY <1>5, <2>1, <3>1, <3>2
    <3>. QED
      BY <3>1, <3>3 DEF SoundRequest
  <2>. QED
    BY <1>1, <1>6, <1>7, <2>1
<1>9. RequestsSound'
  <2>1. requests' \in [Keys -> Requests]
    <3>1. DOMAIN requests' = Keys /\ requests' = [p \in Keys |-> requests'[p]]
      BY <1>1 DEF Meet
    <3>2. \A p \in Keys : requests'[p] \in Requests
      BY <1>8 DEF SoundRequest
    <3>. QED
      BY <3>1, <3>2
  <2>. QED
    BY <1>1, <1>8, <2>1 DEF RequestsSound
<1>10. ASSUME NEW p \in Keys, NEW s \in Keys, p # s, OnDocument(requests'[p]), OnDocument(requests'[s])
       PROVE  ~requests'[s].alone
  <2>1. \A k \in Keys : k # q => requests'[k].phase = requests[k].phase
    BY <1>5, <1>6
  <2>2. \A k \in Keys : k # q /\ OnDocument(requests[k]) => k \in Others(q)
    BY <1>1 DEF OnDocument, Others, Checking, SoundRequest
  <2>3. CASE s = q
    <3>1. p \in Others(q)
      BY <1>10, <2>1, <2>2, <2>3 DEF OnDocument
    <3>. QED
      BY <1>4, <2>3, <3>1
  <2>4. CASE s # q
    <3>1. s \in Others(q)
      BY <1>10, <2>1, <2>2, <2>4 DEF OnDocument
    <3>. QED
      BY <1>5, <3>1
  <2>. QED
    BY <2>3, <2>4
<1>11. DocumentsSound'
  BY <1>1, <1>10 DEF DocumentsSound
<1>. QED
  BY <1>9, <1>11 DEF ConsoleInv

LEMMA ReportedValue ==
  ASSUME NEW firestore \in Statuses, NEW pop3 \in Statuses, NEW gmail \in Statuses, NEW amplitude \in Statuses
  PROVE  LET v == [firestore |-> firestore,
                   overall |-> DetermineOverallStatus({pop3, gmail, firestore, amplitude})]
         IN v \in Values /\ v.firestore = firestore
<1>1. {pop3, gmail, firestore, amplitude} \in SUBSET Statuses
  OBVIOUS
<1>2. DetermineOverallStatus({pop3, gmail, firestore, amplitude}) \in Overalls
  BY <1>1, Zenon DEF Overalls
<1>. QED
  BY <1>2 DEF Values, Reports

\* The report of a check on its own is the one of its last operation.
LEMMA ReportKeeps ==
  ASSUME ConsoleInv, NEW q \in Keys, NEW firestore \in {"healthy", "error"}, Report(q, firestore),
         Checking(q), firestore = "healthy" \/ ~requests[q].alone,
         UNCHANGED <<session, firebase>>,
         healthDoc' = healthDoc \/ In(q, "delete")
  PROVE  ConsoleInv'
<1>1. PICK pop3, gmail \in {"healthy", "error"}, amplitude \in {"healthy", "warning"} :
        Answer(q, 200, [firestore |-> firestore,
                        overall |-> DetermineOverallStatus({pop3, gmail, firestore, amplitude})])
  BY DEF Report
<1>. DEFINE v == [firestore |-> firestore,
                  overall |-> DetermineOverallStatus({pop3, gmail, firestore, amplitude})]
<1>2. v \in Values /\ v.firestore = firestore
  <2>1. firestore \in Statuses /\ pop3 \in Statuses /\ gmail \in Statuses /\ amplitude \in Statuses
    BY DEF Statuses
  <2>. QED
    BY <2>1, ReportedValue
<1>3. requests[q].token = Owner
  BY DEF ConsoleInv, RequestsSound, SoundRequest, Checking
<1>4. Answer(q, 200, v)
  BY <1>1
<1>. HIDE DEF v
<1>. QED
  BY <1>2, <1>3, <1>4, PlainAnswerSound

LEMMA ReadKeeps ==
  ASSUME ConsoleInv, NEW q \in Keys, ReadDocument(q)
  PROVE  ConsoleInv'
<1>1. /\ SoundRequest(q, requests[q]) /\ requests[q].phase = "read" /\ In(q, "read") /\ Checking(q)
      /\ UNCHANGED <<session, firebase, healthDoc>>
      /\ IF healthDoc THEN To(q, "delete") ELSE Report(q, "error")
  BY DEF ReadDocument, ConsoleInv, RequestsSound, In, browser, Checking
<1>2. requests[q].status = 0 /\ requests[q].token = Owner /\ q[2] = "healthcheck"
  BY <1>1 DEF SoundRequest
<1>3. CASE healthDoc
  BY <1>1, <1>2, <1>3, GoesOnSound
<1>4. CASE ~healthDoc
  <2>1. ~requests[q].alone
    BY <1>1, <1>4 DEF ConsoleInv, DocumentsSound
  <2>. QED
    BY <1>1, <1>4, <2>1, ReportKeeps
<1>. QED
  BY <1>3, <1>4

LEMMA DeleteKeeps ==
  ASSUME ConsoleInv, NEW q \in Keys, DeleteDocument(q)
  PROVE  ConsoleInv'
<1>1. In(q, "delete") /\ Checking(q) /\ Report(q, "healthy") /\ UNCHANGED <<session, firebase>>
  BY DEF DeleteDocument, In, Checking, browser
<1>. QED
  BY <1>1, ReportKeeps

LEMMA FailureKeeps ==
  ASSUME ConsoleInv, NEW q \in Keys, FirestoreFails(q)
  PROVE  ConsoleInv'
<1>. DEFINE v == [firestore |-> "error", overall |-> "error"]
            r == [requests[q] EXCEPT !.status = 200, !.faulty = TRUE, !.value = v]
            a == [r EXCEPT !.phase = "answered"]
<1>1. /\ Reply(q, r) /\ requests[q] \in Requests /\ requests[q].token = Owner
      /\ UNCHANGED <<session, firebase>>
      /\ (healthDoc => healthDoc') \/ In(q, "delete")
  BY DEF FirestoreFails, ConsoleInv, RequestsSound, SoundRequest, Checking, browser
<1>2. 200 \in Codes /\ v \in Values /\ "answered" \in Phases
  BY DEF Codes, Values, Reports, Statuses, Overalls, Phases
<1>3. r \in Requests /\ r.status = 200 /\ r.faulty = TRUE /\ r.token = Owner
  <2>. HIDE DEF v
  <2>1. r \in Requests
    BY Zenon, <1>1, <1>2, UpdatedFailure
  <2>2. r.status = 200 /\ r.faulty = TRUE /\ r.token = requests[q].token
    BY <1>1 DEF Requests
  <2>. QED
    BY <1>1, <2>1, <2>2
<1>. HIDE DEF r, v
<1>4. a \in Requests /\ a.phase = "answered" /\ a.status = 200 /\ a.faulty = TRUE /\ a.token = Owner
  BY <1>2, <1>3, UpdatedPhase
<1>5. SoundRequest(q, a)
  <2>. HIDE DEF a
  <2>. QED
    BY <1>4 DEF SoundRequest
<1>6. \E s : Set(q, s) /\ SoundRequest(q, s) /\ ~OnDocument(s)
  BY <1>1, <1>4, <1>5, ReplySound
<1>. QED
  BY <1>1, <1>6, AnsweredKeeps

LEMMA StatisticsKeep ==
  ASSUME ConsoleInv, NEW q \in Keys, GetProjection(q) \/ ListRows(q)
  PROVE  ConsoleInv'
<1>1. /\ SoundRequest(q, requests[q]) /\ requests[q].phase \in {"get", "list"}
      /\ UNCHANGED <<session, firebase, healthDoc>>
      /\ (\E code \in {200, 500} : Answer(q, code, Nothing)) \/ To(q, "list")
  <2>1. SoundRequest(q, requests[q])
    BY DEF ConsoleInv, RequestsSound
  <2>2. UNCHANGED <<session, firebase, healthDoc>>
    BY Zenon DEF GetProjection, ListRows, browser
  <2>3. CASE GetProjection(q)
    <3>1. requests[q].phase = "get"
      BY Zenon, <2>3 DEF GetProjection, In
    <3>2. Answer(q, 200, Nothing) \/ Answer(q, 500, Nothing) \/ To(q, "list")
      BY Zenon, <2>3 DEF GetProjection
    <3>. QED
      BY Zenon, <2>1, <2>2, <3>1, <3>2
  <2>4. CASE ListRows(q)
    <3>1. requests[q].phase = "list" /\ \E code \in {200, 500} : Answer(q, code, Nothing)
      BY Zenon, <2>4 DEF ListRows, In
    <3>. QED
      BY Zenon, <2>1, <2>2, <3>1
  <2>. QED
    BY Zenon, <2>3, <2>4
<1>2. requests[q].status = 0 /\ requests[q].token = Owner /\ q[2] = "statistics" /\ Nothing \in Values
  BY <1>1 DEF SoundRequest, Values
<1>3. ASSUME NEW code \in {200, 500}, Answer(q, code, Nothing)
      PROVE  ConsoleInv'
  BY <1>1, <1>2, <1>3, PlainAnswerSound
<1>4. CASE To(q, "list")
  BY <1>1, <1>2, <1>4, GoesOnSound
<1>. QED
  BY <1>1, <1>3, <1>4
-----------------------------------------------------------------------------
(***************************************************************************)
(* The browser.                                                            *)
(***************************************************************************)
LEMMA SessionsUpdated ==
  ASSUME NEW s \in Sessions, NEW user \in Tokens, NEW b \in BOOLEAN
  PROVE  /\ [s EXCEPT !.initialized = b, !.user = user] \in Sessions
         /\ [s EXCEPT !.user = user, !.error = b] \in Sessions
         /\ [s EXCEPT !.user = user] \in Sessions /\ [s EXCEPT !.error = b] \in Sessions
BY DEF Sessions

\* Steps that only concern the session, the route or the loads.
LEMMA SessionsKeep ==
  ASSUME ConsoleInv, UNCHANGED <<requests, healthDoc>>, session' \in Sessions, firebase' \in Tokens
  PROVE  ConsoleInv'
BY DEF ConsoleInv, RequestsSound, DocumentsSound, In, OnDocument

\* The handling of an answer.
LEMMA HandledKeeps ==
  ASSUME ConsoleInv, NEW q \in Keys, NEW phase \in {"forbidden", "leaving"},
         \/ To(q, phase) /\ requests[q].status = 403
         \/ Settle(q),
         session' \in Sessions, firebase' \in Tokens, UNCHANGED healthDoc
  PROVE  ConsoleInv'
<1>1. SoundRequest(q, requests[q]) /\ requests[q] \in Requests
  BY DEF ConsoleInv, RequestsSound
<1>2. CASE To(q, phase) /\ requests[q].status = 403
  <2>. DEFINE r == [requests[q] EXCEPT !.phase = phase]
  <2>1. phase \in Phases
    BY DEF Phases
  <2>2. /\ r \in Requests /\ r.phase = phase /\ r.status = 403 /\ r.token = requests[q].token
        /\ r.verified = requests[q].verified
    BY <1>1, <1>2, <2>1, UpdatedPhase
  <2>3. Set(q, r)
    BY <1>2 DEF To
  <2>. HIDE DEF r
  <2>4. requests[q].token # Owner \/ ~requests[q].verified
    BY <1>1, <1>2 DEF SoundRequest
  <2>5. SoundRequest(q, r) /\ ~OnDocument(r)
    BY <2>2, <2>4 DEF SoundRequest, OnDocument
  <2>. QED
    BY <2>3, <2>5, SetSound, SetDocuments DEF ConsoleInv
<1>3. CASE Settle(q)
  <2>. DEFINE r == [NoRequest EXCEPT !.phase = "settled"]
  <2>1. SoundRequest(q, r) /\ r.phase = "settled" /\ Set(q, r)
    BY <1>3, SettledRequest, InitialRequest DEF Settle, Requests
  <2>. HIDE DEF r
  <2>2. ~OnDocument(r)
    BY <2>1 DEF OnDocument
  <2>. QED
    BY <2>1, <2>2, SetSound, SetDocuments DEF ConsoleInv
<1>. QED
  BY <1>2, <1>3

LEMMA InterceptorKeeps ==
  ASSUME ConsoleInv, NEW q \in Keys, HandleAnswer(q) \/ SignOutForbidden(q) \/ Leave(q)
  PROVE  ConsoleInv'
<1>1. /\ SoundRequest(q, requests[q]) /\ session \in Sessions /\ firebase \in Tokens
      /\ Nobody \in Tokens /\ TRUE \in BOOLEAN
  BY DEF ConsoleInv, RequestsSound, Tokens
<1>2. CASE HandleAnswer(q)
  <2>1. session' = session \/ session' = [session EXCEPT !.user = Nobody]
    BY <1>2 DEF HandleAnswer
  <2>2. session' \in Sessions /\ firebase' \in Tokens /\ UNCHANGED healthDoc
    <3>1. [session EXCEPT !.user = Nobody] \in Sessions
      BY <1>1, SessionsUpdated
    <3>. QED
      BY <1>1, <1>2, <2>1, <3>1 DEF HandleAnswer
  <2>3. (To(q, "forbidden") /\ requests[q].status = 403) \/ Settle(q)
    BY <1>2 DEF HandleAnswer
  <2>. QED
    BY <2>2, <2>3, HandledKeeps
<1>3. CASE SignOutForbidden(q)
  <2>1. /\ In(q, "forbidden") /\ To(q, "leaving") /\ UNCHANGED healthDoc
        /\ firebase' \in {firebase, Nobody}
        /\ \/ session' = [session EXCEPT !.user = Nobody, !.error = TRUE]
           \/ session' = [session EXCEPT !.error = TRUE]
    BY <1>3 DEF SignOutForbidden
  <2>2. session' \in Sessions /\ firebase' \in Tokens
    BY <1>1, <2>1, SessionsUpdated
  <2>3. requests[q].status = 403
    BY <1>1, <2>1 DEF In, SoundRequest
  <2>. QED
    BY <2>1, <2>2, <2>3, HandledKeeps
<1>4. CASE Leave(q)
  <2>1. Settle(q) /\ UNCHANGED <<session, firebase, healthDoc>>
    BY <1>4 DEF Leave
  <2>. QED
    BY <1>1, <2>1, HandledKeeps
<1>. QED
  BY <1>2, <1>3, <1>4

\* A load begins with two requests of its own.
LEMMA ReloadKeeps ==
  ASSUME ConsoleInv, NEW i \in Reloads, Reload(i), UNCHANGED <<session, firebase, healthDoc>>
  PROVE  ConsoleInv'
<1>. DEFINE r == [NoRequest EXCEPT !.phase = "token"]
<1>1. /\ requests' = [q \in Keys |-> IF q[1] = i THEN r ELSE requests[q]]
      /\ requests \in [Keys -> Requests] /\ \A q \in Keys : SoundRequest(q, requests[q])
      /\ session' \in Sessions /\ firebase' \in Tokens
  BY DEF Reload, ConsoleInv, RequestsSound
<1>2. r.phase = "token" /\ \A q \in Keys : SoundRequest(q, r)
  BY SettledRequest, InitialRequest DEF Requests
<1>. HIDE DEF r
<1>3. r \in Requests /\ ~OnDocument(r)
  <2>1. "healthcheck" \in Kinds
    BY DEF Kinds
  <2>2. <<i, "healthcheck">> \in Keys
    BY <2>1 DEF Keys
  <2>. QED
    BY <1>2, <2>2 DEF SoundRequest, OnDocument
<1>4. /\ requests' \in [Keys -> Requests]
      /\ \A q \in Keys : requests'[q] = r \/ requests'[q] = requests[q]
  BY <1>1, <1>3
<1>5. RequestsSound'
  BY <1>1, <1>2, <1>4 DEF RequestsSound
<1>6. \A q \in Keys : OnDocument(requests'[q]) => requests'[q] = requests[q]
  BY <1>3, <1>4
<1>7. \A q \in Keys : requests'[q].phase = "read" => OnDocument(requests'[q])
  BY DEF OnDocument
<1>8. DocumentsSound'
  BY <1>6, <1>7 DEF ConsoleInv, DocumentsSound, In
<1>. QED
  BY <1>5, <1>8 DEF ConsoleInv
-----------------------------------------------------------------------------
LEMMA ConsoleInit == Init => ConsoleInv
<1>. SUFFICES ASSUME Init PROVE ConsoleInv
  OBVIOUS
<1>1. /\ firebase \in Tokens /\ session \in Sessions
      /\ requests = [q \in Keys |-> NoRequest]
  BY DEF Init, Tokens, Sessions
<1>2. NoRequest.phase = "unused" /\ NoRequest \in Requests
  BY InitialRequest DEF NoRequest
<1>3. \A q \in Keys : SoundRequest(q, NoRequest)
  BY DEF NoRequest, SoundRequest, Requests, Phases, Tokens, Codes, Values
<1>4. ~OnDocument(NoRequest)
  BY <1>2 DEF OnDocument
<1>. HIDE DEF NoRequest
<1>. QED
  BY <1>1, <1>2, <1>3, <1>4 DEF ConsoleInv, RequestsSound, DocumentsSound, In

LEMMA ConsoleNext ==
  ASSUME ConsoleInv, [Next]_vars
  PROVE  ConsoleInv'
<1>1. session \in Sessions /\ firebase \in Tokens /\ Nobody \in Tokens /\ TRUE \in BOOLEAN /\ FALSE \in BOOLEAN
  BY DEF ConsoleInv, RequestsSound, Tokens
<1>2. CASE Initialize
  <2>. DEFINE user == IF configured' THEN firebase ELSE Nobody
  <2>1. user \in Tokens /\ session' = [session EXCEPT !.initialized = TRUE, !.user = user]
        /\ UNCHANGED <<firebase, requests, healthDoc>>
    BY <1>1, <1>2 DEF Initialize
  <2>. HIDE DEF user
  <2>2. session' \in Sessions
    BY <1>1, <2>1, SessionsUpdated
  <2>. QED
    BY <1>1, <2>1, <2>2, SessionsKeep
<1>3. CASE EnterDashboard \/ Refresh
  <2>1. (\E i \in Reloads : Reload(i)) /\ UNCHANGED <<session, firebase, healthDoc>>
    BY <1>3 DEF EnterDashboard, Refresh
  <2>. QED
    BY <2>1, ReloadKeeps
<1>4. CASE EnterLogin \/ \E i \in Reloads : FinishReload(i)
  <2>1. UNCHANGED <<session, firebase, requests, healthDoc>>
    BY <1>4 DEF EnterLogin, FinishReload
  <2>. QED
    BY <1>1, <2>1, SessionsKeep
<1>5. ASSUME NEW user \in Users, SignIn(user)
      PROVE  ConsoleInv'
  <2>1. /\ UNCHANGED <<requests, healthDoc>> /\ firebase' \in {user, firebase} /\ user \in Tokens
        /\ \/ session' = [session EXCEPT !.user = user, !.error = FALSE]
           \/ session' = [session EXCEPT !.error = TRUE]
    BY <1>5 DEF SignIn, Tokens
  <2>2. session' \in Sessions
    BY <1>1, <2>1, SessionsUpdated
  <2>. QED
    BY <1>1, <2>1, <2>2, SessionsKeep
<1>6. CASE SignOut
  <2>1. /\ UNCHANGED <<requests, healthDoc>> /\ firebase' \in {Nobody, firebase}
        /\ \/ session' = [session EXCEPT !.user = Nobody, !.error = FALSE]
           \/ session' = [session EXCEPT !.error = FALSE]
    BY <1>6 DEF SignOut
  <2>2. session' \in Sessions
    BY <1>1, <2>1, SessionsUpdated
  <2>. QED
    BY <1>1, <2>1, <2>2, SessionsKeep
<1>7. ASSUME NEW user \in Tokens, OtherTab(user)
      PROVE  ConsoleInv'
  <2>1. /\ UNCHANGED <<requests, healthDoc>> /\ firebase' = user
        /\ session' = [session EXCEPT !.user = user]
    BY <1>7 DEF OtherTab
  <2>2. session' \in Sessions
    BY <1>1, <1>7, <2>1, SessionsUpdated
  <2>. QED
    BY <1>7, <2>1, <2>2, SessionsKeep
<1>8. ASSUME NEW q \in Keys, RequestStep(q)
      PROVE  ConsoleInv'
  BY <1>8, SendKeeps, LoseKeeps, AuthenticateKeeps, WriteKeeps, ReadKeeps, DeleteKeeps, FailureKeeps,
     StatisticsKeep, InterceptorKeeps DEF RequestStep
<1>9. CASE UNCHANGED vars
  <2>1. UNCHANGED <<session, firebase, requests, healthDoc>>
    BY <1>9 DEF vars, browser
  <2>. QED
    BY <1>1, <2>1, SessionsKeep
<1>. QED
  BY <1>2, <1>3, <1>4, <1>5, <1>6, <1>7, <1>8, <1>9 DEF Next, Tokens

\* What is known of every request and of the health check's document, in every
\* state of the browser and the API.
THEOREM ConsoleIsSound == Spec => []ConsoleInv
<1>1. ConsoleInv /\ [Next]_vars => ConsoleInv'
  BY ConsoleNext
<1>. QED
  BY <1>1, ConsoleInit, PTL DEF Spec

\* The API gives data to the owner alone, says "unauthorized" to none but those
\* without a token, and a health check without a failure reports Firestore down
\* only if another one ran at the same time (expressAuthentication,
\* FirestoreHealthService).
THEOREM AnswersAreSound == Spec => []AnswersSound
<1>1. ConsoleInv => AnswersSound
  BY DEF ConsoleInv, RequestsSound, SoundRequest, AnswersSound
<1>. QED
  BY <1>1, ConsoleIsSound, PTL

\* Only a 403 that is about another user, or given because the token could not be
\* verified, drops the owner's session (handleForbiddenApiAccess).
THEOREM OwnerIsKept == Spec => OwnerKept
<1>. DEFINE Dropped == session.user = Owner /\ session'.user = Nobody /\ requests' # requests
            Forbidden == \E q \in Keys :
                           /\ requests[q].phase \in {"answered", "forbidden"} /\ requests[q].status = 403
                           /\ requests[q].token # Owner \/ ~requests[q].verified
<1>1. ConsoleInv /\ [Next]_vars => (Dropped => Forbidden)
  <2>. SUFFICES ASSUME ConsoleInv, [Next]_vars, Dropped PROVE Forbidden
    OBVIOUS
  <2>1. session' # session /\ requests' # requests
    BY UsersAssumption
  <2>2. \E q \in Keys : HandleAnswer(q) \/ SignOutForbidden(q)
    BY <2>1, Zenon
       DEF Next, Initialize, EnterDashboard, EnterLogin, Refresh, FinishReload, SignIn, SignOut, OtherTab,
           RequestStep, Send, Lose, Authenticate, WriteDocument, ReadDocument, DeleteDocument,
           FirestoreFails, GetProjection, ListRows, Leave, vars, browser
  <2>3. PICK q \in Keys : HandleAnswer(q) \/ SignOutForbidden(q)
    BY <2>2
  <2>4. SoundRequest(q, requests[q])
    BY DEF ConsoleInv, RequestsSound
  <2>5. CASE HandleAnswer(q)
    <3>1. requests[q].phase = "answered" /\ requests[q].status = 403
      BY <2>1, <2>5 DEF HandleAnswer, In
    <3>. QED
      BY <2>4, <3>1 DEF SoundRequest
  <2>6. CASE SignOutForbidden(q)
    <3>1. requests[q].phase = "forbidden"
      BY <2>6 DEF SignOutForbidden, In
    <3>2. requests[q].status = 403
      BY <2>4, <3>1 DEF SoundRequest
    <3>. QED
      BY <2>4, <3>1, <3>2 DEF SoundRequest
  <2>. QED
    BY <2>3, <2>5, <2>6
<1>. QED
  BY <1>1, ConsoleIsSound, PTL DEF Spec, OwnerKept
-----------------------------------------------------------------------------
(***************************************************************************)
(* The totals of the runs.                                                 *)
(***************************************************************************)
\* What the totals of the detected messages, the failures and the durations are.
LEMMA TotalTypes ==
  ASSUME NEW rows \in SUBSET JobRuns, IsFiniteSet(rows)
  PROVE  /\ Total(rows, LAMBDA row : row.detected) \in Nat
         /\ Total(rows, LAMBDA row : row.failed) \in Nat
<1>1. [row \in rows |-> row.detected] \in [rows -> Nat]
  BY DEF JobRuns
<1>2. [row \in rows |-> row.failed] \in [rows -> Nat]
  BY DEF JobRuns
<1>. QED
  BY <1>1, <1>2, SumType DEF Total

LEMMA TotalDuration ==
  ASSUME NEW rows \in SUBSET JobRuns, IsFiniteSet(rows), \A row \in rows : row.duration # NoDuration
  PROVE  Total(rows, LAMBDA row : row.duration) \in Nat
<1>1. [row \in rows |-> row.duration] \in [rows -> Nat]
  BY DEF JobRuns
<1>. QED
  BY <1>1, SumType DEF Total

\* The messages of runs covered by three sets are at most those of the three.
LEMMA DetectedCovered ==
  ASSUME NEW rows \in SUBSET JobRuns, IsFiniteSet(rows),
         NEW X \in SUBSET rows, NEW A \in SUBSET rows, NEW B \in SUBSET rows, NEW C \in SUBSET rows,
         X \subseteq A \cup B \cup C
  PROVE  Total(X, LAMBDA row : row.detected)
           <= Total(A, LAMBDA row : row.detected) + Total(B, LAMBDA row : row.detected)
                + Total(C, LAMBDA row : row.detected)
<1>. DEFINE f       == [row \in rows |-> row.detected]
            Part(Y) == SumFunction([row \in Y |-> f[row]])
<1>1. f \in [rows -> Nat]
  BY DEF JobRuns
<1>2. ASSUME NEW Y \in SUBSET rows
      PROVE  Total(Y, LAMBDA row : row.detected) = Part(Y)
  <2>1. [row \in Y |-> row.detected] = [row \in Y |-> f[row]]
    OBVIOUS
  <2>. QED
    BY <2>1 DEF Total
<1>3. B \cup C \in SUBSET rows
  OBVIOUS
<1>. HIDE DEF f
<1>4. /\ Part(X) <= Part(A) + Part(B \cup C)
      /\ Part(B \cup C) <= Part(B) + Part(C)
  BY <1>1, <1>3, SumCovered
<1>5. Part(X) \in Nat /\ Part(A) \in Nat /\ Part(B) \in Nat /\ Part(C) \in Nat /\ Part(B \cup C) \in Nat
  BY <1>1, <1>3, SumCovered
<1>. HIDE DEF Part
<1>6. Part(X) <= Part(A) + Part(B) + Part(C)
  BY <1>4, <1>5
<1>. QED
  BY <1>2, <1>6

\* The days.
LEMMA DayBounds ==
  ASSUME NEW tick \in Int
  PROVE  Day(tick) \in Int /\ Day(tick) * TicksPerDay <= tick /\ tick < Day(tick) * TicksPerDay + TicksPerDay
BY DaysAssumption DEF Day

LEMMA DayMonotone ==
  ASSUME NEW a \in Int, NEW b \in Int, a <= b
  PROVE  Day(a) <= Day(b)
BY DaysAssumption DEF Day

LEMMA DayBefore ==
  ASSUME NEW a \in Int, NEW b \in Int, a >= b - TicksPerDay
  PROVE  Day(a) >= Day(b) - 1
BY DaysAssumption DEF Day

\* The greatest of finitely many numbers.
LEMMA GreatestOf ==
  ASSUME NEW S \in SUBSET Nat, IsFiniteSet(S), S # {}
  PROVE  Max(S) \in S /\ \A n \in S : n <= Max(S)
BY GreatestNumber DEF Max

-----------------------------------------------------------------------------
(***************************************************************************)
(* The order of the runs.                                                  *)
(***************************************************************************)
Distinct(rows) == \A a, b \in rows : a.id = b.id => a = b

LEMMA AheadOf ==
  ASSUME NEW rows \in SUBSET JobRuns, IsFiniteSet(rows), Distinct(rows), NEW a \in rows
  PROVE  /\ IsFiniteSet(Ahead(rows, a)) /\ Cardinality(Ahead(rows, a)) \in 0..(Cardinality(rows) - 1)
         /\ \A b \in rows : b # a => a \in Ahead(rows, b) \/ b \in Ahead(rows, a)
         /\ \A b \in Ahead(rows, a) :
              Cardinality(Ahead(rows, b)) < Cardinality(Ahead(rows, a))
<1>1. \A b \in rows : b.startedAt \in Nat /\ b.id \in Nat
  BY DEF JobRuns
<1>2. a \notin Ahead(rows, a) /\ \A b \in rows : Ahead(rows, b) \in SUBSET rows /\ b \notin Ahead(rows, b)
  BY <1>1 DEF Ahead
<1>3. \A b \in rows : b # a => a \in Ahead(rows, b) \/ b \in Ahead(rows, a)
  BY <1>1 DEF Ahead, Distinct
<1>4. \A b \in Ahead(rows, a) : Ahead(rows, b) \subseteq Ahead(rows, a) /\ b \in rows
  BY <1>1 DEF Ahead
<1>5. ASSUME NEW S \in SUBSET rows, NEW x \in S, NEW R \in SUBSET S, x \notin R
      PROVE  /\ IsFiniteSet(R) /\ Cardinality(R) \in Nat /\ Cardinality(S) \in Nat
             /\ Cardinality(R) < Cardinality(S)
  <2>1. IsFiniteSet(S) /\ IsFiniteSet(R) /\ Cardinality(R) <= Cardinality(S)
    BY <1>5, FS_Subset
  <2>2. Cardinality(R) # Cardinality(S)
    BY <1>5, <2>1, FS_Subset
  <2>3. Cardinality(R) \in Nat /\ Cardinality(S) \in Nat
    BY <2>1, FS_CardinalityType
  <2>. QED
    BY <2>1, <2>2, <2>3
<1>6. IsFiniteSet(Ahead(rows, a)) /\ Cardinality(Ahead(rows, a)) \in 0..(Cardinality(rows) - 1)
  <2>1. Ahead(rows, a) \in SUBSET rows /\ rows \in SUBSET rows
    BY <1>2
  <2>2. /\ IsFiniteSet(Ahead(rows, a)) /\ Cardinality(Ahead(rows, a)) \in Nat
        /\ Cardinality(rows) \in Nat /\ Cardinality(Ahead(rows, a)) < Cardinality(rows)
    BY <1>2, <1>5, <2>1
  <2>. QED
    BY <2>2
<1>7. ASSUME NEW b \in Ahead(rows, a)
      PROVE  Cardinality(Ahead(rows, b)) < Cardinality(Ahead(rows, a))
  BY <1>2, <1>4, <1>5
<1>. QED
  BY <1>3, <1>6, <1>7

\* Each run has its own place, and the place is where it is listed.
LEMMA SortedPlaces ==
  ASSUME NEW rows \in SUBSET JobRuns, IsFiniteSet(rows), Distinct(rows)
  PROVE  /\ \A k \in 1..Cardinality(rows) :
              /\ SortedRuns(rows)[k] \in rows
              /\ Cardinality(Ahead(rows, SortedRuns(rows)[k])) = k - 1
         /\ \A a \in rows : SortedRuns(rows)[Cardinality(Ahead(rows, a)) + 1] = a
<1>. DEFINE n     == Cardinality(rows)
            place == [a \in rows |-> Cardinality(Ahead(rows, a))]
<1>1. n \in Nat
  BY FS_CardinalityType
<1>2. place \in [rows -> 0..(n - 1)] /\ \A a \in rows : place[a] \in Nat
  BY AheadOf
<1>3. \A a, b \in rows : place[a] = place[b] => a = b
  <2>. SUFFICES ASSUME NEW a \in rows, NEW b \in rows, a # b, place[a] = place[b]
                PROVE  FALSE
    OBVIOUS
  <2>1. a \in Ahead(rows, b) \/ b \in Ahead(rows, a)
    BY AheadOf
  <2>2. place[a] < place[b] \/ place[b] < place[a]
    BY <2>1, AheadOf
  <2>. QED
    BY <1>2, <2>2
<1>4. IsFiniteSet(0..(n - 1)) /\ Cardinality(0..(n - 1)) = n
  <2>. HIDE DEF n
  <2>. QED
    BY <1>1, FS_Interval
<1>5. place \in Surjection(rows, 0..(n - 1))
  <2>. HIDE DEF place
  <2>1. place \in Injection(rows, 0..(n - 1))
    BY <1>2, <1>3 DEF Injection, IsInjective
  <2>. QED
    BY <1>4, <2>1, FS_Injection DEF n
<1>6. \A k \in 1..n : \E a \in rows : Cardinality(Ahead(rows, a)) = k - 1
  <2>. SUFFICES ASSUME NEW k \in 1..n PROVE \E a \in rows : place[a] = k - 1
    OBVIOUS
  <2>1. k - 1 \in 0..(n - 1)
    BY <1>1
  <2>. HIDE DEF place, n
  <2>. QED
    BY <1>5, <2>1 DEF Surjection
<1>7. \A k \in 1..n : SortedRuns(rows)[k] = CHOOSE a \in rows : Cardinality(Ahead(rows, a)) = k - 1
  BY DEF SortedRuns
<1>8. \A k \in 1..n : /\ SortedRuns(rows)[k] \in rows
                      /\ Cardinality(Ahead(rows, SortedRuns(rows)[k])) = k - 1
  BY <1>6, <1>7
<1>9. ASSUME NEW a \in rows
      PROVE  SortedRuns(rows)[Cardinality(Ahead(rows, a)) + 1] = a
  <2>. DEFINE k == place[a] + 1
  <2>1. k \in 1..n /\ k - 1 = place[a]
    BY <1>1, <1>2
  <2>2. SortedRuns(rows)[k] \in rows /\ place[SortedRuns(rows)[k]] = place[a]
    BY <1>8, <2>1
  <2>. QED
    BY <1>3, <2>2
<1>. QED
  BY <1>8, <1>9

\* The runs shown are runs of the listing, and all that started after a day are
\* shown if they are no more than the limit.
LEMMA NewestShown ==
  ASSUME NEW rows \in SUBSET JobRuns, IsFiniteSet(rows), Distinct(rows), NEW day \in Int,
         Cardinality({row \in rows : Day(row.startedAt) > day}) <= RecentLimit
  PROVE  LET shown == Limited(SortedRuns(rows))
         IN {shown[i] : i \in {k \in DOMAIN shown : Day(shown[k].startedAt) > day}}
              = {row \in rows : Day(row.startedAt) > day}
<1>. DEFINE n      == Cardinality(rows)
            sorted == SortedRuns(rows)
            m      == IF n < RecentLimit THEN n ELSE RecentLimit
            shown  == Limited(sorted)
            late   == {row \in rows : Day(row.startedAt) > day}
<1>1. n \in Nat /\ RecentLimit \in Nat /\ m \in Nat /\ m <= n
  BY DaysAssumption, FS_CardinalityType
<1>2. sorted \in Seq(rows) /\ Len(sorted) = n
  <2>1. sorted = [k \in 1..n |-> sorted[k]]
    BY DEF SortedRuns
  <2>2. \A k \in 1..n : sorted[k] \in rows
    BY SortedPlaces
  <2>. HIDE DEF sorted, n
  <2>3. sorted \in [1..n -> rows]
    BY <2>1, <2>2
  <2>. QED
    BY <1>1, <2>3
<1>3. DOMAIN shown = 1..m /\ \A k \in 1..m : shown[k] = sorted[k] /\ shown[k] \in rows
  <2>1. shown = SubSeq(sorted, 1, m)
    BY <1>2 DEF Limited
  <2>. HIDE DEF sorted, m, shown, n
  <2>. QED
    BY <1>1, <1>2, <2>1
<1>4. ASSUME NEW a \in late
      PROVE  \E k \in 1..m : shown[k] = a
  <2>1. a \in rows /\ a.startedAt \in Nat /\ Day(a.startedAt) > day
    BY DEF JobRuns
  <2>2. Ahead(rows, a) \in SUBSET late /\ a \notin Ahead(rows, a)
    <3>1. ASSUME NEW b \in Ahead(rows, a)
          PROVE  b \in rows /\ Day(b.startedAt) > day
      <4>1. b \in rows /\ b.startedAt \in Nat /\ b.startedAt >= a.startedAt
        BY <2>1 DEF Ahead, JobRuns
      <4>2. Day(a.startedAt) <= Day(b.startedAt) /\ Day(a.startedAt) \in Int /\ Day(b.startedAt) \in Int
        BY <2>1, <4>1, DayMonotone, DayBounds
      <4>. QED
        BY <2>1, <4>1, <4>2
    <3>2. a \notin Ahead(rows, a)
      BY <2>1 DEF Ahead, JobRuns
    <3>. QED
      BY <3>1, <3>2
  <2>3. IsFiniteSet(late) /\ Cardinality(late) \in Nat /\ Cardinality(late) <= n
    <3>1. late \in SUBSET rows
      OBVIOUS
    <3>. HIDE DEF late
    <3>. QED
      BY <3>1, FS_Subset, FS_CardinalityType
  <2>. HIDE DEF late
  <2>4. Cardinality(Ahead(rows, a)) < Cardinality(late) /\ Cardinality(Ahead(rows, a)) \in Nat
    <3>1. IsFiniteSet(Ahead(rows, a)) /\ Cardinality(Ahead(rows, a)) <= Cardinality(late)
          /\ Cardinality(Ahead(rows, a)) # Cardinality(late)
      BY <1>4, <2>2, <2>3, FS_Subset
    <3>2. Cardinality(Ahead(rows, a)) \in Nat
      BY <3>1, FS_CardinalityType
    <3>. QED
      BY <2>3, <3>1, <3>2
  <2>5. Cardinality(late) <= RecentLimit
    BY DEF late
  <2>6. Cardinality(Ahead(rows, a)) + 1 \in 1..m
    BY <1>1, <2>3, <2>4, <2>5
  <2>7. sorted[Cardinality(Ahead(rows, a)) + 1] = a
    BY <2>1, SortedPlaces
  <2>. QED
    BY <1>3, <2>6, <2>7
<1>. HIDE DEF shown
<1>5. {shown[i] : i \in {k \in DOMAIN shown : Day(shown[k].startedAt) > day}} = late
  BY <1>3, <1>4
<1>. QED
  BY <1>5 DEF shown
-----------------------------------------------------------------------------
(***************************************************************************)
(* The statistics.                                                         *)
(***************************************************************************)
\* The detected messages, the failures and the average of a day.
PointOK(point) ==
  /\ point.detected \in Nat /\ point.failed \in Nat
  /\ point.averageDuration \in Nat \cup {NoDuration}

LEMMA DailyPointOK ==
  ASSUME NEW rows \in SUBSET JobRuns, IsFiniteSet(rows)
  PROVE  PointOK(DailyPoint(rows))
<1>. DEFINE timed == {row \in rows : row.duration # NoDuration}
            n     == Cardinality(timed)
            total == Total(timed, LAMBDA row : row.duration)
<1>1. n \in Nat /\ total \in Nat
  <2>1. timed \in SUBSET JobRuns /\ IsFiniteSet(timed) /\ \A row \in timed : row.duration # NoDuration
    BY FS_Subset
  <2>. HIDE DEF timed
  <2>. QED
    BY <2>1, TotalDuration, FS_CardinalityType
<1>2. DailyPoint(rows).averageDuration = IF n = 0 THEN NoDuration ELSE (2 * total + n) \div (2 * n)
  BY DEF DailyPoint
<1>3. /\ DailyPoint(rows).detected = Total(rows, LAMBDA row : row.detected)
      /\ DailyPoint(rows).failed = Total(rows, LAMBDA row : row.failed)
  BY DEF DailyPoint
<1>. HIDE DEF n, total
<1>4. n # 0 => (2 * total + n) \div (2 * n) \in Nat
  BY <1>1
<1>. QED
  BY <1>2, <1>3, <1>4, TotalTypes DEF PointOK

\* What the levels are made of.
LEMMA Scales ==
  ASSUME NEW s, NEW a \in Int, NEW b \in Int, DOMAIN s.dailyPoints = a..b,
         \A day \in a..b : PointOK(s.dailyPoints[day])
  PROVE  /\ MostDetected(s) \in Nat /\ MostDetected(s) >= 1
         /\ LongestAverage(s) \in Nat /\ LongestAverage(s) >= 1
<1>. DEFINE D == {s.dailyPoints[day].detected : day \in DOMAIN s.dailyPoints}
            A == {s.dailyPoints[day].averageDuration : day \in DOMAIN s.dailyPoints} \ {NoDuration}
<1>1. IsFiniteSet(a..b)
  BY FS_Interval
<1>2. IsFiniteSet(D) /\ IsFiniteSet({s.dailyPoints[day].averageDuration : day \in DOMAIN s.dailyPoints})
  <2>. DEFINE C == {s.dailyPoints[day].averageDuration : day \in DOMAIN s.dailyPoints}
              d == [day \in a..b |-> s.dailyPoints[day].detected]
              c == [day \in a..b |-> s.dailyPoints[day].averageDuration]
  <2>1. d \in Surjection(a..b, D)
    BY DEF Surjection
  <2>2. c \in Surjection(a..b, C)
    BY DEF Surjection
  <2>. HIDE DEF C, D, c, d
  <2>3. IsFiniteSet(D) /\ IsFiniteSet(C)
    BY <1>1, <2>1, <2>2, FS_Surjection
  <2>. QED
    BY <2>3 DEF C
<1>3. IsFiniteSet(A)
  BY <1>2, FS_Subset
<1>4. D \in SUBSET Nat /\ A \in SUBSET Nat
  BY DEF PointOK
<1>5. ASSUME NEW S \in SUBSET Nat, IsFiniteSet(S)
      PROVE  AtLeastOne(S) \in Nat /\ AtLeastOne(S) >= 1
  <2>1. S \cup {1} \in SUBSET Nat /\ IsFiniteSet(S \cup {1}) /\ S \cup {1} # {} /\ 1 \in S \cup {1}
    BY <1>5, FS_AddElement
  <2>2. Max(S \cup {1}) \in S \cup {1} /\ 1 <= Max(S \cup {1})
    BY <2>1, GreatestOf
  <2>. QED
    BY <2>1, <2>2 DEF AtLeastOne
<1>6. MostDetected(s) = AtLeastOne(D) /\ LongestAverage(s) = AtLeastOne(A)
  BY DEF MostDetected, LongestAverage
<1>. HIDE DEF D, A
<1>. QED
  BY <1>2, <1>3, <1>4, <1>5, <1>6

LEMMA CostLevelsFit ==
  ASSUME NEW s, NEW a \in Int, NEW b \in Int, DOMAIN s.dailyPoints = a..b,
         \A day \in a..b : PointOK(s.dailyPoints[day])
  PROVE  CostLevelsSound(s)
<1>. SUFFICES ASSUME NEW day \in a..b
              PROVE  LET point == s.dailyPoints[day]
                     IN /\ point.detected = 0 /\ point.averageDuration \in {NoDuration, 0} =>
                             CostLevel(s, point) = "efficient"
                        /\ point.detected = MostDetected(s) /\ point.averageDuration = LongestAverage(s) =>
                             CostLevel(s, point) = "expensive"
  BY DEF CostLevelsSound
<1>1. PICK point : point = s.dailyPoints[day]
  OBVIOUS
<1>2. PICK d, l : d = MostDetected(s) /\ l = LongestAverage(s)
  OBVIOUS
<1>3. /\ point.detected \in Nat /\ point.failed \in Nat
      /\ point.averageDuration \in Nat \cup {NoDuration}
      /\ d \in Nat /\ d >= 1 /\ l \in Nat /\ l >= 1 /\ NoDuration \notin Nat
  BY <1>1, <1>2, Scales, DaysAssumption DEF PointOK
<1>. DEFINE failed == IF point.failed < 3 THEN point.failed ELSE 3
            unit   == d * l
<1>4. failed \in 0..3 /\ unit \in Nat /\ unit >= 1
  <2>1. unit \in Nat
    BY <1>3
  <2>2. unit >= 1
    BY <1>3
  <2>. QED
    BY <1>3, <2>1, <2>2
<1>5. CostUnit(s) = 300 * d * l
  BY <1>2 DEF CostUnit
<1>6. CostUnit(s) = 300 * unit
  BY <1>3, <1>5
<1>7. CASE point.detected = 0 /\ point.averageDuration \in {NoDuration, 0}
  <2>1. CostScore(s, point) = 3 * 45 * 0 * l + 3 * 35 * 0 * d + 20 * failed * d * l
    BY <1>2, <1>7 DEF CostScore
  <2>2. CostScore(s, point) = 20 * failed * unit
    BY <1>3, <1>4, <2>1
  <2>3. failed * unit <= 3 * unit /\ failed * unit \in Nat
    BY <1>4
  <2>. HIDE DEF failed, unit
  <2>4. 20 * failed * unit = 20 * (failed * unit)
    BY <1>4
  <2>5. 100 * CostScore(s, point) < 40 * CostUnit(s) /\ ~(100 * CostScore(s, point) >= 66 * CostUnit(s))
    <3>1. PICK score, cost, x, y :
            score = CostScore(s, point) /\ cost = CostUnit(s) /\ x = failed * unit /\ y = unit
      OBVIOUS
    <3>2. x \in Nat /\ y \in Nat /\ y >= 1 /\ x <= 3 * y
      BY <1>4, <2>3, <3>1
    <3>3. score = 20 * x /\ cost = 300 * y
      BY <1>6, <2>2, <2>4, <3>1
    <3>4. 100 * score < 40 * cost /\ ~(100 * score >= 66 * cost)
      BY <3>2, <3>3
    <3>. QED
      BY <3>1, <3>4
  <2>6. CostLevel(s, point) = "efficient"
    BY <2>5 DEF CostLevel
  <2>. QED
    BY <1>1, <1>2, <1>3, <1>7, <2>6
<1>8. CASE point.detected = d /\ point.averageDuration = l
  <2>1. CostScore(s, point) = 3 * 45 * d * l + 3 * 35 * l * d + 20 * failed * d * l
    BY <1>2, <1>3, <1>8 DEF CostScore
  <2>2. CostScore(s, point) = 240 * unit + 20 * (failed * unit)
    <3>1. failed \in Nat
      BY <1>4
    <3>. HIDE DEF failed
    <3>2. /\ 3 * 45 * d * l = 135 * unit
          /\ 3 * 35 * l * d = 105 * unit
      BY <1>3
    <3>3. 20 * failed * d * l = 20 * (failed * unit)
      BY <1>3, <3>1
    <3>4. failed * unit \in Nat
      BY <1>4, <3>1
    <3>. HIDE DEF unit
    <3>. QED
      BY <1>4, <2>1, <3>2, <3>3, <3>4
  <2>3. failed * unit >= 0 /\ failed * unit \in Nat
    BY <1>4
  <2>. HIDE DEF failed, unit
  <2>4. 100 * CostScore(s, point) >= 66 * CostUnit(s) /\ ~(100 * CostScore(s, point) < 40 * CostUnit(s))
    <3>1. PICK score, cost, x, y :
            score = CostScore(s, point) /\ cost = CostUnit(s) /\ x = failed * unit /\ y = unit
      OBVIOUS
    <3>2. x \in Nat /\ y \in Nat /\ y >= 1
      BY <1>4, <2>3, <3>1
    <3>3. score = 240 * y + 20 * x /\ cost = 300 * y
      BY <1>6, <2>2, <3>1
    <3>4. 100 * score >= 66 * cost /\ ~(100 * score < 40 * cost)
      BY <3>2, <3>3
    <3>. QED
      BY <3>1, <3>4
  <2>5. CostLevel(s, point) = "expensive"
    BY <2>4 DEF CostLevel
  <2>. QED
    BY <1>1, <1>2, <1>3, <1>8, <2>5
<1>. QED
  BY <1>1, <1>2, <1>7, <1>8

\* What LastDayInDailyPoints asks of the statistics of a listing.
LEMMA LastDayFits ==
  ASSUME NEW rows \in SUBSET JobRuns, IsFiniteSet(rows), Distinct(rows), NEW now \in Nat,
         Cardinality({row \in rows : Day(row.startedAt) > Day(now)}) <= RecentLimit
  PROVE  LastDayInDailyPoints(Statistics(rows, now, NoDuration))
<1>. DEFINE s      == Statistics(rows, now, NoDuration)
            today  == Day(now)
            recent == Last24Hours(rows, now)
            On(d)  == {row \in rows : Day(row.startedAt) = d}
            late   == {row \in rows : Day(row.startedAt) > today}
<1>1. today \in Int /\ today - 1 \in (today - RecentDays + 1)..today /\ today \in (today - RecentDays + 1)..today
  BY DayBounds, DaysAssumption
<1>2. /\ s.generatedAt = now
      /\ s.detectedLast24h = Total(recent, LAMBDA row : row.detected)
      /\ s.dailyPoints = DailyPoints(rows, now)
      /\ s.recentRuns = Limited(SortedRuns(rows))
  BY DEF Statistics
<1>3. \A d \in (today - RecentDays + 1)..today :
        s.dailyPoints[d].detected = Total(On(d), LAMBDA row : row.detected)
  BY <1>2 DEF DailyPoints, DailyPoint
<1>4. {s.recentRuns[i] : i \in {k \in DOMAIN s.recentRuns : Day(s.recentRuns[k].startedAt) > today}} = late
  BY <1>1, <1>2, NewestShown
<1>5. recent \subseteq On(today) \cup On(today - 1) \cup late
  <2>1. ASSUME NEW row \in recent
        PROVE  Day(row.startedAt) = today \/ Day(row.startedAt) = today - 1 \/ Day(row.startedAt) > today
    <3>1. row.startedAt \in Nat /\ row.startedAt >= now - TicksPerDay
      BY DEF Last24Hours, JobRuns
    <3>2. Day(row.startedAt) >= today - 1 /\ Day(row.startedAt) \in Int
      BY <3>1, DayBefore, DayBounds
    <3>. QED
      BY <1>1, <3>2
  <2>. QED
    BY <2>1 DEF Last24Hours
<1>6. recent \in SUBSET rows /\ On(today) \in SUBSET rows /\ On(today - 1) \in SUBSET rows /\ late \in SUBSET rows
  BY DEF Last24Hours
<1>. HIDE DEF s, today, recent, On, late
<1>7. Total(recent, LAMBDA row : row.detected)
        <= Total(On(today), LAMBDA row : row.detected) + Total(On(today - 1), LAMBDA row : row.detected)
             + Total(late, LAMBDA row : row.detected)
  BY <1>5, <1>6, DetectedCovered
<1>8. s.detectedLast24h <= s.dailyPoints[today].detected + s.dailyPoints[today - 1].detected
                             + Total(late, LAMBDA row : row.detected)
  BY <1>1, <1>2, <1>3, <1>7
<1>9. LastDayInDailyPoints(s)
  BY <1>2, <1>4, <1>8 DEF LastDayInDailyPoints, today
<1>. QED
  BY <1>9 DEF s

LEMMA StatisticsFit == EveryStatisticsSound
<1>. SUFFICES ASSUME NEW rows \in Inputs, NEW now \in Instants
              PROVE  LET s == Statistics(rows, now, NoDuration)
                     IN LastDayInDailyPoints(s) /\ CostLevelsSound(s)
  BY DEF EveryStatisticsSound
<1>. DEFINE s == Statistics(rows, now, NoDuration)
<1>1. /\ rows \in SUBSET JobRuns /\ IsFiniteSet(rows) /\ Distinct(rows) /\ now \in Nat
      /\ Cardinality({row \in rows : Day(row.startedAt) > Day(now)}) <= RecentLimit
  BY InputsAssumption DEF Distinct
<1>2. LastDayInDailyPoints(s)
  BY <1>1, LastDayFits
<1>3. Day(now) \in Int /\ Day(now) - RecentDays + 1 \in Int
  BY <1>1, DayBounds, DaysAssumption
<1>4. s.dailyPoints = [day \in (Day(now) - RecentDays + 1)..Day(now) |->
                         DailyPoint({row \in rows : Day(row.startedAt) = day})]
  BY DEF Statistics, DailyPoints
<1>5. ASSUME NEW day
      PROVE  PointOK(DailyPoint({row \in rows : Day(row.startedAt) = day}))
  <2>. DEFINE On == {row \in rows : Day(row.startedAt) = day}
  <2>1. On \in SUBSET JobRuns /\ IsFiniteSet(On)
    BY <1>1, FS_Subset
  <2>. HIDE DEF On
  <2>2. PointOK(DailyPoint(On))
    BY <2>1, DailyPointOK
  <2>. QED
    BY <2>2 DEF On
<1>. HIDE DEF s
<1>6. CostLevelsSound(s)
  <2>. DEFINE a == Day(now) - RecentDays + 1
              b == Day(now)
  <2>1. a \in Int /\ b \in Int /\ DOMAIN s.dailyPoints = a..b
    BY <1>3, <1>4
  <2>2. \A day \in a..b : PointOK(s.dailyPoints[day])
    BY <1>4, <1>5
  <2>. HIDE DEF a, b
  <2>. QED
    BY <2>1, <2>2, CostLevelsFit
<1>. QED
  BY <1>2, <1>6 DEF s

\* Whichever job runs the statistics endpoint reads, and whenever, what it answers
\* agrees with itself and gives each day of the dashboard a cost level that fits.
THEOREM StatisticsAreSound == Spec => []StatisticsSound
<1>1. StatisticsSound
  BY StatisticsFit DEF StatisticsSound
<1>. QED
  BY <1>1, PTL
=============================================================================
