--------------------------- MODULE OperationsConsole ---------------------------
(***************************************************************************)
(* The operations console: the Angular application in one browser, with    *)
(* its session and its dashboard, and the API it asks for statistics and a *)
(* health check.                                                           *)
(*                                                                         *)
(* Firebase authentication, the store of the statistics and the four       *)
(* services the health check probes are external.  A request passes        *)
(* through the interceptor of the browser, the authentication of the API   *)
(* and one of its controllers; its reply comes back through the            *)
(* interceptor, which ends the session on a 403.                           *)
(***************************************************************************)
EXTENDS JobRunStatistics

CONSTANTS
  Owner,         \* the user whose mailbox the application serves
  Strangers,     \* other users with a Google account
  Nobody, Nothing,
  MaxReloads,    \* bound: loads of the dashboard's data
  MaxChanges     \* bound: sign-ins and sign-outs

ASSUME UsersAssumption == Owner \notin Strangers /\ Nobody \notin {Owner} \cup Strangers

Users   == {Owner} \cup Strangers
Reloads == 1..MaxReloads
Kinds   == {"healthcheck", "statistics"}

VARIABLES
  session,     \* AuthSessionService: user, initialized, error
  firebase,    \* who is signed in at Firebase
  configured,  \* a Firebase configuration was found
  page,        \* the route: "blank", "login" or "dashboard"
  current,     \* the last reload of the dashboard on the page, or 0
  reloads,     \* "unused", "loading" or "done", for each reload
  requests,    \* the two requests of each reload
  healthDoc,   \* the document of the Firestore health check exists
  changes      \* sign-ins and sign-outs so far

browser == <<session, firebase, configured, page, current, reloads>>
vars    == <<browser, requests, healthDoc, changes>>

Keys == Reloads \X Kinds

NoRequest ==
  [phase |-> "unused", token |-> Nobody, verified |-> TRUE, alone |-> TRUE, faulty |-> FALSE,
   lost |-> FALSE, status |-> 0, value |-> Nothing]
-----------------------------------------------------------------------------
(***************************************************************************)
(* The start of the application.                                           *)
(***************************************************************************)
\* What a configuration file may come to: it cannot be fetched or parsed, names
\* no Firebase configuration, one that is not well formed, or one that is.
Sources == {"unreadable", "silent", "malformed", "complete"}

\* loadInternal: the application's own file if it speaks of Firebase at all, else
\* that of Firebase Hosting.
FirebaseConfig(app, hosting) ==
  IF app \in {"unreadable", "silent"} THEN hosting = "complete" ELSE app = "complete"

\* initialize, once: its promise is kept, and so is a configuration that could
\* not be read.
Initialize ==
  /\ ~session.initialized
  /\ \E app, hosting \in Sources : configured' = FirebaseConfig(app, hosting)
  /\ session' = [session EXCEPT !.initialized = TRUE,
                                !.user = IF configured' THEN firebase ELSE Nobody]
  /\ UNCHANGED <<firebase, page, current, reloads, requests, healthDoc, changes>>

\* The constructor of the dashboard, or its button, calls reload.
Reload(i) ==
  /\ reloads[i] = "unused"
  /\ \A j \in Reloads : reloads[j] = "unused" => i <= j
  /\ reloads' = [reloads EXCEPT ![i] = "loading"]
  /\ current' = i
  /\ requests' = [q \in Keys |->
                    IF q[1] = i THEN [NoRequest EXCEPT !.phase = "token"] ELSE requests[q]]

\* authGuard, at the start or when the login page finds a session.
EnterDashboard ==
  /\ page # "dashboard" /\ session.initialized
  /\ session.user # Nobody
  /\ page' = "dashboard"
  /\ \E i \in Reloads : Reload(i)
  /\ UNCHANGED <<session, firebase, configured, healthDoc, changes>>

EnterLogin ==
  /\ page = "blank" /\ session.initialized
  /\ session.user = Nobody
  /\ page' = "login"
  /\ UNCHANGED <<session, firebase, configured, current, reloads, requests, healthDoc, changes>>

\* The button is disabled while a reload is in progress.
Refresh ==
  /\ page = "dashboard" /\ reloads[current] = "done"
  /\ \E i \in Reloads : Reload(i)
  /\ UNCHANGED <<session, firebase, configured, page, healthDoc, changes>>

\* forkJoin: both requests are settled, with an answer or an error.
FinishReload(i) ==
  /\ reloads[i] = "loading"
  /\ \A kind \in Kinds : requests[i, kind].phase = "settled" \/ requests[i, kind].lost
  /\ reloads' = [reloads EXCEPT ![i] = "done"]
  /\ UNCHANGED <<session, firebase, configured, page, current, requests, healthDoc, changes>>
-----------------------------------------------------------------------------
(***************************************************************************)
(* Sign-in and sign-out.  The listener of the session is told in the same  *)
(* turn.                                                                   *)
(***************************************************************************)
Change ==
  /\ changes < MaxChanges
  /\ changes' = changes + 1

\* The popup succeeds, or fails and leaves an error.
SignIn(user) ==
  /\ page = "login" /\ Change
  /\ \/ /\ configured
        /\ firebase' = user
        /\ session' = [session EXCEPT !.user = user, !.error = FALSE]
     \/ /\ session' = [session EXCEPT !.error = TRUE]
        /\ UNCHANGED firebase
  /\ UNCHANGED <<configured, page, current, reloads, requests, healthDoc>>

\* The button of the dashboard: out, and to the login page, unless Firebase fails.
SignOut ==
  /\ page = "dashboard" /\ Change
  /\ \/ /\ firebase' = IF configured THEN Nobody ELSE firebase
        /\ session' = [session EXCEPT !.user = Nobody, !.error = FALSE]
        /\ page' = "login" /\ current' = 0
     \/ /\ configured
        /\ session' = [session EXCEPT !.error = FALSE]
        /\ UNCHANGED <<firebase, page, current>>
  /\ UNCHANGED <<configured, reloads, requests, healthDoc>>

\* Another tab of the browser shares the session of Firebase, not the page.
OtherTab(user) ==
  /\ configured /\ user # firebase /\ Change
  /\ firebase' = user
  /\ session' = [session EXCEPT !.user = user]
  /\ UNCHANGED <<configured, page, current, reloads, requests, healthDoc>>
-----------------------------------------------------------------------------
(***************************************************************************)
(* A request.                                                              *)
(***************************************************************************)
Set(q, request) == requests' = [requests EXCEPT ![q] = request]
To(q, phase) == Set(q, [requests[q] EXCEPT !.phase = phase])
In(q, phase) == requests[q].phase = phase

\* What was answered is the dashboard's now, to be shown with the other answer.
Settle(q) == Set(q, [NoRequest EXCEPT !.phase = "settled"])

\* The API has done with a request; nobody waits for the answer to a lost one.
Reply(q, request) ==
  IF request.lost THEN Settle(q) ELSE Set(q, [request EXCEPT !.phase = "answered"])
Answer(q, code, value) == Reply(q, [requests[q] EXCEPT !.status = code, !.value = value])

Checking(q) == requests[q].phase \in {"write", "read", "delete"}

\* The interceptor: getAccessToken, and the request is sent.
Send(q) ==
  /\ In(q, "token") /\ session.initialized
  /\ Set(q, [requests[q] EXCEPT !.phase = "sent", !.token = session.user])
  /\ UNCHANGED <<browser, healthDoc>>

\* No token can be had, the request is lost, or the answer is; or the connection
\* is, and the health check goes on alone.
Lose(q) ==
  /\ \/ (In(q, "token") \/ In(q, "sent")) /\ Answer(q, 0, Nothing)
     \/ /\ Checking(q) /\ ~requests[q].lost
        /\ Set(q, [requests[q] EXCEPT !.lost = TRUE])
  /\ UNCHANGED <<browser, healthDoc>>

Start(kind) == IF kind = "healthcheck" THEN "write" ELSE "get"

\* Mutant: any user Firebase knows is let in.
AuthenticateAnyone(q) ==
  /\ In(q, "sent")
  /\ IF requests[q].token = Nobody THEN Answer(q, 401, Nothing) ELSE To(q, Start(q[2]))
  /\ UNCHANGED <<browser, healthDoc>>

\* expressAuthentication.  Whatever fails in the verification of a token, the
\* answer is 403.
Authenticate(q) ==
  /\ In(q, "sent")
  /\ \/ requests[q].token = Nobody /\ Answer(q, 401, Nothing)
     \/ requests[q].token \in Strangers /\ Answer(q, 403, Nothing)
     \/ requests[q].token = Owner /\ To(q, Start(q[2]))
     \/ /\ requests[q].token # Nobody
        /\ Reply(q, [requests[q] EXCEPT !.status = 403, !.verified = FALSE])
  /\ UNCHANGED <<browser, healthDoc>>

(***************************************************************************)
(* The health check.  Its four checks run at the same time; that of        *)
(* Firestore is followed step by step, on the document all requests share. *)
(***************************************************************************)
Priority(status) ==
  CASE status = "healthy" -> 0 [] status = "warning" -> 1 [] status = "error" -> 2

DetermineOverallStatus(statuses) ==
  CHOOSE status \in statuses : \A other \in statuses : Priority(other) <= Priority(status)

Others(q)   == {p \in Keys \ {q} : p[2] = "healthcheck" /\ Checking(p)}

\* The report, with the other three checks: POP3, Gmail and Amplitude, whose
\* failure only warns.
Report(q, firestore) ==
  \E pop3, gmail \in {"healthy", "error"}, amplitude \in {"healthy", "warning"} :
    Answer(q, 200, [firestore |-> firestore,
                    overall |-> DetermineOverallStatus({pop3, gmail, firestore, amplitude})])

\* A step of the Firestore check that fails, with or without its effect, ends it
\* with an error.
FirestoreFails(q) ==
  /\ Checking(q)
  /\ \/ UNCHANGED healthDoc
     \/ In(q, "write") /\ healthDoc' = TRUE
     \/ In(q, "delete") /\ healthDoc' = FALSE
  /\ Reply(q, [requests[q] EXCEPT !.status = 200, !.faulty = TRUE,
                                  !.value = [firestore |-> "error", overall |-> "error"]])
  /\ UNCHANGED browser

\* Two checks at once are noted in both.
Meet(q, phase) ==
  requests' = [p \in Keys |->
    IF p = q THEN [requests[q] EXCEPT !.phase = phase, !.alone = (Others(q) = {})]
    ELSE IF p \in Others(q) THEN [requests[p] EXCEPT !.alone = FALSE]
    ELSE requests[p]]

WriteDocument(q) ==
  /\ In(q, "write")
  /\ healthDoc' = TRUE
  /\ Meet(q, "read")
  /\ UNCHANGED browser

\* A document that is gone is an error.
ReadDocument(q) ==
  /\ In(q, "read")
  /\ IF healthDoc THEN To(q, "delete") ELSE Report(q, "error")
  /\ UNCHANGED <<browser, healthDoc>>

DeleteDocument(q) ==
  /\ In(q, "delete")
  /\ healthDoc' = FALSE
  /\ Report(q, "healthy")
  /\ UNCHANGED browser

(***************************************************************************)
(* The statistics: those persisted, or else those computed from the rows;  *)
(* JobRunStatistics says what they are.  A failure is a 500.               *)
(***************************************************************************)
GetProjection(q) ==
  /\ In(q, "get")
  /\ \/ Answer(q, 200, Nothing)
     \/ To(q, "list")
     \/ Answer(q, 500, Nothing)
  /\ UNCHANGED <<browser, healthDoc>>

ListRows(q) ==
  /\ In(q, "list")
  /\ \E code \in {200, 500} : Answer(q, code, Nothing)
  /\ UNCHANGED <<browser, healthDoc>>

(***************************************************************************)
(* The interceptor again.                                                  *)
(***************************************************************************)
\* Mutant: any failure ends the session.
HandleAnyFailure(q) ==
  /\ In(q, "answered")
  /\ IF requests[q].status = 200
     THEN Settle(q) /\ UNCHANGED session
     ELSE To(q, "forbidden") /\ session' = [session EXCEPT !.user = Nobody]
  /\ UNCHANGED <<firebase, configured, page, current, reloads, healthDoc>>

\* Only a 403 is more than an error: handleForbiddenApiAccess drops the user,
\* whoever that is by now.
HandleAnswer(q) ==
  /\ In(q, "answered")
  /\ IF requests[q].status = 403
     THEN To(q, "forbidden") /\ session' = [session EXCEPT !.user = Nobody]
     ELSE Settle(q) /\ UNCHANGED session
  /\ UNCHANGED <<firebase, configured, page, current, reloads, healthDoc>>

\* Mutant: a sign-out that fails stops the rest.
SignOutOrThrow(q) ==
  /\ In(q, "forbidden")
  /\ \/ /\ To(q, "leaving")
        /\ firebase' = Nobody
        /\ session' = [session EXCEPT !.user = Nobody, !.error = TRUE]
     \/ Settle(q) /\ UNCHANGED <<firebase, session>>
  /\ UNCHANGED <<configured, page, current, reloads, healthDoc>>

\* Then it signs out, which may fail, and leaves its message.
SignOutForbidden(q) ==
  /\ In(q, "forbidden")
  /\ \/ /\ firebase' = Nobody
        /\ session' = [session EXCEPT !.user = Nobody, !.error = TRUE]
     \/ /\ session' = [session EXCEPT !.error = TRUE]
        /\ UNCHANGED firebase
  /\ To(q, "leaving")
  /\ UNCHANGED <<configured, page, current, reloads, healthDoc>>

\* And the router goes to the login page.
Leave(q) ==
  /\ In(q, "leaving")
  /\ page' = "login" /\ current' = 0
  /\ Settle(q)
  /\ UNCHANGED <<session, firebase, configured, reloads, healthDoc>>
-----------------------------------------------------------------------------
Init ==
  /\ firebase \in Users \cup {Nobody}
  /\ session = [user |-> Nobody, initialized |-> FALSE, error |-> FALSE]
  /\ configured = FALSE
  /\ page = "blank" /\ current = 0
  /\ reloads = [i \in Reloads |-> "unused"]
  /\ requests = [q \in Keys |-> NoRequest]
  /\ healthDoc = FALSE
  /\ changes = 0

RequestStep(q) ==
  /\ \/ Send(q) \/ Lose(q) \/ Authenticate(q)
     \/ WriteDocument(q) \/ ReadDocument(q) \/ DeleteDocument(q) \/ FirestoreFails(q)
     \/ GetProjection(q) \/ ListRows(q)
     \/ HandleAnswer(q) \/ SignOutForbidden(q) \/ Leave(q)
  /\ UNCHANGED changes

Next ==
  \/ Initialize \/ EnterDashboard \/ EnterLogin \/ Refresh
  \/ \E i \in Reloads : FinishReload(i)
  \/ \E user \in Users : SignIn(user)
  \/ SignOut
  \/ \E user \in Users \cup {Nobody} : OtherTab(user)
  \/ \E q \in Keys : RequestStep(q)

Spec == Init /\ [][Next]_vars

\* Every request is answered or times out, and the browser runs every callback.
FairSpec == Spec /\ \A q \in Keys : WF_vars(RequestStep(q))
-----------------------------------------------------------------------------
(***************************************************************************)
(* Properties                                                              *)
(***************************************************************************)
\* What the API answers: data to the owner alone and "unauthorized" to none but
\* those without a token.  A health check reports Firestore down although every
\* one of its own operations succeeded only if another one ran at the same time:
\* two dashboards that load together delete each other's document.
AnswersSound ==
  \A q \in Keys :
    LET request == requests[q]
    IN /\ request.status = 200 => request.token = Owner
       /\ request.status = 401 => request.token = Nobody
       /\ q[2] = "healthcheck" /\ request.status = 200 /\ ~request.faulty /\ request.alone =>
            request.value.firestore = "healthy"

\* The statistics an answer holds are sound, whatever job runs they are of.
StatisticsSound ==
  \A q \in Keys : q[2] = "statistics" /\ requests[q].status = 200 => EveryStatisticsSound

\* The console drops the owner's session, when the owner did not end it, only for
\* a 403 that is not theirs, the late answer to a request of another user, or that
\* the API gave because it could not verify the token; no other failure does.
OwnerKept ==
  [][(session.user = Owner /\ session'.user = Nobody /\ requests' # requests) =>
       \E q \in Keys :
         /\ requests[q].phase \in {"answered", "forbidden"} /\ requests[q].status = 403
         /\ requests[q].token # Owner \/ ~requests[q].verified]_vars

\* Who is refused is shown the login page, even if the sign-out fails.
RefusedLeave == \A q \in Keys : (In(q, "answered") /\ requests[q].status = 403) ~> page = "login"
=============================================================================
