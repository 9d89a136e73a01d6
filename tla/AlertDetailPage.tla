-------------------------- MODULE AlertDetailPage --------------------------
(***************************************************************************)
(* The detail page of the dashboard with the acknowledgement form, the     *)
(* service behind it, and another operator who acknowledges alerts too.    *)
(*                                                                         *)
(* Going from one alert to another keeps the page and changes its route    *)
(* parameter.  Requests are never cancelled.  An alert's version is the    *)
(* number of its acknowledgements; what else it holds does not change here.*)
(* The browser runs one callback at a time: every action is one callback   *)
(* or one request handled by the service.                                  *)
(***************************************************************************)
EXTENDS AlertModel, RequestState, Integers, FiniteSets

CONSTANTS
    None,            \* nothing yet
    MaxNavigations   \* bound: changes of the route

ASSUME DetailAssumption ==
    /\ Alert # {} /\ None \notin Alert
    /\ MaxNavigations \in Nat

VARIABLES
    status,        \* [Alert -> Status]: the database
    route,         \* alertId, the route parameter
    alert,         \* what is on screen
    telemetry,     \* the alert the curve was loaded for, or None
    acknowledging, \* the form is busy
    acknowledged,  \* the page says that the alert was acknowledged
    conflict,      \* conflictMessage: the alert it is about, or None
    loads,         \* requests for an alert in flight
    charts,        \* alerts whose curve has been asked for
    ack,           \* the acknowledgement in flight
    issued,        \* loads so far
    decided,       \* alerts the service has decided an acknowledgement of this page for
    answered,      \* the youngest load that was answered with its alert
    outrun,        \* the last load answered is older than that
    strayed,       \* since the route was loaded, an acknowledgement of another alert came back
    stale,         \* since the last load, an acknowledgement came back when an
                   \* answer with its alert as NEW was still on its way
    navigations

screenVars == <<alert, telemetry, loading, error, acknowledging, acknowledged, conflict>>
loadVars == <<loads, charts, ack, issued>>
orderVars == <<answered, outrun, strayed, stale>>
boundVars == <<navigations, faults>>
detailVars == <<status, route, screenVars, loadVars, orderVars, decided, boundVars>>

Detail == [id : Alert, status : Status]
NoAck == [phase |-> "none"]
Version(s) == IF s = "NEW" THEN 0 ELSE 1

DetailTypeOK ==
    /\ status \in [Alert -> Status]
    /\ route \in Alert
    /\ alert = None \/ alert \in Detail
    /\ telemetry \in Alert \cup {None} /\ conflict \in Alert \cup {None}
    /\ {loading, error, acknowledging, acknowledged, outrun, strayed, stale} \subseteq BOOLEAN
    /\ \A r \in loads : /\ r.n \in 1..issued /\ r.id \in Alert
                        /\ r.answer = None \/ r.answer \in Detail
    /\ charts \subseteq Alert
    /\ ack # NoAck => ack.phase \in {"sent", "done", "refused"} /\ ack.id \in Alert
    /\ acknowledging <=> ack # NoAck
    /\ decided \subseteq Alert
    /\ loading => loads # {}
    /\ answered \in 0..issued
    /\ navigations \in 0..MaxNavigations /\ faults \in 0..MaxFaults

Request(n, a) == [n |-> n, id |-> a, answer |-> None]

DetailInit ==
    /\ status \in [Alert -> Status]
    /\ route \in Alert
    /\ alert = None
    /\ telemetry = None
    /\ loading = TRUE
    /\ error = FALSE
    /\ acknowledging = FALSE
    /\ acknowledged = FALSE
    /\ conflict = None
    /\ loads = {Request(1, route)}
    /\ charts = {}
    /\ ack = NoAck
    /\ issued = 1
    /\ decided = {}
    /\ answered = 0
    /\ outrun = FALSE
    /\ strayed = FALSE
    /\ stale = FALSE
    /\ navigations = 0
    /\ faults = 0

AtRest == loads = {} /\ ack = NoAck

-----------------------------------------------------------------------------
(* Loading an alert *)

Load(a) ==
    /\ loading' = TRUE
    /\ error' = FALSE
    /\ loads' = loads \cup {Request(issued + 1, a)}
    /\ issued' = issued + 1
    /\ stale' = FALSE

\* Mutant of LoadNamed: a page that is busy loading does not look at its route.
LoadUnlessBusy(a) ==
    IF loads = {} THEN Load(a) ELSE UNCHANGED <<loading, error, loads, issued, stale>>

\* The effect on alertId().
LoadNamed(a) == Load(a)

Navigate(a) ==
    /\ a # route
    /\ navigations < MaxNavigations
    /\ navigations' = navigations + 1
    /\ route' = a
    /\ LoadNamed(a)
    /\ strayed' = FALSE
    /\ UNCHANGED <<status, alert, telemetry, acknowledging, acknowledged, conflict, charts, ack,
                   answered, outrun, decided, faults>>

\* The button of the error message.
RetryLoad ==
    /\ error
    /\ Load(route)
    /\ strayed' = FALSE
    /\ UNCHANGED <<status, route, alert, telemetry, acknowledging, acknowledged, conflict, charts,
                   ack, answered, outrun, decided, boundVars>>

ServeLoad(r) ==
    /\ r.answer = None
    /\ loads' = (loads \ {r})
                    \cup {[r EXCEPT !.answer = [id |-> r.id, status |-> status[r.id]]]}
    /\ UNCHANGED <<status, route, screenVars, charts, ack, issued, orderVars, decided,
                   boundVars>>

OnDetail(r) ==
    /\ r.answer # None
    /\ loads' = loads \ {r}
    /\ alert' = r.answer
    /\ loading' = FALSE
    /\ charts' = charts \cup {r.id}
    /\ answered' = IF r.n > answered THEN r.n ELSE answered
    /\ outrun' = (r.n < answered)
    /\ UNCHANGED <<status, route, telemetry, error, acknowledging, acknowledged, conflict, ack,
                   issued, strayed, stale, decided, boundVars>>

OnLoadError(r) ==
    /\ Faulty
    /\ loads' = loads \ {r}
    /\ error' = TRUE
    /\ loading' = FALSE
    /\ UNCHANGED <<status, route, alert, telemetry, acknowledging, acknowledged, conflict, charts,
                   ack, issued, orderVars, decided, navigations>>

\* A curve that cannot be loaded does not fail the page.
OnChart(a) ==
    /\ charts' = charts \ {a}
    /\ telemetry' \in {a, None}
    /\ UNCHANGED <<status, route, alert, loading, error, acknowledging, acknowledged, conflict,
                   loads, ack, issued, orderVars, decided, boundVars>>

-----------------------------------------------------------------------------
(* Acknowledging it *)

\* The form is there for a NEW alert, and only when nothing hides it.
FormVisible == ~error /\ ~loading /\ alert # None /\ alert.status = "NEW"

Submit ==
    /\ FormVisible
    /\ ~acknowledging
    /\ acknowledging' = TRUE
    /\ conflict' = None
    /\ ack' = [phase |-> "sent", id |-> alert.id, version |-> Version(alert.status)]
    /\ UNCHANGED <<status, route, alert, telemetry, loading, error, acknowledged, loads, charts,
                   issued, orderVars, decided, boundVars>>

\* The service acknowledges a NEW alert of the expected version.
ServeAck ==
    /\ ack.phase = "sent"
    /\ IF status[ack.id] = "NEW" /\ Version(status[ack.id]) = ack.version
       THEN /\ status' = [status EXCEPT ![ack.id] = "ACKNOWLEDGED"]
            /\ ack' = [ack EXCEPT !.phase = "done"]
       ELSE /\ ack' = [ack EXCEPT !.phase = "refused"]
            /\ UNCHANGED status
    /\ decided' = decided \cup {ack.id}
    /\ UNCHANGED <<route, screenVars, loads, charts, issued, orderVars, boundVars>>

\* Mutant of Updated: the page keeps the alert as it was loaded.
UpdatedNot == alert

\* The alert that comes back is the one on screen, wherever the route leads.
Updated == [id |-> ack.id, status |-> "ACKNOWLEDGED"]

OnAcknowledged ==
    /\ ack.phase = "done"
    /\ alert' = Updated
    /\ acknowledging' = FALSE
    /\ acknowledged' = TRUE
    /\ ack' = NoAck
    /\ strayed' = (strayed \/ ack.id # route)
    /\ stale' = (stale \/ \E r \in loads : r.answer = [id |-> ack.id, status |-> "NEW"])
    /\ UNCHANGED <<status, route, telemetry, loading, error, conflict, loads, charts, issued,
                   answered, outrun, decided, boundVars>>

\* Mutant of ReloadAfterConflict: the message is all the operator gets.
ReloadNever == UNCHANGED <<loading, error, loads, issued, stale>>

ReloadAfterConflict == Load(ack.id)

OnConflict ==
    /\ ack.phase = "refused"
    /\ conflict' = ack.id
    /\ ReloadAfterConflict
    /\ acknowledging' = FALSE
    /\ ack' = NoAck
    /\ strayed' = (strayed \/ ack.id # route)
    /\ UNCHANGED <<status, route, alert, telemetry, acknowledged, charts, answered, outrun,
                   decided, boundVars>>

\* Any other failure: the request never reached the service, or its answer
\* never came back.
OnAckError ==
    /\ ack # NoAck
    /\ Faulty
    /\ acknowledging' = FALSE
    /\ error' = TRUE
    /\ ack' = NoAck
    /\ UNCHANGED <<status, route, alert, telemetry, loading, acknowledged, conflict, loads, charts,
                   issued, orderVars, decided, navigations>>

OtherOperator(a) ==
    /\ status[a] = "NEW"
    /\ status' = [status EXCEPT ![a] = "ACKNOWLEDGED"]
    /\ UNCHANGED <<route, screenVars, loadVars, orderVars, decided, boundVars>>

-----------------------------------------------------------------------------

Requests ==
    \/ \E r \in loads : ServeLoad(r) \/ OnDetail(r) \/ OnLoadError(r)
    \/ \E a \in charts : OnChart(a)
    \/ ack # NoAck /\ (ServeAck \/ OnAcknowledged \/ OnConflict)
    \/ OnAckError

DetailNext ==
    \/ \E a \in Alert : Navigate(a) \/ OtherOperator(a)
    \/ RetryLoad
    \/ Submit
    \/ Requests

DetailSpec == DetailInit /\ [][DetailNext]_detailVars

-----------------------------------------------------------------------------
(* Properties *)

\* However navigations, loads, retries, acknowledgements and their conflicts
\* overlap, the page at rest that tells of no error shows the alert the route
\* names -- unless an older load was answered after a younger one, or an
\* acknowledgement came back to a page that had gone to another alert.
RouteShownUnlessOutrun == AtRest /\ ~error /\ ~outrun /\ ~strayed => alert.id = route

\* Once the service has decided an acknowledgement, the operator is not left
\* in front of the alert as if it were NEW, whether the attempt won, lost
\* against another operator, or its answer never came back -- unless an
\* answer read before the decision came after it: an older load's, or the one
\* of a page that went away and came back while the acknowledgement was
\* under way.
ResolvedUnlessStale ==
    AtRest /\ ~error /\ ~outrun /\ ~stale /\ alert.id \in decided
        => alert.status = "ACKNOWLEDGED"

-----------------------------------------------------------------------------
(* What the page's comments say, and the code does not do: TLC refutes     *)
(* each of these on the instance of MCAlertDetailPage.                     *)

\* Going from one alert to another never leaves another one on screen.
RouteShown == AtRest /\ ~error => alert.id = route

\* An operator is never left in front of a decided alert as if it were NEW.
AttemptResolved == AtRest /\ ~error /\ alert.id \in decided => alert.status = "ACKNOWLEDGED"

\* An operator whose acknowledgement was refused is told so on the page.
ConflictTold == AtRest /\ ~error /\ conflict # None /\ conflict = alert.id => FormVisible
=============================================================================
