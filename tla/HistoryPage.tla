---------------------------- MODULE HistoryPage ----------------------------
(***************************************************************************)
(* The history page of the dashboard: the query is a signal, its changes   *)
(* go through debounceTime, distinctUntilChanged and switchMap to the list *)
(* endpoint, and the page that comes back is put on screen.                *)
(*                                                                         *)
(* A filter is one of a few; it matches a number of pages of rows.  A page *)
(* on screen is named by the query it answers.  The browser runs one       *)
(* callback at a time: every action is one callback.                       *)
(***************************************************************************)
EXTENDS RequestState, Integers, FiniteSets

CONSTANTS
    Filter,      \* what can be chosen in the filter form
    Pages,       \* [Filter -> Nat]: pages of rows that match
    MaxPage,     \* bound: pages of rows of any filter
    NoFilter,    \* the filter of DEFAULT_QUERY
    MaxChanges   \* bound: changes of the query by the user

ASSUME HistoryAssumption ==
    /\ NoFilter \in Filter
    /\ Pages \in [Filter -> 0..MaxPage]
    /\ {MaxPage, MaxChanges} \subseteq Nat

VARIABLES
    form,       \* the filter last applied, or none since the form was reset
    query,      \* the query signal
    debounced,  \* the value debounceTime holds back, or NoQuery
    passed,       \* the value distinctUntilChanged has let through, or NoQuery
    inflight,   \* requests of the subscribed pipe not yet answered
    retries,    \* requests of reload(), which nothing cancels
    alive,      \* the pipe is subscribed
    shown,      \* the query the rows on screen answer, or NoQuery
    changes

pipeVars == <<debounced, passed, inflight, alive>>
tableVars == <<shown, loading, error>>
historyVars == <<form, query, pipeVars, retries, tableVars, changes, faults>>

Direction == {"asc", "desc"}
Query == [filter : Filter, direction : Direction, page : 0..MaxPage]
NoQuery == [filter |-> NoFilter, direction |-> "none", page |-> 0]
Default == [filter |-> NoFilter, direction |-> "desc", page |-> 0]

HistoryTypeOK ==
    /\ form \in Filter
    /\ query \in Query
    /\ debounced \in Query \cup {NoQuery} /\ passed \in Query \cup {NoQuery}
    /\ inflight \subseteq Query /\ retries \subseteq Query
    /\ ~alive => debounced = NoQuery /\ inflight = {}
    /\ Cardinality(retries) <= 1
    /\ alive \in BOOLEAN
    /\ shown \in Query \cup {NoQuery}
    /\ loading \in BOOLEAN /\ error \in BOOLEAN
    /\ loading <=> inflight # {}
    /\ changes \in 0..MaxChanges /\ faults \in 0..MaxFaults

\* The signal's first value goes through the pipe like the others.
HistoryInit ==
    /\ form = NoFilter
    /\ query = Default
    /\ debounced = Default
    /\ passed = NoQuery
    /\ inflight = {}
    /\ retries = {}
    /\ alive = TRUE
    /\ shown = NoQuery
    /\ loading = FALSE
    /\ error = FALSE
    /\ changes = 0
    /\ faults = 0

-----------------------------------------------------------------------------
(* The user *)

\* A new object in the signal: the pipe holds it back, in the place of the
\* one it held.
Update(q) ==
    /\ query' = q
    /\ debounced' = IF alive THEN q ELSE NoQuery

Change(q) ==
    /\ changes < MaxChanges
    /\ changes' = changes + 1
    /\ Update(q)
    /\ UNCHANGED <<passed, inflight, alive, retries, tableVars, faults>>

\* The table and the paginator are there when there are rows and no error.
TableVisible == ~error /\ shown # NoQuery /\ shown.page < Pages[shown.filter]

ApplyFilters(f) ==
    /\ ~loading
    /\ form' = f
    /\ Change([query EXCEPT !.filter = f, !.page = 0])

\* The form emits no field at all, and what the query had stays in it.
ResetFilters ==
    /\ ~loading
    /\ form' = NoFilter
    /\ Change([query EXCEPT !.page = 0])

\* The headers of the table are not disabled while a page loads.
ToggleSort ==
    /\ TableVisible
    /\ UNCHANGED form
    /\ Change([query EXCEPT !.direction = IF @ = "desc" THEN "asc" ELSE "desc", !.page = 0])

\* The buttons look at the page of the query and at the last flag of the rows.
IsLast == shown.page + 1 >= Pages[shown.filter]

GoToPage(p) ==
    /\ TableVisible
    /\ ~loading
    /\ \/ query.page > 0 /\ p \in {0, query.page - 1}
       \/ ~IsLast /\ p = query.page + 1
    /\ UNCHANGED form
    /\ Change([query EXCEPT !.page = p])

\* The button of the error message.
Reload ==
    /\ error
    /\ Update(query)
    /\ error' = FALSE
    /\ retries' = retries \cup {query}
    /\ UNCHANGED <<form, passed, inflight, alive, shown, loading, changes, faults>>

-----------------------------------------------------------------------------
(* The pipe *)

\* Mutant of Switched: mergeMap, every request goes on.
SwitchedNot(q) == inflight \cup {q}

\* switchMap: the request in flight is cancelled.
Switched(q) == {q}

\* 250 ms without a change.  What equals the last value let through goes
\* no further.
Debounce ==
    /\ debounced # NoQuery
    /\ debounced' = NoQuery
    /\ passed' = debounced
    /\ IF debounced = passed
       THEN UNCHANGED <<inflight, loading, error>>
       ELSE /\ inflight' = Switched(debounced)
            /\ loading' = TRUE
            /\ error' = FALSE
    /\ UNCHANGED <<form, query, alive, retries, shown, changes, faults>>

AnswerQuery(q) ==
    /\ inflight' = inflight \ {q}
    /\ shown' = q
    /\ loading' = FALSE
    /\ UNCHANGED <<form, query, debounced, passed, alive, retries, error, changes, faults>>

\* A failed request ends the pipe: switchMap passes the error on, and no
\* later change of the query is listened to.
AnswerFails(q) ==
    /\ Faulty
    /\ error' = TRUE
    /\ loading' = FALSE
    /\ alive' = FALSE
    /\ inflight' = {}
    /\ debounced' = NoQuery
    /\ UNCHANGED <<form, query, passed, retries, shown, changes>>

AnswerRetry(q) ==
    /\ retries' = retries \ {q}
    /\ shown' = q
    /\ UNCHANGED <<form, query, pipeVars, loading, error, changes, faults>>

RetryFails(q) ==
    /\ Faulty
    /\ retries' = retries \ {q}
    /\ error' = TRUE
    /\ UNCHANGED <<form, query, pipeVars, shown, loading, changes>>

User ==
    \/ \E f \in Filter : ApplyFilters(f)
    \/ ResetFilters
    \/ ToggleSort
    \/ \E p \in 0..MaxPage : GoToPage(p)
    \/ Reload

HistoryNext ==
    \/ User
    \/ Debounce
    \/ \E q \in inflight : AnswerQuery(q) \/ AnswerFails(q)
    \/ \E q \in retries : AnswerRetry(q) \/ RetryFails(q)

HistorySpec == HistoryInit /\ [][HistoryNext]_historyVars

-----------------------------------------------------------------------------
(* Properties *)

PipeQuiet == debounced = NoQuery /\ inflight = {} /\ retries = {}

\* As long as no request has failed, a page at rest answers the query its
\* controls show, however fast they were used and in whatever order the
\* requests were answered.
AnswersWhileAlive == PipeQuiet /\ alive => shown = query

-----------------------------------------------------------------------------
(* What the page claims or its reader expects, and the code does not do:  *)
(* TLC refutes each of these on the instance of MCHistoryPage.             *)

\* A page at rest that tells of no error answers the query its controls show.
TableAnswersQuery == PipeQuiet /\ ~error => shown = query

\* The query has the filter the form tells, and none once it has been reset.
FormTold == query.filter = form

\* A user does not land on an empty page of a filter that matches something.
RowsWhenThereAreSome ==
    PipeQuiet /\ ~error /\ shown # NoQuery =>
        (Pages[shown.filter] > 0 => shown.page < Pages[shown.filter])
=============================================================================
