---------------------------- MODULE AdminQueries -----------------------------
(***************************************************************************)
(* The lists and the statistics of the super admin                         *)
(* (backend/services/admin_service.py) and the audit log                   *)
(* (audit_service.py).  A request is a sequence of queries, and each of    *)
(* them sees what was committed when it ran: the total of a list is        *)
(* counted before its page is read, the page after next is cut by offset   *)
(* from a list that may have changed, and one report is put together from  *)
(* counts of several moments.  A reader is modelled who asks for page      *)
(* after page until the total is reached.                                  *)
(***************************************************************************)
EXTENDS Integers, Sequences, FiniteSets, SequencesExt, Arrangement, NoneValue

CONSTANTS
    ClientAccounts,       \* the accounts an organization may link
    PageSize,
    MaxListed,            \* bound on the rows that are ever in a list
    MaxRowChanges         \* bound on the changes others make

ASSUME ClientAccountsAssumption == IsFiniteSet(ClientAccounts)
ASSUME PageSizeAssumption == PageSize \in Nat \ {0}

Lists == {"clients", "organizations", "logs"}

VARIABLES
    rows,           \* the rows of each list, in the order of their creation
    active,         \* the clients whose is_active is "Y"
    holdings,       \* what there is of an account: 0 nothing, 1 its row, 2 a
                    \* cluster too, 3 an instance in that
    reading,        \* the request that is being answered, or the walk it is of
    rowsMade, rowChanges   \* rows that were made; changes so far

adminVars == <<rows, active, holdings, reading, rowsMade, rowChanges>>

AdminInit ==
    /\ rows = [l \in Lists |-> IF l = "clients" THEN <<1, 2>> ELSE <<>>]
    /\ active = {1, 2}
    /\ holdings = [a \in ClientAccounts |-> 0]
    /\ reading = None /\ rowsMade = 2 /\ rowChanges = 0

\* The filter that changes while its rows stay is that of the clients by
\* is_active.
Listed(list, filter) == {id \in ToSet(rows[list]) : filter = "all" \/ id \in active}

Newer(list, a, b) ==
    \E i, j \in DOMAIN rows[list] : i > j /\ rows[list][i] = a /\ rows[list][j] = b

\* What a query of the list returns, the newest first
Newest(list, filter) ==
    Arranged(Listed(list, filter), LAMBDA a, b : Newer(list, a, b))

OffsetLimit(s, offset, limit) == SubSeq(s, offset + 1, Min({offset + limit, Len(s)}))

\* Mutant: the pages are taken to begin with 0.
PageMutant(list, filter, page) == OffsetLimit(Newest(list, filter), page * PageSize, PageSize)

Page(list, filter, page) ==
    OffsetLimit(Newest(list, filter), (page - 1) * PageSize, PageSize)

Holding(level) == Cardinality({a \in ClientAccounts : holdings[a] >= level})

\* _calculate_platform_cost(): the sum over the instances of a query of its own
Cost == Holding(3)

\* The counts, one query each.  Every instance counts as running.
CountOf(query) ==
    CASE query = "users"     -> Len(rows["clients"])
      [] query = "active"    -> Cardinality(ToSet(rows["clients"]) \cap active)
      [] query = "accounts"  -> Holding(1)
      [] query = "clusters"  -> Holding(2)
      [] query \in {"instances", "running"} -> Holding(3)
      [] query = "cost"      -> Cost

\* The queries of the platform's statistics, of a client's, which go through
\* the organization, and of an organization's, in the order of the code
Queries(kind) ==
    CASE kind = "platform"      -> <<"users", "active", "clusters", "instances", "running", "cost">>
      [] kind = "clients"       -> <<"accounts", "clusters", "instances", "running", "cost">>
      [] kind = "organizations" -> <<"users", "clusters", "instances">>
      [] OTHER                  -> <<>>

\* A report of its own: counts taken so far, and, as history, whether rows came
\* or went since it began
Report(kind) == [queries |-> Queries(kind), counts |-> <<>>, kind |-> kind,
                 grew |-> FALSE, shrank |-> FALSE]

-----------------------------------------------------------------------------
\* list_clients(), list_organizations() and get_audit_logs(), page by page
Walk(list, filter) ==
    /\ reading = None
    /\ filter = "active" => list = "clients"
    /\ reading' = [step |-> "count", list |-> list, filter |-> filter, page |-> 1,
                   total |-> 0, seen |-> <<>>, start |-> ToSet(Newest(list, filter)),
                   came |-> FALSE, went |-> FALSE, late |-> FALSE]
    /\ UNCHANGED <<rows, active, holdings, rowsMade, rowChanges>>

\* the total first,
CountRows ==
    /\ reading # None /\ reading.step = "count"
    /\ reading' = [reading EXCEPT !.step = "page", !.late = FALSE,
                     !.total = Len(Newest(reading.list, reading.filter))]
    /\ UNCHANGED <<rows, active, holdings, rowsMade, rowChanges>>

\* the page then; its reader asks for the next one while there should be one.
ReadPage ==
    /\ reading # None /\ reading.step = "page"
    /\ reading' = [reading EXCEPT
         !.seen = @ \o Page(reading.list, reading.filter, reading.page),
         !.step = IF reading.page * PageSize >= reading.total THEN "walked" ELSE "count",
         !.page = @ + 1]
    /\ UNCHANGED <<rows, active, holdings, rowsMade, rowChanges>>

\* get_platform_stats(), get_client_details(), and the statistics of each row
\* of a page, which have no part in which rows are shown
BeginReport(kind) ==
    /\ reading = None
    /\ reading' = [step |-> "report", report |-> Report(kind)]
    /\ UNCHANGED <<rows, active, holdings, rowsMade, rowChanges>>

Query ==
    /\ reading # None /\ reading.step = "report" /\ reading.report.queries # <<>>
    /\ reading' = [reading EXCEPT
         !.report.queries = Tail(@),
         !.report.counts = Append(@, <<Head(reading.report.queries),
                                       CountOf(Head(reading.report.queries))>>)]
    /\ UNCHANGED <<rows, active, holdings, rowsMade, rowChanges>>

Answered ==
    /\ reading # None
    /\ \/ reading.step = "walked"
       \/ reading.step = "report" /\ reading.report.queries = <<>>
    /\ reading' = None
    /\ UNCHANGED <<rows, active, holdings, rowsMade, rowChanges>>

-----------------------------------------------------------------------------
\* What others commit meanwhile.  In the request it is only noted.
NoteChange(list, came, went) ==
    reading' =
      IF reading = None THEN None
      ELSE IF reading.step = "report"
        THEN [reading EXCEPT !.report.grew = @ \/ came, !.report.shrank = @ \/ went]
      ELSE IF reading.list # list THEN reading
      ELSE [reading EXCEPT !.came = @ \/ came, !.went = @ \/ went,
                           !.late = @ \/ (came /\ reading.step = "page")]

Change == rowChanges < MaxRowChanges /\ rowChanges' = rowChanges + 1

\* create_audit_log(), and a new client or organization.  Its time of creation
\* is taken before its commit: one newer may have been committed first.
Create(list) ==
    /\ Change /\ rowsMade < MaxListed /\ rowsMade' = rowsMade + 1
    /\ \E place \in {Len(rows[list]), Len(rows[list]) + 1} \ {0} :
         rows' = [rows EXCEPT ![list] = InsertAt(@, place, rowsMade')]
    /\ active' = IF list = "clients" THEN active \cup {rowsMade'} ELSE active
    /\ NoteChange(list, TRUE, FALSE)
    /\ UNCHANGED holdings

\* A member is removed from an organization: its row is deleted.  Organizations
\* and audit logs are never deleted.
DeleteClient(i) ==
    /\ Change /\ i \in DOMAIN rows["clients"]
    /\ rows' = [rows EXCEPT !["clients"] = RemoveAt(@, i)]
    /\ active' = active \ {rows["clients"][i]}
    /\ NoteChange("clients", FALSE, TRUE)
    /\ UNCHANGED <<holdings, rowsMade>>

\* A client is deactivated, or activated again.
Toggle(id) ==
    /\ Change /\ id \in ToSet(rows["clients"])
    /\ active' = IF id \in active THEN active \ {id} ELSE active \cup {id}
    /\ IF reading # None /\ reading.step # "report" /\ reading.filter = "active"
         THEN NoteChange("clients", id \notin active, id \in active)
         ELSE UNCHANGED reading
    /\ UNCHANGED <<rows, holdings, rowsMade>>

\* An account is linked, a cluster or an instance found in it; or one of them
\* is deleted with all that it holds.
Hold(a, level) ==
    /\ Change /\ level # holdings[a] /\ level <= holdings[a] + 1
    /\ holdings' = [holdings EXCEPT ![a] = level]
    /\ NoteChange("holdings", level > holdings[a], level < holdings[a])
    /\ UNCHANGED <<rows, active, rowsMade>>

AdminNext ==
    \/ \E l \in Lists, f \in {"all", "active"} : Walk(l, f)
    \/ CountRows \/ ReadPage
    \/ \E k \in {"platform", "clients", "organizations"} : BeginReport(k)
    \/ Query \/ Answered
    \/ \E l \in Lists : Create(l)
    \/ \E i \in DOMAIN rows["clients"] : DeleteClient(i) \/ Toggle(rows["clients"][i])
    \/ \E a \in ClientAccounts, level \in 0..3 : Hold(a, level)

AdminSpec == AdminInit /\ [][AdminNext]_adminVars

-----------------------------------------------------------------------------
\* When a reader has walked through the pages, a row that was there from the
\* beginning is missing only if some row left the list on the way (the rows
\* behind it moved up over the edge of a page that was read already) or one
\* came between the last total and its page (the reader was told to stop one
\* row early); and a row is shown twice only if one came.
WalkIsComplete ==
    reading # None /\ reading.step = "walked" =>
      /\ reading.start \ ToSet(reading.seen) # {} => reading.went \/ reading.late
      /\ ~IsInjective(reading.seen) => reading.came

\* What a report counts on the platform, for a client or for an organization
\* agrees, although each number is of another moment: it has no active user
\* without a user, no instance without a cluster and no cluster without an
\* account unless rows came while it was put together, and its instances, the
\* running ones and the cost differ only if some came or went.
ReportAgrees ==
    reading # None /\ reading.step = "report" =>
      \A i, j \in DOMAIN reading.report.counts :
        LET first == reading.report.counts[i]
            second == reading.report.counts[j]
        IN  /\ <<first[1], second[1]>> \in {<<"users", "active">>, <<"instances", "running">>,
                                            <<"running", "cost">>}
               /\ second[2] > first[2] => reading.report.grew
            /\ <<first[1], second[1]>> \in {<<"accounts", "clusters">>, <<"clusters", "instances">>}
               /\ first[2] = 0 /\ second[2] > 0 => reading.report.grew
            /\ <<first[1], second[1]>> \in {<<"instances", "running">>, <<"running", "cost">>}
               /\ first[2] > second[2] => reading.report.shrank

\* No row is missed or shown twice, and no numbers of a report disagree, unless
\* rows came or went at the wrong moment.
ListsAgree == WalkIsComplete /\ ReportAgrees
=============================================================================
