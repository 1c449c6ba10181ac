------------------------------ MODULE AuditPage ------------------------------
(***************************************************************************)
(* The audit page (app/audit/page.tsx, components/audit-filters.tsx).  Any *)
(* change of a filter or of the page number starts a fetch; answers are    *)
(* applied in the order they arrive.  An error, be it of an export, takes  *)
(* the place of the whole page until the next fetch starts.                *)
(*                                                                         *)
(* A query is a filter, one of Items or none (Nobody), and a page number.  *)
(* `overlapped' is not in the code: fetches were in flight together.       *)
(***************************************************************************)
EXTENDS Screen

MaxPage == 2   \* bound: pages of events without a filter; with one, one page

LastPage(q) == IF q.filter = Nobody THEN MaxPage ELSE 1
NoFilters   == [filter |-> Nobody, page |-> 1]

AuditFresh ==
  [mounted |-> TRUE, filters |-> NoFilters, auditData |-> Nobody,
   loading |-> TRUE, error |-> FALSE, showFilters |-> FALSE,
   exporting |-> FALSE, overlapped |-> FALSE]

AuditShown   == screen = "audit" /\ ui # Unmounted
AuditContent == AuditShown /\ ~ui.error /\ ui.auditData # Nobody
AuditFailed  == AuditShown /\ ui.error /\ ~(ui.loading /\ ui.auditData = Nobody)

\* What can be clicked.
AuditFiltersOpen     == AuditContent /\ ui.showFilters
AuditClearEnabled    == AuditFiltersOpen /\ ui.filters.filter # Nobody
AuditRefreshEnabled  == AuditContent /\ ~ui.loading
AuditExportEnabled   == AuditContent /\ ~ui.exporting
AuditPageLinks       == IF AuditContent
                        THEN {ui.auditData.page - 1, ui.auditData.page + 1}
                               \cap 1..LastPage(ui.auditData)
                        ELSE {}

AuditServer(s) == {Reply(db, "ok", calls[s].arg)}

-----------------------------------------------------------------------------
\* refreshAuditEvents, with the filters the render that starts it holds.
AuditFetch(filters) ==
  /\ ui' = [ui EXCEPT !.filters = filters, !.loading = TRUE, !.error = FALSE,
                      !.overlapped = InFlight("getAuditEvents") # {}]
  /\ Await("getAuditEvents", filters)
  /\ UNCHANGED <<screen, db>>

AuditMount ==
  /\ screen = "audit" /\ ui = Unmounted
  /\ ui' = AuditFresh
  /\ Await("getAuditEvents", NoFilters)
  /\ UNCHANGED <<screen, db>>

AuditFetched(s) ==
  /\ AuditShown /\ Mine(s) /\ Answered(s, "getAuditEvents")
  /\ IF calls[s].outcome = "ok"
     THEN ui' = [ui EXCEPT !.auditData = calls[s].data, !.loading = FALSE]
     ELSE ui' = [ui EXCEPT !.error = TRUE, !.loading = FALSE]
  /\ Finish(s)
  /\ UNCHANGED <<screen, db>>

AuditToggleFilters ==
  /\ AuditContent
  /\ ui' = [ui EXCEPT !.showFilters = ~@]
  /\ UNCHANGED <<screen, calls, db>>

\* Not the code: the filter changes and nothing is fetched.
AuditFilterOnly(f) ==
  /\ AuditFiltersOpen /\ f # ui.filters.filter
  /\ ui' = [ui EXCEPT !.filters = [filter |-> f, page |-> 1]]
  /\ UNCHANGED <<screen, calls, db>>

\* handleFilterChange goes back to the first page, unless it is the page
\* that changes: the number next to that of the events shown.
AuditFilterBy(f) ==
  /\ AuditFiltersOpen /\ f # ui.filters.filter
  /\ AuditFetch([filter |-> f, page |-> 1])

AuditTurnPage(p) ==
  /\ p \in AuditPageLinks
  /\ AuditFetch([ui.filters EXCEPT !.page = p])

AuditClearFilters == AuditClearEnabled /\ AuditFetch(NoFilters)
AuditRefresh      == AuditRefreshEnabled /\ AuditFetch(ui.filters)
AuditTryAgain     == AuditFailed /\ AuditFetch(ui.filters)

AuditExport ==
  /\ AuditExportEnabled
  /\ ui' = [ui EXCEPT !.exporting = TRUE]
  /\ Await("exportAuditEvents", ui.filters)
  /\ UNCHANGED <<screen, db>>

\* Not the code: no finally block.
AuditExportedOnly(s) ==
  /\ AuditShown /\ Mine(s) /\ Answered(s, "exportAuditEvents")
  /\ ui' = [ui EXCEPT !.exporting = calls[s].outcome # "ok",
                      !.error = @ \/ calls[s].outcome # "ok"]
  /\ Finish(s)
  /\ UNCHANGED <<screen, db>>

AuditExported(s) ==
  /\ AuditShown /\ Mine(s) /\ Answered(s, "exportAuditEvents")
  /\ ui' = [ui EXCEPT !.exporting = FALSE,
                      !.error = @ \/ calls[s].outcome # "ok"]
  /\ Finish(s)
  /\ UNCHANGED <<screen, db>>

AuditStep ==
  \/ AuditMount \/ AuditToggleFilters \/ AuditClearFilters
  \/ AuditRefresh \/ AuditTryAgain \/ AuditExport
  \/ \E f \in Items \cup {Nobody} : AuditFilterBy(f)
  \/ \E p \in 1..MaxPage : AuditTurnPage(p)

AuditHandle(s) == AuditFetched(s) \/ AuditExported(s)
=============================================================================
