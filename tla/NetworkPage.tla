---------------------------- MODULE NetworkPage ----------------------------
(***************************************************************************)
(* The page of one network (app/networks/[id]/page.tsx).  It fetches the   *)
(* network, lints its configuration, and holds two tabs.  The tab that is  *)
(* open is mounted only while the page is not fetching: when a tab reports *)
(* a change, the page fetches the network anew and a skeleton takes its    *)
(* place, so the tab is unmounted and later mounted afresh.                *)
(*                                                                         *)
(* The lint belongs to the page: it reads the locations and devices, then  *)
(* posts them with the network it was started for.  `overlapped' is not in *)
(* the code: two lints were in flight together, or one failed.             *)
(***************************************************************************)
EXTENDS Screen

NetworkFresh(tab) ==
  [mounted |-> TRUE, page |-> "loading", tab |-> tab, child |-> Unmounted]

NetworkShown == ui # Unmounted /\ ui.page = "shown"

\* What a write or a read of a tab becomes when the tab is unmounted and the
\* page is not: its handler runs on and may still report a change.
Left(c) ==
  IF c.op \in {"idle", "getNetwork"} \/ ~c.mine THEN c
  ELSE IF Reads(c.op) THEN Idle
  ELSE [c EXCEPT !.arg.alive = FALSE]

LeftBut(s, next) == calls' = [t \in Slots |-> IF t = s THEN next ELSE Left(calls[t])]

\* The page is opened on one of its tabs, the one it was left on.
NetworkMount(here) ==
  /\ screen = here /\ ui = Unmounted
  /\ \E tab \in {"here", "other"} : ui' = NetworkFresh(tab)
  /\ Await("getNetwork", Nobody)
  /\ UNCHANGED <<screen, db>>

\* onLocationChanged and onDeviceChanged, called by the handler in slot s.
NetworkReload(s) ==
  /\ ui' = NetworkFresh(ui.tab)
  /\ LeftBut(s, NewCall("getNetwork", Nobody))

\* Network and peer links are fetched together and fail together.  The page
\* is shown, and with it the open tab, unless an earlier answer showed them
\* or failed: only the start of a fetch clears the error.
NetworkFetched(s, here, fresh, list, query) ==
  /\ screen = here /\ ui # Unmounted /\ Mine(s) /\ Answered(s, "getNetwork")
  /\ IF calls[s].outcome # "ok"
     THEN /\ ui' = [NetworkFresh(ui.tab) EXCEPT !.page = "error"]
          /\ LeftBut(s, Idle)
     ELSE IF ui.page # "error" /\ ui.tab = "here" /\ ui.child = Unmounted
     THEN /\ ui' = [ui EXCEPT !.page = "shown", !.child = fresh]
          /\ AwaitNext(s, list, query)
     ELSE /\ ui' = [ui EXCEPT !.page = IF @ = "error" THEN @ ELSE "shown"]
          /\ Finish(s)
  /\ UNCHANGED <<screen, db>>

\* A click on the other tab, which a dialog would cover, and back.
NetworkLeaveTab(here) ==
  /\ screen = here /\ NetworkShown /\ ui.tab = "here"
  /\ ui.child.dialogs = {}
  /\ ui' = [ui EXCEPT !.tab = "other", !.child = Unmounted]
  /\ calls' = [t \in Slots |-> Left(calls[t])]
  /\ UNCHANGED <<screen, db>>

NetworkEnterTab(here, fresh, list, query) ==
  /\ screen = here /\ NetworkShown /\ ui.tab = "other"
  /\ ui' = [ui EXCEPT !.tab = "here", !.child = fresh]
  /\ Await(list, query)
  /\ UNCHANGED <<screen, db>>

-----------------------------------------------------------------------------
(***************************************************************************)
(* The page itself, screen "network": its tabs are reduced to what they    *)
(* report.  db is the number of changes made to the network so far.        *)
(***************************************************************************)
MaxChanges == Cardinality(Items)   \* bound: changes the tabs report

LintFresh ==
  [mounted |-> TRUE, page |-> "loading", network |-> Nobody, lint |-> Nobody,
   linting |-> FALSE, overlapped |-> FALSE]

LintShown == screen = "network" /\ ui # Unmounted

LintServer(s) ==
  CASE calls[s].op \in {"getNetwork", "listDevices"} -> ListReply
    [] calls[s].op = "lintNetworkConfig" -> {Reply(db, "ok", calls[s].arg)}

LintMount ==
  /\ screen = "network" /\ ui = Unmounted
  /\ ui' = LintFresh
  /\ Await("getNetwork", Nobody)
  /\ UNCHANGED <<screen, db>>

\* A tab, or the handler of a tab that is gone, wrote something.
LintChanged ==
  /\ LintShown /\ db < MaxChanges
  /\ db' = db + 1
  /\ ui' = [ui EXCEPT !.page = "loading"]
  /\ Await("getNetwork", Nobody)
  /\ UNCHANGED screen

Linting == InFlight("listDevices") \cup InFlight("lintNetworkConfig")

\* Not the code: an effect that runs for the first network only.
LintFetchedOnce(s) ==
  /\ LintShown /\ Mine(s) /\ Answered(s, "getNetwork")
  /\ IF calls[s].outcome = "ok" /\ ui.network = Nobody
     THEN /\ ui' = [ui EXCEPT !.page = "shown", !.network = calls[s].data,
                              !.linting = TRUE, !.overlapped = Linting # {}]
          /\ AwaitNext(s, "listDevices", calls[s].data)
     ELSE ui' = [ui EXCEPT !.page = "shown"] /\ Finish(s)
  /\ UNCHANGED <<screen, db>>

\* A network that arrives, be it the same, starts a lint.
LintFetched(s) ==
  /\ LintShown /\ Mine(s) /\ Answered(s, "getNetwork")
  /\ IF calls[s].outcome = "ok"
     THEN /\ ui' = [ui EXCEPT !.page = IF @ = "error" THEN @ ELSE "shown",
                              !.network = calls[s].data, !.linting = TRUE,
                              !.overlapped = Linting # {}]
          /\ AwaitNext(s, "listDevices", calls[s].data)
     ELSE /\ ui' = [ui EXCEPT !.page = "error"]
          /\ Finish(s)
  /\ UNCHANGED <<screen, db>>

\* Refresh, disabled while a lint is known to be in flight.
LintRefresh ==
  /\ LintShown /\ ui.page = "shown" /\ ~ui.linting
  /\ ui' = [ui EXCEPT !.linting = TRUE, !.overlapped = Linting # {}]
  /\ Await("listDevices", ui.network)
  /\ UNCHANGED <<screen, db>>

LintFailed(s) ==
  /\ ui' = [ui EXCEPT !.linting = FALSE, !.overlapped = TRUE]
  /\ Finish(s)

LintRead(s) ==
  /\ LintShown /\ Mine(s) /\ Answered(s, "listDevices")
  /\ IF calls[s].outcome = "ok"
     THEN /\ AwaitNext(s, "lintNetworkConfig", calls[s].data)
          /\ UNCHANGED ui
     ELSE LintFailed(s)
  /\ UNCHANGED <<screen, db>>

LintAnswered(s) ==
  /\ LintShown /\ Mine(s) /\ Answered(s, "lintNetworkConfig")
  /\ IF calls[s].outcome = "ok"
     THEN /\ ui' = [ui EXCEPT !.linting = FALSE, !.lint = calls[s].data]
          /\ Finish(s)
     ELSE LintFailed(s)
  /\ UNCHANGED <<screen, db>>

LintStep == LintMount \/ LintChanged \/ LintRefresh
LintHandle(s) == LintFetched(s) \/ LintRead(s) \/ LintAnswered(s)
=============================================================================
