------------------------------ MODULE PeerLinks ------------------------------
(***************************************************************************)
(* The connections of one network (app/networks/[id]/connections/page.tsx) *)
(* for one pair of devices, Items; link i is the one from device i to the  *)
(* other.  A link carries one of MaxProperties property sets, or is absent *)
(* (0).  The editor holds a draft for each direction; saving an empty one  *)
(* deletes the link.                                                       *)
(*                                                                         *)
(* An effect resets both drafts whenever the links or the selection change *)
(* identity: after every save that succeeds, in either direction.          *)
(*                                                                         *)
(* `uncertain' is not in the code, as in NetworksPage.                     *)
(***************************************************************************)
EXTENDS Screen

MaxProperties == 1   \* bound: property sets told apart

NoLinks == [i \in Items |-> 0]

LinksFresh ==
  [mounted |-> TRUE, page |-> "loading", links |-> NoLinks, draft |-> NoLinks,
   active |-> Nobody, selected |-> FALSE, saving |-> Nobody,
   uncertain |-> ~Quiet]

LinksShown == screen = "connections" /\ ui # Unmounted

\* What can be clicked: a device of the mesh, the line of the pair, Refresh,
\* and, for a selected pair, the two editors.
LinksMesh          == LinksShown /\ ui.page = "shown"
LinksEditor(i)     == LinksMesh /\ ui.selected
LinksSaveEnabled(i) == LinksEditor(i) /\ ui.saving # i

\* A draft is a property set, a custom row with a key and no value, or a
\* keepalive that is no number.
ValueMissing == MaxProperties + 1
NotANumber   == MaxProperties + 2
LinksDrafts  == 0..NotANumber

LinksServer(s) ==
  LET c == calls[s] IN
  CASE c.op = "listDevicePeerLinks" -> ListReply
    [] c.op = "upsertDevicePeerLink" ->
         IF c.arg.draft = ValueMissing THEN {Reply(db, "invalid", Nobody)}
         ELSE {Reply([db EXCEPT ![c.arg.id] = c.arg.draft], "ok", c.arg.draft)}
    [] c.op = "deleteDevicePeerLink" ->
         {Reply([db EXCEPT ![c.arg.id] = 0],
                IF db[c.arg.id] = 0 THEN "failed" ELSE "ok", 0)}

-----------------------------------------------------------------------------
LinksMount ==
  /\ screen = "connections" /\ ui = Unmounted
  /\ ui' = LinksFresh
  /\ Await("listDevicePeerLinks", Nobody)
  /\ UNCHANGED <<screen, db>>

\* Network, devices and links are fetched together and fail together; the
\* selection outlives the skeleton.
LinksRefresh ==
  /\ LinksMesh
  /\ ui' = [ui EXCEPT !.page = "loading", !.uncertain = ~Quiet]
  /\ Await("listDevicePeerLinks", Nobody)
  /\ UNCHANGED <<screen, db>>

\* The effect on [links, selectedPair].
LinksReset(links, selected) == IF selected THEN links ELSE NoLinks

\* A page that failed to load offers only the way back.
LinksFetched(s) ==
  /\ LinksShown /\ Mine(s) /\ Answered(s, "listDevicePeerLinks")
  /\ IF calls[s].outcome = "ok"
     THEN ui' = [ui EXCEPT !.page = "shown", !.links = calls[s].data,
                           !.draft = LinksReset(calls[s].data, ui.selected)]
     ELSE ui' = [ui EXCEPT !.page = "error"]
  /\ Finish(s)
  /\ UNCHANGED <<screen, db>>

\* selectPair, from the line between the two devices or from the second one.
LinksSelect ==
  ui' = [ui EXCEPT !.selected = TRUE, !.active = Nobody, !.draft = ui.links]

LinksPickLine ==
  /\ LinksMesh
  /\ LinksSelect
  /\ UNCHANGED <<screen, calls, db>>

LinksPickDevice(i) ==
  /\ LinksMesh
  /\ \/ /\ ui.active = Nobody
        /\ ui' = [ui EXCEPT !.active = i, !.selected = FALSE,
                            !.draft = NoLinks]
     \/ /\ ui.active = i
        /\ ui' = [ui EXCEPT !.active = Nobody]
     \/ /\ ui.active \notin {Nobody, i}
        /\ LinksSelect
  /\ UNCHANGED <<screen, calls, db>>

-----------------------------------------------------------------------------
\* The keepalive and the custom rows of one direction; both stay editable
\* while that direction is being saved.
LinksEdit(i, draft) ==
  /\ LinksEditor(i)
  /\ ui' = [ui EXCEPT !.draft[i] = draft]
  /\ UNCHANGED <<screen, calls, db>>

\* Reset.
LinksRevert(i) ==
  /\ LinksSaveEnabled(i)
  /\ ui' = [ui EXCEPT !.draft[i] = ui.links[i]]
  /\ UNCHANGED <<screen, calls, db>>

\* saveLink posts the draft, or deletes the link when the draft is empty; an
\* invalid draft, and an empty one where there is no link, are turned down.
LinksSave(i) ==
  /\ LinksSaveEnabled(i)
  /\ ui.draft[i] # NotANumber
  /\ ui.draft[i] = 0 => ui.links[i] # 0
  /\ ui' = [ui EXCEPT !.saving = i,
                      !.uncertain = @ \/ Writing # {}]
  /\ Await(IF ui.draft[i] = 0 THEN "deleteDevicePeerLink"
           ELSE "upsertDevicePeerLink", [id |-> i, draft |-> ui.draft[i]])
  /\ UNCHANGED <<screen, db>>

\* Whichever save ends first re-enables both directions.
LinksSaved(s) ==
  /\ LinksShown /\ Mine(s)
  /\ Answered(s, "upsertDevicePeerLink") \/ Answered(s, "deleteDevicePeerLink")
  /\ LET links == [ui.links EXCEPT ![calls[s].arg.id] = calls[s].data] IN
     IF calls[s].outcome = "ok"
     THEN ui' = [ui EXCEPT !.links = links, !.saving = Nobody,
                           !.draft = LinksReset(links, ui.selected)]
     ELSE ui' = [ui EXCEPT !.saving = Nobody, !.uncertain = TRUE]
  /\ Finish(s)
  /\ UNCHANGED <<screen, db>>

LinksStep ==
  \/ LinksMount \/ LinksRefresh \/ LinksPickLine
  \/ \E i \in Items :
       \/ LinksPickDevice(i) \/ LinksRevert(i) \/ LinksSave(i)
       \/ \E d \in LinksDrafts : LinksEdit(i, d)

LinksHandle(s) == LinksFetched(s) \/ LinksSaved(s)
=============================================================================
