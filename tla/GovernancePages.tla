--------------------------- MODULE GovernancePages --------------------------
(***************************************************************************)
(* pages/EACapabilityMapPage.tsx, a tree of capabilities with logs linked to  *)
(* them, and pages/ProcessGovernancePage.tsx, entries that are edited in      *)
(* place and promoted.  Capabilities and entries are items, logs Projects.    *)
(***************************************************************************)
EXTENDS Spa

Capability == [parent : Items \cup {None}, links : SUBSET Projects]

\* Places of Promotion: draft, review, approved, published, retired.
EntryStates == 0..4

Entry == [name : 0..1, version : 0..1, status : EntryStates]

\* "naming" is the parent a new capability is named under, itself None for a root.
CapabilitiesUi == [kind : {"capabilities"}, loading : BOOLEAN,
                   rows : [Items -> Capability \cup {None}],
                   naming : {<<>>} \cup {<<p>> : p \in Items \cup {None}},
                   linking : {<<>>} \cup (Items \X SUBSET Projects)]

EntriesUi == [kind : {"entries"}, loading : BOOLEAN, rows : [Items -> Entry \cup {None}],
              history : [Items -> EntryStates \cup {None}]]

GovernanceUi == CapabilitiesUi \cup EntriesUi

Absent == [i \in Items |-> None]

CapabilitiesInit ==
  /\ page = "governance"
  /\ db = [i \in Items |-> IF i \in Existing THEN [parent |-> None, links |-> {}] ELSE None]
  /\ ui = [kind |-> "capabilities", loading |-> TRUE, rows |-> Absent,
           naming |-> <<>>, linking |-> <<>>]
  /\ calls = {Request("listCapabilities", None, None, {})}

EntriesInit ==
  /\ page = "governance"
  /\ db = [i \in Items |-> IF i \in Existing THEN [name |-> 0, version |-> 0, status |-> 0]
                           ELSE None]
  /\ ui = [kind |-> "entries", loading |-> TRUE, rows |-> Absent, history |-> Absent]
  /\ calls = {Request("listEntries", None, None, {})}

Capabilities == ui.kind = "capabilities"

CapabilityShown(i) == Capabilities /\ ~ui.loading /\ ui.rows[i] # None

\* reloadCaps; a list that fails to load leaves the rows that were there.
CapabilitiesLoaded(c) ==
  /\ ui' = [ui EXCEPT !.loading = FALSE, !.rows = IF c.stage = "ok" THEN c.ans.rows ELSE @]
  /\ Done(c) /\ Handling

\* A root's button is on the page, a child's on its parent.
NameCapability(parent) ==
  /\ Capabilities /\ ui.naming = <<>> /\ ui.linking = <<>>
  /\ parent # None => CapabilityShown(parent)
  /\ ui' = [ui EXCEPT !.naming = <<parent>>] /\ Local

CloseNaming ==
  /\ Capabilities /\ ui.naming # <<>> /\ ui' = [ui EXCEPT !.naming = <<>>] /\ Local

\* submitName; nothing keeps Enter from being pressed again.
SubmitName ==
  /\ Capabilities /\ ui.naming # <<>>
  /\ UNCHANGED ui /\ Send("createCapability", ui.naming[1], None) /\ Calling

DeleteCapability(i) ==
  /\ CapabilityShown(i) /\ ui.naming = <<>> /\ ui.linking = <<>>
  /\ UNCHANGED ui /\ Send("deleteCapability", i, None) /\ Calling

\* The capability as it is shown when the dialog opens.
OpenLinking(i) ==
  /\ CapabilityShown(i) /\ ui.naming = <<>> /\ ui.linking = <<>>
  /\ ui' = [ui EXCEPT !.linking = <<i, ui.rows[i].links>>] /\ Local

CloseLinking ==
  /\ Capabilities /\ ui.linking # <<>> /\ ui' = [ui EXCEPT !.linking = <<>>] /\ Local

\* The whole list of links is sent.
LinkLog(log) ==
  /\ Capabilities /\ ui.linking # <<>> /\ log \notin ui.linking[2]
  /\ UNCHANGED ui
  /\ Send("linkLog", ui.linking[1], ui.linking[2] \cup {log}) /\ Calling

UnlinkLog(i, log) ==
  /\ CapabilityShown(i) /\ ui.naming = <<>> /\ ui.linking = <<>>
  /\ log \in ui.rows[i].links
  /\ UNCHANGED ui /\ Send("unlinkLog", i, ui.rows[i].links \ {log}) /\ Calling

\* A change that was made closes its dialog and loads the list again.
CapabilityChanged(c) ==
  /\ IF c.stage = "failed" THEN UNCHANGED ui /\ Done(c)
     ELSE /\ ui' = [ui EXCEPT !.naming = IF c.op = "createCapability" THEN <<>> ELSE @,
                              !.linking = IF c.op = "linkLog" THEN <<>> ELSE @]
          /\ Then(c, "listCapabilities", None, None)
  /\ Handling

EntryShown(i) == ui.kind = "entries" /\ ~ui.loading /\ ui.rows[i] # None

EntriesLoaded(c) ==
  /\ ui' = [ui EXCEPT !.loading = FALSE, !.rows = IF c.stage = "ok" THEN c.ans.rows ELSE @]
  /\ Done(c) /\ Handling

AddEntry ==
  /\ ui.kind = "entries" /\ UNCHANGED ui /\ Send("createEntry", None, None) /\ Calling

\* Every key pressed sends the whole entry as it is shown, changed in one field.
UpdateField(i, field) ==
  LET e == ui.rows[i]
  IN  /\ EntryShown(i)
      /\ UNCHANGED ui
      /\ Send("updateEntry", i, [field |-> field, entry |-> [e EXCEPT ![field] = 1 - @]])
      /\ Calling

FieldUpdated(c) ==
  /\ ui' = IF c.stage = "ok" /\ ui.rows[c.on] # None
           THEN [ui EXCEPT !.rows[c.on][c.arg.field] = c.arg.entry[c.arg.field]]
           ELSE ui
  /\ Done(c) /\ Handling

\* Once confirmed, to the state after the one shown.
Promote(i) ==
  /\ EntryShown(i) /\ ui.rows[i].status < 4
  /\ UNCHANGED ui /\ Send("promoteEntry", i, [status |-> ui.rows[i].status + 1]) /\ Calling

EntryChanged(c) ==
  /\ IF c.stage = "failed" THEN UNCHANGED ui /\ Done(c)
     ELSE ui' = [ui EXCEPT !.loading = TRUE] /\ Then(c, "listEntries", None, None)
  /\ Handling

ShowHistory(i) ==
  /\ EntryShown(i)
  /\ IF ui.history[i] # None
     THEN ui' = [ui EXCEPT !.history[i] = None] /\ UNCHANGED <<calls, clash>>
     ELSE UNCHANGED ui /\ Send("entryHistory", i, None)
  /\ Calling

HistoryShown(c) ==
  /\ ui' = IF c.stage = "ok" THEN [ui EXCEPT !.history[c.on] = c.ans.status] ELSE ui
  /\ Done(c) /\ Handling

----------------------------------------------------------------------------

Unused == {i \in Items : db[i] = None}

\* Deleting a capability deletes what is below it.
Below(i) ==
  LET children(S) == {j \in Items : db[j] # None /\ db[j].parent \in S}
  IN  {i} \cup children({i}) \cup children(children({i}))

CapabilitiesServer(c) ==
  \/ c.op = "listCapabilities" /\ Serve(c, Outcome(db, [rows |-> db]))
  \/ /\ c.op = "createCapability"
     /\ IF c.on # None /\ db[c.on] = None THEN Serve(c, NotFound)
        ELSE \E i \in Unused :
               Serve(c, Outcome([db EXCEPT ![i] = [parent |-> c.on, links |-> {}]], Ok))
  \/ /\ c.op \in {"linkLog", "unlinkLog"}
     /\ Serve(c, IF db[c.on] = None THEN NotFound
                 ELSE Outcome([db EXCEPT ![c.on].links = c.arg], Ok))
  \/ /\ c.op = "deleteCapability"
     /\ Serve(c, IF db[c.on] = None THEN NotFound
                 ELSE Outcome([i \in Items |-> IF i \in Below(c.on) THEN None ELSE db[i]],
                              Ok))

EntriesServer(c) ==
  \/ c.op = "listEntries" /\ Serve(c, Outcome(db, [rows |-> db]))
  \/ /\ c.op = "createEntry"
     /\ \E i \in Unused :
          Serve(c, Outcome([db EXCEPT ![i] = [name |-> 0, version |-> 0, status |-> 0]], Ok))
  \/ /\ c.op = "updateEntry"
     /\ Serve(c, Outcome([db EXCEPT ![c.on].name = c.arg.entry.name,
                                    ![c.on].version = c.arg.entry.version], Ok))
  \/ /\ c.op = "promoteEntry" /\ Serve(c, Outcome([db EXCEPT ![c.on].status = c.arg.status], Ok))
  \/ /\ c.op = "entryHistory" /\ Serve(c, Outcome(db, [status |-> db[c.on].status]))

GovernanceClicks ==
  \/ \E p \in Items \cup {None} : NameCapability(p)
  \/ CloseNaming \/ SubmitName \/ CloseLinking \/ AddEntry
  \/ \E i \in Items : \/ DeleteCapability(i) \/ OpenLinking(i) \/ Promote(i)
                      \/ ShowHistory(i)
                      \/ \E field \in {"name", "version"} : UpdateField(i, field)
                      \/ \E log \in Projects : UnlinkLog(i, log)
  \/ \E log \in Projects : LinkLog(log)

GovernanceAnswers ==
  \/ \E c \in Settled("listCapabilities") : CapabilitiesLoaded(c)
  \/ \E op \in {"createCapability", "deleteCapability", "linkLog", "unlinkLog"} :
       \E c \in Settled(op) : CapabilityChanged(c)
  \/ \E c \in Settled("listEntries") : EntriesLoaded(c)
  \/ \E c \in Settled("updateEntry") : FieldUpdated(c)
  \/ \E op \in {"createEntry", "promoteEntry"} : \E c \in Settled(op) : EntryChanged(c)
  \/ \E c \in Settled("entryHistory") : HistoryShown(c)

GovernanceNext ==
  /\ page = "governance"
  /\ \/ GovernanceClicks \/ GovernanceAnswers
     \/ \E c \in calls : IF Capabilities THEN CapabilitiesServer(c) ELSE EntriesServer(c)

----------------------------------------------------------------------------
(***************************************************************************)
(* components/Governance/ChangeRequestsPanel.tsx, as an administrator of one  *)
(* project sees it.  A row is the status of a request: 0 none, 1 draft,      *)
(* 2 submitted, 3 approved, 4 rejected; the filter is a status, 0 all.       *)
(***************************************************************************)

Statuses == 1..4

ChangesUi == [rows : [Items -> 0..4], filter : 0..4, loading : BOOLEAN, error : BOOLEAN,
              form : BOOLEAN, creating : BOOLEAN, busy : Items \cup {None},
              reject : Items \cup {None}]

ChangesInit ==
  /\ page = "changes"
  /\ db = FirstRows
  /\ ui = [rows |-> NoRows, filter |-> 0, loading |-> TRUE, error |-> FALSE,
           form |-> FALSE, creating |-> FALSE, busy |-> None, reject |-> None]
  /\ calls = {Request("loadChanges", None, [status |-> 0], {})}

NoChangeModal == ~ui.form /\ ui.reject = None

ChangesListed == ~ui.loading /\ ~ui.error /\ ui.rows # NoRows

ChangeShown(r) == ChangesListed /\ NoChangeModal /\ ui.rows[r] # 0 /\ ui.busy # r

LoadChanges(s) ==
  /\ ui' = [ui EXCEPT !.filter = s, !.loading = TRUE, !.error = FALSE]
  /\ Send("loadChanges", None, [status |-> s])
  /\ Calling

\* The select is there only for a list that is not empty.
FilterChanges(s) ==
  /\ ~ui.loading /\ ui.rows # NoRows /\ NoChangeModal /\ s # ui.filter
  /\ LoadChanges(s)

RetryChanges == ui.error /\ ~ui.loading /\ NoChangeModal /\ LoadChanges(ui.filter)

ChangesLoaded(c) ==
  /\ ui' = [ui EXCEPT !.loading = FALSE,
                      !.error = @ \/ c.stage = "failed",
                      !.rows = IF c.stage = "ok" THEN c.ans.rows ELSE @]
  /\ Done(c) /\ Handling

OpenChangeForm ==
  /\ NoChangeModal
  /\ ui' = [ui EXCEPT !.form = TRUE]
  /\ Local

CloseChangeModal ==
  /\ ~NoChangeModal
  /\ ui' = [ui EXCEPT !.form = FALSE, !.reject = None]
  /\ Local

CreateChange ==
  /\ ui.form /\ ~ui.creating
  /\ ui' = [ui EXCEPT !.creating = TRUE]
  /\ Send("createChange", None, None)
  /\ Calling

ChangeCreated(c) ==
  /\ ui' = IF c.stage = "ok"
           THEN [ui EXCEPT !.creating = FALSE, !.form = FALSE, !.rows[c.ans.id] = 1]
           ELSE [ui EXCEPT !.creating = FALSE]
  /\ Done(c) /\ Handling

\* handleSubmit of a draft.
SubmitChange(r) ==
  /\ ChangeShown(r) /\ ui.rows[r] = 1
  /\ ui' = [ui EXCEPT !.busy = r]
  /\ Send("submitChange", r, None)
  /\ Calling

ApproveChange(r) ==
  /\ ChangeShown(r) /\ ui.rows[r] = 2
  /\ ui' = [ui EXCEPT !.busy = r]
  /\ Send("approveChange", r, None)
  /\ Calling

\* onReject opens a modal, which asks for the reason.
AskReject(r) ==
  /\ ChangeShown(r) /\ ui.rows[r] = 2
  /\ ui' = [ui EXCEPT !.reject = r]
  /\ Local

\* handleConfirmReject
ConfirmReject ==
  /\ ui.reject # None /\ ui.busy = None
  /\ ui' = [ui EXCEPT !.busy = ui.reject]
  /\ Send("rejectChange", ui.reject, None)
  /\ Calling

\* Mutant: a failed call leaves the row busy.
ChangeActedStillBusy(c) ==
  /\ ui' = IF c.stage = "failed" THEN ui
           ELSE [ui EXCEPT !.busy = None,
                           !.reject = IF c.op = "rejectChange" THEN None ELSE @,
                           !.rows[c.on] = IF @ # 0 THEN c.ans.row ELSE @]
  /\ Done(c) /\ Handling

\* The row is replaced if it is listed still.  Any answer ends the one "busy".
ChangeActed(c) ==
  /\ ui' = [ui EXCEPT
       !.busy = None,
       !.reject = IF c.op = "rejectChange" /\ c.stage = "ok" THEN None ELSE @,
       !.rows[c.on] = IF c.stage = "ok" /\ @ # 0 THEN c.ans.row ELSE @]
  /\ Done(c) /\ Handling

----------------------------------------------------------------------------

MoveChange(r, s) == {Outcome([db EXCEPT ![r] = s], [row |-> s])}

\* api/change_requests.py; reject takes a request in any status.
ChangesServer(c) ==
  LET r == c.on
  IN  CASE c.op = "loadChanges" ->
             {Outcome(db, [rows |-> [i \in Items |->
                             IF c.arg.status \in {0, db[i]} THEN db[i] ELSE 0]])}
        [] c.op = "createChange" ->
             {Outcome([db EXCEPT ![i] = 1], [id |-> i]) : i \in {j \in Items : db[j] = 0}}
        [] c.op = "submitChange" -> IF db[r] = 1 THEN MoveChange(r, 2) ELSE {NotFound}
        [] c.op = "approveChange" -> IF db[r] = 2 THEN MoveChange(r, 3) ELSE {NotFound}
        [] c.op = "rejectChange" -> MoveChange(r, 4)

ChangesClicks ==
  \/ \E s \in 0..4 : FilterChanges(s)
  \/ RetryChanges \/ OpenChangeForm \/ CloseChangeModal \/ CreateChange \/ ConfirmReject
  \/ \E r \in Items : SubmitChange(r) \/ ApproveChange(r) \/ AskReject(r)

ChangesAnswers ==
  \/ \E c \in Settled("loadChanges") : ChangesLoaded(c)
  \/ \E c \in Settled("createChange") : ChangeCreated(c)
  \/ \E c \in Settled("submitChange") \cup Settled("approveChange")
               \cup Settled("rejectChange") : ChangeActed(c)

ChangesNext ==
  /\ page = "changes"
  /\ \/ ChangesClicks
     \/ ChangesAnswers
     \/ \E c \in calls : \E o \in ChangesServer(c) : Serve(c, o)

=============================================================================
