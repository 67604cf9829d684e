--------------------------- MODULE ConnectorPages ---------------------------
(***************************************************************************)
(* pages/ConnectorsPage.tsx with components/Connectors/ConnectorForm.tsx:     *)
(* every connector of the user, and a form in three steps to create one.     *)
(* What a sync does later is not seen by the page.                           *)
(***************************************************************************)
EXTENDS Spa

FormSteps == {"source", "connect", "finish"}

ConnectorsUi == [rows : [Items -> Nat], loading : BOOLEAN, form : FormSteps \cup {"closed"}]

ConnectorsInit ==
  /\ page = "connectors"
  /\ db = FirstRows
  /\ ui = [rows |-> NoRows, loading |-> TRUE, form |-> "closed"]
  /\ calls = {Request("loadConnectors", None, None, {})}

ConnectorShown(k) == ui.rows[k] # 0 /\ ~ui.loading /\ ui.form = "closed"

\* loadConnectors; its spinner takes the form away, and a save closes it.
ConnectorsLoaded(c) ==
  /\ ui' = [ui EXCEPT !.loading = FALSE,
                      !.form = IF c.arg = "save" THEN "closed" ELSE @,
                      !.rows = IF c.stage = "ok" THEN c.ans.rows ELSE @]
  /\ Done(c) /\ Handling

OpenConnectorForm ==
  /\ ui.form = "closed" /\ ~ui.loading
  /\ ui' = [ui EXCEPT !.form = "source"]
  /\ Local

\* Cancel, also by Escape, in any step.
CloseConnectorForm ==
  /\ ui.form # "closed" /\ ~ui.loading
  /\ ui' = [ui EXCEPT !.form = "closed"]
  /\ Local

\* Mutant: Next is offered in the last step too.
StepConnectorFormOn(to) ==
  /\ ~ui.loading /\ ui.form \in FormSteps
  /\ ui' = [ui EXCEPT !.form = IF @ = "finish" THEN "done" ELSE to]
  /\ Local

\* goToConnect and the buttons Next and Back.  The test of a connector that
\* is not saved yet is disabled.
StepConnectorForm(to) ==
  /\ ~ui.loading
  /\ <<ui.form, to>> \in {<<"source", "connect">>, <<"connect", "finish">>,
                          <<"finish", "connect">>, <<"connect", "source">>}
  /\ ui' = [ui EXCEPT !.form = to]
  /\ Local

\* handleSave; no save is kept from starting while another is under way.
SaveConnector ==
  /\ ui.form = "finish" /\ ~ui.loading
  /\ Send("createConnector", None, None)
  /\ UNCHANGED ui /\ Calling

\* handleCreateConnector waits for the list before it closes the form; the
\* form that comes back after the spinner starts at its first step.
ConnectorSaved(c) ==
  /\ IF c.stage = "ok"
     THEN /\ ui' = [ui EXCEPT !.loading = TRUE,
                              !.form = IF @ = "closed" THEN @ ELSE "source"]
          /\ Then(c, "loadConnectors", None, "save")
     ELSE UNCHANGED ui /\ Done(c)
  /\ Handling

\* handleTest and handleSync: a notification.
CheckConnector(op, k) ==
  /\ ConnectorShown(k)
  /\ Send(op, k, None)
  /\ UNCHANGED ui /\ Calling

ConnectorChecked(c) == UNCHANGED ui /\ Done(c) /\ Handling

DeleteConnector(k) ==
  /\ ConnectorShown(k)
  /\ Send("deleteConnector", k, None)
  /\ UNCHANGED ui /\ Calling

ConnectorDeleted(c) ==
  /\ ui' = IF c.stage = "ok" THEN [ui EXCEPT !.rows[c.on] = 0] ELSE ui
  /\ Done(c) /\ Handling

----------------------------------------------------------------------------

\* api/connectors.py; a sync is left to a worker.
ConnectorsServer(c) ==
  CASE c.op = "loadConnectors" -> {Outcome(db, [rows |-> db])}
    [] c.op = "createConnector" ->
         {Outcome([db EXCEPT ![i] = 1], Ok) : i \in {j \in Items : db[j] = 0}}
    [] OTHER ->
         {IF db[c.on] = 0 THEN NotFound
          ELSE Outcome(IF c.op = "deleteConnector" THEN [db EXCEPT ![c.on] = 0] ELSE db, Ok)}

ConnectorsClicks ==
  \/ OpenConnectorForm \/ CloseConnectorForm \/ SaveConnector
  \/ \E to \in FormSteps : StepConnectorForm(to)
  \/ \E k \in Items : DeleteConnector(k)
  \/ \E k \in Items : \E op \in {"testConnector", "syncConnector"} : CheckConnector(op, k)

ConnectorsAnswers ==
  \/ \E c \in Settled("loadConnectors") : ConnectorsLoaded(c)
  \/ \E c \in Settled("createConnector") : ConnectorSaved(c)
  \/ \E c \in Settled("testConnector") \cup Settled("syncConnector") : ConnectorChecked(c)
  \/ \E c \in Settled("deleteConnector") : ConnectorDeleted(c)

ConnectorsNext ==
  /\ page = "connectors"
  /\ \/ ConnectorsClicks
     \/ ConnectorsAnswers
     \/ \E c \in calls : \E o \in ConnectorsServer(c) : Serve(c, o)

----------------------------------------------------------------------------
(***************************************************************************)
(* What is typed into components/Connectors/ConnectorForm.tsx and its panels: *)
(* one draft serves every source, so changing the source must not leave       *)
(* another one's name or port behind, and the configuration that is sent is   *)
(* put together from what the panel of the source shows.                      *)
(***************************************************************************)

Databases == {"postgresql", "mysql", "sqlserver", "oracle"}

\* Sources with a panel and fields of their own.
OwnPanels == {"csv_watch", "api_endpoint", "jira", "github", "odoo", "zendesk", "shopify"}

\* Sources whose panels write into one bag of settings, erpConfig.
Bagged ==
  {"sap", "salesforce", "servicenow", "snowflake", "bigquery", "workday", "coupa", "ariba",
   "oracle_fusion"}

Sources == Databases \cup OwnPanels \cup Bagged

\* The columns of the others are known.
ManualMapped ==
  Databases \cup {"snowflake", "bigquery", "csv_watch", "api_endpoint", "sap"}

\* Bound: the sources the user picks, two of each kind that share their fields.
Picked == {"postgresql", "mysql", "odoo", "sap", "salesforce"}

SapModes == {"odata", "change_documents", "rfc"}

BagKeys ==
  {"base_url", "instance_url", "ashost", "password", "client_secret", "api_key", "query"}

\* The settings that the panel of a source offers.
KeysOf(type, mode) ==
  CASE type = "sap" -> {"password", IF mode = "rfc" THEN "ashost" ELSE "base_url"}
    [] type \in {"salesforce", "servicenow"} -> {"instance_url", "password"}
    [] type = "snowflake" -> {"password", "query"}
    [] type = "bigquery" -> {"query"}
    [] type = "workday" -> {"base_url", "client_secret"}
    [] type = "coupa" -> {"instance_url", "api_key"}
    [] type = "ariba" -> {"base_url", "client_secret", "api_key"}
    [] type = "oracle_fusion" -> {"base_url", "password", "query"}
    [] OTHER -> {}

\* Which panel is shown for a source, and with it which fields are typed.
PanelOf(type) ==
  IF type \in Databases THEN "database" ELSE IF type \in Bagged THEN "erp" ELSE type

Panels == {PanelOf(t) : t \in Sources}

Wizard == {"source", "connect", "finalize"}

\* A name or a port is that of a source until the user types another; each
\* setting in the bag is known by the source for which it was typed.
Drafts ==
  [type : Sources, name : Sources \cup {"", "own"}, port : Databases \cup {"", "own"},
   typed : SUBSET Panels, columns : BOOLEAN, mode : SapModes,
   bag : [BagKeys -> Sources \cup {""}]]

ConnectorFormUi ==
  [step : Wizard, draft : Drafts, listed : BOOLEAN, left : {"no", "saved", "cancelled"}]

FormOpen(step) == ui.left = "no" /\ ui.step = step

ConnectorFormInit ==
  /\ page = "form"
  /\ db = [i \in Items |-> None]
  /\ ui = [step |-> "source", listed |-> FALSE, left |-> "no",
           draft |-> [type |-> "postgresql", name |-> "", port |-> "postgresql",
                      typed |-> {}, columns |-> FALSE, mode |-> "odata",
                      bag |-> [k \in BagKeys |-> ""]]]
  /\ calls = {Request("getRegistry", None, None, {})}

\* The catalogue of the server, or the list of the form if that fails.
RegistryLoaded(c) ==
  /\ ui' = [ui EXCEPT !.listed = (c.stage = "ok")]
  /\ Done(c) /\ Handling

Typing(draft) == ui' = [ui EXCEPT !.draft = draft] /\ Local

\* getDefaultPort.
PortOf(type) == IF type \in Databases THEN type ELSE ""

\* Mutant: the port stays.
RepickedPortKept(draft, type) ==
  [draft EXCEPT !.type = type, !.name = IF @ \in {"", draft.type} THEN type ELSE @]

\* handleTypeChange: a name nobody typed follows the source.
Repicked(draft, type) ==
  [draft EXCEPT !.type = type, !.port = PortOf(type),
                !.name = IF @ \in {"", draft.type} THEN type ELSE @]

PickSource(type) == FormOpen("source") /\ Typing(Repicked(ui.draft, type))

\* goToConnect: a blank name is filled.
GoToConnect ==
  /\ FormOpen("source")
  /\ ui' = [ui EXCEPT !.step = "connect",
                      !.draft.name = IF @ = "" THEN ui.draft.type ELSE @]
  /\ Local

NameConnector(name) == FormOpen("connect") /\ Typing([ui.draft EXCEPT !.name = name])

\* The port by hand, or with the rest of a pasted connection string, of
\* whichever database.
TypePort ==
  /\ FormOpen("connect") /\ ui.draft.type \in Databases
  /\ Typing([ui.draft EXCEPT !.port = "own", !.typed = @ \cup {"database"}])

FillPanel ==
  /\ FormOpen("connect") /\ ui.draft.type \notin Bagged
  /\ Typing([ui.draft EXCEPT !.typed = @ \cup {PanelOf(ui.draft.type)}])

\* handleErpConfigChange.
FillSetting(key) ==
  /\ FormOpen("connect") /\ key \in KeysOf(ui.draft.type, ui.draft.mode)
  /\ Typing([ui.draft EXCEPT !.bag[key] = ui.draft.type, !.typed = @ \cup {"erp"}])

SetSapMode(mode) ==
  /\ FormOpen("connect") /\ ui.draft.type = "sap" /\ mode # ui.draft.mode
  /\ Typing([ui.draft EXCEPT !.mode = mode])

\* Next, and Back or Edit.
GoToFinish ==
  /\ FormOpen("connect")
  /\ ui' = [ui EXCEPT !.step = "finalize"]
  /\ Local

StepBack ==
  /\ ui.left = "no" /\ ui.step # "source"
  /\ ui' = [ui EXCEPT !.step = IF @ = "finalize" THEN "connect" ELSE "source"]
  /\ Local

\* Cancel is offered in the first step; Escape closes the window in any.
CancelForm ==
  /\ ui.left = "no"
  /\ ui' = [ui EXCEPT !.left = "cancelled"]
  /\ Local

NameColumns ==
  /\ FormOpen("finalize") /\ ui.draft.type \in ManualMapped
  /\ Typing([ui.draft EXCEPT !.columns = TRUE])

\* buildConfig: the columns always, and the fields of the panel; of the bag all.
ConfigOf(draft) ==
  [type |-> draft.type, name |-> draft.name, columns |-> draft.columns,
   port |-> IF draft.type \in Databases THEN draft.port ELSE "",
   typed |-> draft.typed \cap {PanelOf(draft.type)},
   bag |-> IF draft.type \in Bagged THEN draft.bag ELSE [k \in BagKeys |-> ""]]

\* handleSave; disabled without a name, but not while another is under way.
SaveForm ==
  /\ FormOpen("finalize") /\ ui.draft.name # ""
  /\ Send("createConnector", None, ConfigOf(ui.draft))
  /\ UNCHANGED ui /\ Calling

FormSaved(c) ==
  /\ ui' = IF c.stage = "ok" /\ ui.left = "no" THEN [ui EXCEPT !.left = "saved"] ELSE ui
  /\ Done(c) /\ Handling

----------------------------------------------------------------------------

\* create_connector.
ConnectorFormServer(c) ==
  {Outcome([db EXCEPT ![i] = c.arg], Ok) : i \in {j \in Items : db[j] = None}}

ConnectorFormClicks ==
  \/ \E t \in Picked : PickSource(t)
  \/ GoToConnect \/ TypePort \/ FillPanel \/ GoToFinish \/ StepBack \/ CancelForm
  \/ NameColumns \/ SaveForm
  \/ \E n \in {"", "own"} : NameConnector(n)
  \/ \E k \in BagKeys : FillSetting(k)
  \/ \E m \in SapModes : SetSapMode(m)

ConnectorFormNext ==
  /\ page = "form"
  /\ \/ ConnectorFormClicks
     \/ \E c \in Settled("getRegistry") : RegistryLoaded(c)
     \/ \E c \in Settled("createConnector") : FormSaved(c)
     \/ \E c \in calls : \E o \in ConnectorFormServer(c) : Serve(c, o)

\* The form leaves once something is stored, or the user has left it.
FormFollows ==
  LET stored == {i \in Items : db[i] # None}
  IN (ui.left = "saved" => stored # {}) /\ (stored # {} => ui.left # "no")

\* Neither the draft nor a stored connector has another source's name or port.
NamedAndPorted(config) ==
  /\ config.name \in Sources => config.name = config.type
  /\ config.port \in {"own", PortOf(config.type)}

=============================================================================
