----------------------------- MODULE AccountPages -----------------------------
(***************************************************************************)
(* pages/SettingsPage.tsx with its tabs ProfileTab, SecurityTab and           *)
(* AISettingsTab, pages/UserManagementPage.tsx, and the keys of               *)
(* components/BI/BiExportCard.tsx.  Users and keys are items.                 *)
(***************************************************************************)
EXTENDS Spa

Tabs == {"profile", "security", "ai"}

\* What is configured of the model, and whether a key is stored for it.
Configuration == [provider : 0..1, key : BOOLEAN]

\* "draft" is the name or the provider in the form, "secret" the password or key.
SettingsUi == [kind : {"settings"}, tab : Tabs, user : 0..1, loading : BOOLEAN,
               saving : BOOLEAN, draft : 0..1, secret : BOOLEAN,
               config : Configuration \cup {None}]

Account == [role : 0..1, active : BOOLEAN]

UsersUi == [kind : {"users"}, loading : BOOLEAN, rows : [Items -> Account \cup {None}],
            updating : Items \cup {None}]

KeysUi == [kind : {"keys"}, loading : BOOLEAN, rows : [Items -> 0..1], creating : BOOLEAN,
           named : BOOLEAN, revealed : Items \cup {None}]

AccountUi == SettingsUi \cup UsersUi \cup KeysUi

\* Who uses the page: own row is locked.
Myself == CHOOSE i \in Existing : TRUE

Opened(tab, user) ==
  [kind |-> "settings", tab |-> tab, user |-> user, loading |-> tab = "ai",
   saving |-> FALSE, draft |-> IF tab = "profile" THEN user ELSE 0, secret |-> FALSE,
   config |-> None]

SettingsInit ==
  /\ page = "account"
  /\ db = [user |-> 0, password |-> 0, config |-> [provider |-> 0, key |-> TRUE]]
  /\ ui = Opened("profile", 0) /\ calls = {}

UsersInit ==
  /\ page = "account"
  /\ db = [i \in Items |-> [role |-> 0, active |-> TRUE]]
  /\ ui = [kind |-> "users", loading |-> TRUE, rows |-> [i \in Items |-> None],
           updating |-> None]
  /\ calls = {Request("listUsers", None, None, {})}

KeysInit ==
  /\ page = "account" /\ db = FirstRows
  /\ ui = [kind |-> "keys", loading |-> TRUE, rows |-> NoRows, creating |-> FALSE,
           named |-> FALSE, revealed |-> None]
  /\ calls = {Request("listKeys", None, [created |-> FALSE], {})}

InTab(tab) == ui.kind = "settings" /\ ui.tab = tab

\* A tab that is left forgets its form, and its calls their form.
OpenTab(tab) ==
  LET left == {[c EXCEPT !.arg.live = FALSE] : c \in calls}
  IN  /\ ui.kind = "settings" /\ tab # ui.tab
      /\ ui' = Opened(tab, ui.user)
      /\ IF tab = "ai"
         THEN SendAlso("getConfig", None, [live |-> TRUE], left)
         ELSE calls' = left /\ UNCHANGED clash
      /\ Calling

ConfigLoaded(c) ==
  /\ ui' = IF ~c.arg.live THEN ui
           ELSE IF c.stage = "failed" THEN [ui EXCEPT !.loading = FALSE]
           ELSE [ui EXCEPT !.loading = FALSE, !.config = c.ans.config,
                           !.draft = c.ans.config.provider, !.secret = FALSE]
  /\ Done(c) /\ Handling

EditDraft ==
  /\ InTab("profile") \/ (InTab("ai") /\ ui.config # None)
  /\ ui' = [ui EXCEPT !.draft = 1 - @] /\ Local

TypeSecret ==
  /\ InTab("security") \/ (InTab("ai") /\ ui.config # None)
  /\ ui' = [ui EXCEPT !.secret = ~@] /\ Local

\* handleSaveProfile; what did not change is not sent.
SaveProfile ==
  /\ InTab("profile") /\ ~ui.saving /\ ui.draft # ui.user
  /\ ui' = [ui EXCEPT !.saving = TRUE]
  /\ Send("saveProfile", None, [live |-> TRUE, user |-> ui.draft]) /\ Calling

\* setUser writes the store whatever tab is open.
ProfileSaved(c) ==
  /\ ui' = [ui EXCEPT !.user = IF c.stage = "ok" THEN c.ans.user ELSE @,
                      !.saving = @ /\ ~c.arg.live]
  /\ Done(c) /\ Handling

\* handleChangePassword, the fields being as it wants them.
ChangePassword ==
  /\ InTab("security") /\ ~ui.saving /\ ui.secret
  /\ ui' = [ui EXCEPT !.saving = TRUE]
  /\ Send("changePassword", None, [live |-> TRUE]) /\ Calling

PasswordChanged(c) ==
  /\ ui' = IF ~c.arg.live THEN ui
           ELSE [ui EXCEPT !.saving = FALSE, !.secret = @ /\ c.stage = "failed"]
  /\ Done(c) /\ Handling

\* handleSaveLLMConfig; without a change nothing is sent.
SaveConfig ==
  /\ InTab("ai") /\ ui.config # None /\ ~ui.saving
  /\ ui.draft # ui.config.provider \/ ui.secret
  /\ ui' = [ui EXCEPT !.saving = TRUE]
  /\ Send("saveConfig", None,
          [live |-> TRUE, provider |-> IF ui.draft # ui.config.provider THEN ui.draft ELSE None,
           key |-> ui.secret])
  /\ Calling

\* handleClearApiKey; the button is not disabled while saving.
ClearApiKey ==
  /\ InTab("ai") /\ ui.config # None /\ ui.config.key
  /\ ui' = [ui EXCEPT !.saving = TRUE]
  /\ Send("clearKey", None, [live |-> TRUE]) /\ Calling

\* Cleared, the other fields keep what was typed.
ConfigSaved(c) ==
  /\ ui' = IF ~c.arg.live THEN ui
           ELSE IF c.stage = "failed" THEN [ui EXCEPT !.saving = FALSE]
           ELSE [ui EXCEPT !.saving = FALSE, !.config = c.ans.config, !.secret = FALSE,
                           !.draft = IF c.op = "saveConfig" THEN c.ans.config.provider ELSE @]
  /\ Done(c) /\ Handling

UsersLoaded(c) ==
  /\ ui' = [ui EXCEPT !.loading = FALSE, !.rows = IF c.stage = "ok" THEN c.ans.rows ELSE @]
  /\ Done(c) /\ Handling

\* handleRoleChange, handleStatusToggle, handleDelete: one row at a time is marked.
ActOnUser(op, i) ==
  /\ ui.kind = "users" /\ ~ui.loading
  /\ ui.rows[i] # None /\ i # Myself /\ ui.updating # i
  /\ ui' = [ui EXCEPT !.updating = i]
  /\ Send(op, i, IF op = "changeStatus" THEN [active |-> ~ui.rows[i].active]
                 ELSE IF op = "changeRole" THEN [role |-> 1 - ui.rows[i].role] ELSE None)
  /\ Calling

\* The first answer clears the mark, whosever row it is about.
UserActed(c) ==
  /\ ui' = IF c.stage = "failed" THEN [ui EXCEPT !.updating = None]
           ELSE [ui EXCEPT !.updating = None,
                           !.rows[c.on] = IF @ = None \/ c.op = "deleteUser" THEN None
                                          ELSE c.ans.row]
  /\ Done(c) /\ Handling

KeysShown == ui.kind = "keys" /\ ~ui.loading

NameKey == KeysShown /\ ui' = [ui EXCEPT !.named = TRUE] /\ Local

\* handleCreate; Enter in the field does not heed that one is being created.
CreateKey ==
  /\ KeysShown /\ ui.named
  /\ ui' = [ui EXCEPT !.creating = TRUE]
  /\ Send("createKey", None, None) /\ Calling

KeyCreated(c) ==
  /\ IF c.stage = "failed" THEN ui' = [ui EXCEPT !.creating = FALSE] /\ Done(c)
     ELSE /\ ui' = [ui EXCEPT !.revealed = c.ans.id, !.named = FALSE, !.loading = TRUE]
          /\ Then(c, "listKeys", None, [created |-> TRUE])
  /\ Handling

\* fetchKeys
KeysLoaded(c) ==
  /\ ui' = [ui EXCEPT !.loading = FALSE, !.creating = @ /\ ~c.arg.created,
                      !.rows = IF c.stage = "ok" THEN c.ans.rows ELSE @]
  /\ Done(c) /\ Handling

RevokeKey(i) ==
  /\ KeysShown /\ ui.rows[i] # 0
  /\ UNCHANGED ui /\ Send("revokeKey", i, None) /\ Calling

KeyRevoked(c) ==
  /\ ui' = IF c.stage = "failed" THEN ui
           ELSE [ui EXCEPT !.rows[c.on] = 0,
                           !.revealed = IF @ = c.on THEN None ELSE @]
  /\ Done(c) /\ Handling

----------------------------------------------------------------------------

SettingsServer(c) ==
  \/ c.op = "getConfig" /\ Serve(c, Outcome(db, [config |-> db.config]))
  \/ /\ c.op = "saveProfile"
     /\ Serve(c, Outcome([db EXCEPT !.user = c.arg.user], [user |-> c.arg.user]))
  \/ /\ c.op = "changePassword"
     /\ Serve(c, Outcome([db EXCEPT !.password = 1], Ok)) \/ Serve(c, NotFound)
  \/ /\ c.op \in {"saveConfig", "clearKey"}
     /\ LET new == IF c.op = "clearKey" THEN [db.config EXCEPT !.key = FALSE]
                   ELSE [provider |-> IF c.arg.provider = None THEN db.config.provider
                                      ELSE c.arg.provider,
                         key |-> db.config.key \/ c.arg.key]
        IN  Serve(c, Outcome([db EXCEPT !.config = new], [config |-> new]))

UsersServer(c) ==
  \/ c.op = "listUsers" /\ Serve(c, Outcome(db, [rows |-> db]))
  \/ /\ c.op \in {"changeRole", "changeStatus", "deleteUser"}
     /\ IF db[c.on] = None THEN Serve(c, NotFound)
        ELSE LET new == CASE c.op = "changeRole" -> [db[c.on] EXCEPT !.role = c.arg.role]
                          [] c.op = "changeStatus" -> [db[c.on] EXCEPT !.active = c.arg.active]
                          [] OTHER -> None
             IN  Serve(c, Outcome([db EXCEPT ![c.on] = new], [row |-> new]))

KeysServer(c) ==
  \/ c.op = "listKeys" /\ Serve(c, Outcome(db, [rows |-> db]))
  \/ /\ c.op = "createKey"
     /\ \E i \in {j \in Items : db[j] = 0} :
          Serve(c, Outcome([db EXCEPT ![i] = 1], [id |-> i]))
  \/ /\ c.op = "revokeKey"
     /\ Serve(c, IF db[c.on] = 0 THEN NotFound ELSE Outcome([db EXCEPT ![c.on] = 0], Ok))

AccountFollows ==
  CASE ui.kind = "settings" -> ui.user = db.user /\ ui.config \in {None, db.config}
    [] OTHER -> ui.rows = db

AccountFlags ==
  {ui.loading} \cup (CASE ui.kind = "settings" -> {ui.saving}
                       [] ui.kind = "users" -> {ui.updating # None}
                       [] OTHER -> {ui.creating})

AccountClicks ==
  \/ \E tab \in Tabs : OpenTab(tab)
  \/ EditDraft \/ TypeSecret \/ SaveProfile \/ ChangePassword \/ SaveConfig \/ ClearApiKey
  \/ \E op \in {"changeRole", "changeStatus", "deleteUser"}, i \in Items : ActOnUser(op, i)
  \/ NameKey \/ CreateKey
  \/ \E i \in Items : RevokeKey(i)

AccountAnswers ==
  \/ \E c \in Settled("getConfig") : ConfigLoaded(c)
  \/ \E c \in Settled("saveProfile") : ProfileSaved(c)
  \/ \E c \in Settled("changePassword") : PasswordChanged(c)
  \/ \E op \in {"saveConfig", "clearKey"} : \E c \in Settled(op) : ConfigSaved(c)
  \/ \E c \in Settled("listUsers") : UsersLoaded(c)
  \/ \E op \in {"changeRole", "changeStatus", "deleteUser"} :
       \E c \in Settled(op) : UserActed(c)
  \/ \E c \in Settled("listKeys") : KeysLoaded(c)
  \/ \E c \in Settled("createKey") : KeyCreated(c)
  \/ \E c \in Settled("revokeKey") : KeyRevoked(c)

AccountNext ==
  /\ page = "account"
  /\ \/ AccountClicks \/ AccountAnswers
     \/ \E c \in calls : CASE ui.kind = "settings" -> SettingsServer(c)
                           [] ui.kind = "users" -> UsersServer(c)
                           [] OTHER -> KeysServer(c)

=============================================================================
