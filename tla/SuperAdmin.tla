------------------------------ MODULE SuperAdmin ------------------------------
(***************************************************************************)
(* The pages of a super administrator: the accounts, and, further down,    *)
(* the system's settings.                                                  *)
(*                                                                         *)
(* Accounts: the users page with its detail view, confirmation and         *)
(* invitation dialogs, and the assigned users of an airport's page. The    *)
(* table of users itself is in ListPages; here a row offers what the       *)
(* backend holds.                                                          *)
(*                                                                         *)
(* Every call is sent, served and answered in steps of its own, in any     *)
(* order. The users page is one component at the list's address and at an  *)
(* account's; leaving it for an airport's page drops its state, and the    *)
(* answers that arrive for it. An account's name stands for its name,      *)
(* address and role: its own, another account's, or one typed (NoAccount). *)
(***************************************************************************)
EXTENDS Naturals, FiniteSets

CONSTANTS
  People,         \* the accounts there are
  NoAccount,      \* no account; as a name, one that was typed
  Fields,         \* the airports there are
  MaxCalls,       \* bound: calls under way at once
  MaxAccountActs, \* bound: clicks and entries of the pages of accounts
  MaxSettingsActs \* bound: those of the system page

SuperAdminAssumption ==
  /\ NoAccount \notin People \cup Fields /\ People \cap Fields = {}
  /\ MaxAccountActs \in Nat /\ MaxSettingsActs \in Nat

VARIABLES
  accounts,       \* the backend's
  deleted,        \* those it deleted
  place,          \* the address: the list's (NoAccount), an account's, an airport's
  selectedUser,   \* the answer the detail view shows, or NoUser
  editName,       \* the form of the detail view
  saving,
  resetLink,      \* the account the shown link is for
  confirmAction,  \* [type, id]
  invitation,     \* InviteUserDialog: [isOpen, email, submitting, link]
  people,         \* the airport page's assignedUsers and allUsers
  accountCalls,   \* under way: [kind, id, body, live, status, answer]
  wanted,         \* the assignments that were asked for
  overlapped,     \* accounts whose assignments were asked for while another call about them was
                  \* under way, or whose new assignments a page could not read
  late,           \* an answer about another account than the address's or the form's was stored
  accountActs

accountVars == <<accounts, deleted, place, selectedUser, editName, saving, resetLink, confirmAction,
                 invitation, people, accountCalls, wanted, overlapped, late, accountActs>>

Types == {"deactivate", "activate", "delete"}
Account == [name : People \cup {NoAccount}, active : BOOLEAN, fields : SUBSET Fields]
NoUser == [id |-> NoAccount, is |-> [name |-> NoAccount, active |-> FALSE, fields |-> {}]]
NoAction == [type |-> "none", id |-> NoAccount]
NoInvitation == [isOpen |-> FALSE, email |-> 0, submitting |-> FALSE, link |-> 0]
Nobody == [assigned |-> {}, all |-> [a \in {} |-> {}]]

\* Addresses that invitations are sent to.
Emails == {1, 2}

TypeOK ==
  /\ accounts \in [People -> Account] /\ deleted \subseteq People
  /\ place \in People \cup Fields \cup {NoAccount}
  /\ selectedUser \in {NoUser} \cup [id : People, is : Account]
  /\ editName \in People \cup {NoAccount} /\ saving \in BOOLEAN
  /\ resetLink \in People \cup {NoAccount}
  /\ confirmAction \in {NoAction} \cup [type : Types, id : People]
  /\ invitation \in [isOpen : BOOLEAN, email : {0} \cup Emails, submitting : BOOLEAN,
                     link : {0} \cup Emails]
  /\ people.assigned \subseteq People /\ DOMAIN people.all \subseteq People
  /\ Cardinality(accountCalls) <= MaxCalls
  /\ \A c \in accountCalls : c.live /\ c.kind = "save" => saving /\ place \notin Fields
  /\ saving => \E c \in accountCalls : c.live /\ c.kind = "save"
  /\ wanted \in [People -> SUBSET Fields] /\ overlapped \subseteq People /\ late \in BOOLEAN
  /\ accountActs \in 0..MaxAccountActs

Init ==
  /\ accounts = [a \in People |-> [name |-> a, active |-> TRUE, fields |-> {}]]
  /\ deleted = {} /\ place = NoAccount /\ selectedUser = NoUser /\ editName = NoAccount
  /\ saving = FALSE /\ resetLink = NoAccount /\ confirmAction = NoAction
  /\ invitation = NoInvitation /\ people = Nobody /\ accountCalls = {}
  /\ wanted = [a \in People |-> {}] /\ overlapped = {} /\ late = FALSE /\ accountActs = 0

-----------------------------------------------------------------------------
(* Calls *)

Call(kind, id, body) ==
  [kind |-> kind, id |-> id, body |-> body, live |-> TRUE, status |-> "sent", answer |-> NoUser]

\* Whose account a call reads or assigns: an airport's page reads them all.
About(c) == IF c.kind = "people" THEN People
            ELSE IF c.kind \in {"user", "save", "assign"} THEN {c.id} ELSE {}

\* An assignment and another call about the same account are under way together.
Crossed(c) == UNION {About(c) \cap About(d) : d \in
                {d \in accountCalls : "assign" \in {c.kind, d.kind}}}

Sent(c) ==
  /\ Cardinality(accountCalls) < MaxCalls
  /\ \A d \in accountCalls : <<d.kind, d.id, d.body>> # <<c.kind, c.id, c.body>>
  /\ accountCalls' = accountCalls \cup {c}
  /\ overlapped' = overlapped \cup Crossed(c)

\* The page's component is dropped, and with it what its calls would store.
Dropped == {[c EXCEPT !.live = FALSE] : c \in accountCalls}

Acted == accountActs < MaxAccountActs /\ accountActs' = accountActs + 1

-----------------------------------------------------------------------------
(* Addresses *)

DetailView == selectedUser # NoUser
ListView == place \notin Fields /\ ~DetailView

Kept == UNCHANGED <<accounts, deleted, wanted, late>>

\* Another component is mounted at p: the users page with nothing in it, or an airport's page.
Fresh(p, call) ==
  /\ place' = p /\ selectedUser' = NoUser /\ editName' = NoAccount /\ saving' = FALSE
  /\ resetLink' = NoAccount /\ confirmAction' = NoAction /\ invitation' = NoInvitation
  /\ people' = Nobody
  /\ Cardinality(accountCalls) < MaxCalls
  /\ accountCalls' = Dropped \cup call
  /\ overlapped' = overlapped \cup UNION {Crossed(c) : c \in call}

\* The effect of a new address: an account is asked for, the list's address closes the detail view.
Selected(a) ==
  /\ place' = a
  /\ IF a = NoAccount
     THEN selectedUser' = NoUser /\ UNCHANGED <<accountCalls, overlapped>>
     ELSE Sent(Call("user", a, {})) /\ UNCHANGED selectedUser

Row(a) ==
  /\ Acted /\ ListView /\ confirmAction = NoAction /\ ~invitation.isOpen /\ place # a
  /\ a \notin deleted
  /\ Selected(a)
  /\ Kept /\ UNCHANGED <<editName, saving, resetLink, confirmAction, invitation, people>>

\* A row of the recent activity links to another account.
entityLink(a) ==
  /\ Acted /\ DetailView /\ a # place
  /\ Selected(a)
  /\ Kept /\ UNCHANGED <<editName, saving, resetLink, confirmAction, invitation, people>>

\* The list's address closes nothing when it is the address already.
onBack ==
  /\ Acted /\ DetailView
  /\ IF place = NoAccount THEN UNCHANGED <<place, selectedUser, accountCalls, overlapped>>
     ELSE Selected(NoAccount)
  /\ Kept /\ UNCHANGED <<editName, saving, resetLink, confirmAction, invitation, people>>

\* An assigned airport links to its page, which reads the accounts.
OpenAirport(f) ==
  /\ Acted /\ DetailView /\ f \in selectedUser.is.fields
  /\ Fresh(f, {Call("people", NoAccount, {})})
  /\ Kept

\* An assigned user links to the users page; the navigation bar leads to the list.
OpenUser(a) ==
  /\ Acted /\ place \in Fields /\ a \in people.assigned
  /\ Fresh(a, {Call("user", a, {})})
  /\ Kept

Leave ==
  /\ Acted
  /\ \E p \in ({NoAccount} \cup Fields) \ {place} :
       /\ p = NoAccount => place \in Fields
       /\ Fresh(p, IF p = NoAccount THEN {} ELSE {Call("people", NoAccount, {})})
  /\ Kept

-----------------------------------------------------------------------------
(* The detail view *)

Type ==
  /\ Acted /\ DetailView /\ editName # NoAccount /\ editName' = NoAccount
  /\ Kept /\ UNCHANGED <<place, selectedUser, saving, resetLink, confirmAction, invitation, people,
                         accountCalls, overlapped>>

handleSaveUser ==
  /\ Acted /\ DetailView /\ ~saving /\ saving' = TRUE
  /\ Sent(Call("save", selectedUser.id, {editName}))
  /\ Kept /\ UNCHANGED <<place, selectedUser, editName, resetLink, confirmAction, invitation,
                         people>>

handleResetPassword ==
  /\ Acted /\ DetailView
  /\ Sent(Call("reset", selectedUser.id, {}))
  /\ Kept /\ UNCHANGED <<place, selectedUser, editName, saving, resetLink, confirmAction,
                         invitation, people>>

\* Mutant of WithAirport: only the new airport is sent.
WithAirport_only(fields, f) == {f}
\* The backend is sent all the airports the account is to have.
WithAirport(fields, f) == fields \cup {f}

Assigns(a, fields, want) ==
  /\ Sent(Call("assign", a, fields))
  /\ wanted' = [wanted EXCEPT ![a] = want]
  /\ UNCHANGED <<accounts, deleted, late, place, selectedUser, editName, saving, resetLink,
                 confirmAction, invitation, people>>

handleAddAirport(f) ==
  /\ Acted /\ DetailView /\ f \notin selectedUser.is.fields
  /\ Assigns(selectedUser.id, WithAirport(selectedUser.is.fields, f),
             wanted[selectedUser.id] \cup {f})

handleRemoveAirport(f) ==
  /\ Acted /\ DetailView /\ f \in selectedUser.is.fields
  /\ Assigns(selectedUser.id, selectedUser.is.fields \ {f}, wanted[selectedUser.id] \ {f})

-----------------------------------------------------------------------------
(* The airport page *)

handleAddUser(a) ==
  /\ Acted /\ place \in Fields /\ a \in DOMAIN people.all \ people.assigned
  /\ Assigns(a, WithAirport(people.all[a], place), wanted[a] \cup {place})

handleRemoveUser(a) ==
  /\ Acted /\ place \in Fields /\ a \in people.assigned \cap DOMAIN people.all
  /\ Assigns(a, people.all[a] \ {place}, wanted[a] \ {place})

-----------------------------------------------------------------------------
(* Dialogs *)

\* What is offered for an account that looks active or not.
Offered(active) == IF active THEN {"deactivate"} ELSE {"activate", "delete"}

\* The detail view asks too, but the dialog is drawn with the list only.
AskAction(a, type) ==
  /\ Acted /\ confirmAction # [type |-> type, id |-> a]
  /\ \/ DetailView /\ a = selectedUser.id /\ type \in Offered(selectedUser.is.active)
     \/ ListView /\ confirmAction = NoAction /\ ~invitation.isOpen /\ a \notin deleted
        /\ type \in Offered(accounts[a].active)
  /\ confirmAction' = [type |-> type, id |-> a]
  /\ Kept /\ UNCHANGED <<place, selectedUser, editName, saving, resetLink, invitation, people,
                         accountCalls, overlapped>>

onCancel ==
  /\ Acted /\ ListView /\ confirmAction # NoAction /\ confirmAction' = NoAction
  /\ Kept /\ UNCHANGED <<place, selectedUser, editName, saving, resetLink, invitation, people,
                         accountCalls, overlapped>>

handleConfirmAction ==
  /\ Acted /\ ListView /\ confirmAction # NoAction
  /\ Sent(Call(confirmAction.type, confirmAction.id, {}))
  /\ Kept /\ UNCHANGED <<place, selectedUser, editName, saving, resetLink, confirmAction,
                         invitation, people>>

OpenInvitation ==
  /\ Acted /\ ListView /\ confirmAction = NoAction /\ ~invitation.isOpen
  /\ invitation' = [invitation EXCEPT !.isOpen = TRUE]
  /\ Kept /\ UNCHANGED <<place, selectedUser, editName, saving, resetLink, confirmAction, people,
                         accountCalls, overlapped>>

FillInvitation(e) ==
  /\ Acted /\ ListView /\ invitation.isOpen /\ invitation.link = 0 /\ invitation.email # e
  /\ invitation' = [invitation EXCEPT !.email = e]
  /\ Kept /\ UNCHANGED <<place, selectedUser, editName, saving, resetLink, confirmAction, people,
                         accountCalls, overlapped>>

handleSubmit ==
  /\ Acted /\ ListView /\ invitation.isOpen /\ invitation.link = 0 /\ invitation.email # 0
  /\ ~invitation.submitting
  /\ invitation' = [invitation EXCEPT !.submitting = TRUE]
  /\ Sent(Call("invite", NoAccount, {invitation.email}))
  /\ Kept /\ UNCHANGED <<place, selectedUser, editName, saving, resetLink, confirmAction, people>>

\* reset leaves the call under way, and submitting with it.
handleClose ==
  /\ Acted /\ ListView /\ invitation.isOpen
  /\ invitation' = [NoInvitation EXCEPT !.submitting = invitation.submitting]
  /\ Kept /\ UNCHANGED <<place, selectedUser, editName, saving, resetLink, confirmAction, people,
                         accountCalls, overlapped>>

-----------------------------------------------------------------------------
(* The backend and its answers *)

After(c) ==
  CASE c.kind = "save" -> [accounts EXCEPT ![c.id].name = CHOOSE n \in c.body : TRUE]
    [] c.kind = "assign" -> [accounts EXCEPT ![c.id].fields = c.body]
    [] c.kind = "deactivate" -> [accounts EXCEPT ![c.id].active = FALSE]
    [] c.kind = "activate" -> [accounts EXCEPT ![c.id].active = TRUE]
    [] OTHER -> accounts

Refuses(c) ==
  \/ c.id \in deleted
  \/ c.kind = "delete" /\ accounts[c.id].active
  \/ c.kind = "reset" /\ ~accounts[c.id].active

\* The call is served, refused or fails; its answer, when served, may be lost on its way.
Serve(c) ==
  /\ c.status = "sent"
  /\ \E outcome \in IF Refuses(c) THEN {"refused"} ELSE {"ok", "refused", "lost"} :
       LET now    == IF outcome = "refused" THEN accounts ELSE After(c)
           answer == IF c.kind = "people"
                     THEN [assigned |-> {a \in People \ deleted : place \in now[a].fields},
                           all |-> [a \in People \ deleted |-> now[a].fields]]
                     ELSE IF c.id \in People THEN [id |-> c.id, is |-> now[c.id]] ELSE NoUser IN
       /\ accounts' = now
       /\ deleted' = IF c.kind = "delete" /\ outcome # "refused" THEN deleted \cup {c.id}
                     ELSE deleted
       /\ accountCalls' = (accountCalls \ {c}) \cup 
             {[c EXCEPT !.status = IF outcome = "ok" THEN "ok" ELSE "failed", !.answer = answer]}
       /\ wanted' = IF c.kind = "assign" /\ outcome = "refused"
                    THEN [wanted EXCEPT ![c.id] = accounts[c.id].fields] ELSE wanted
       /\ overlapped' = IF c.kind = "assign" /\ outcome = "lost" THEN overlapped \cup {c.id}
                        ELSE overlapped
  /\ UNCHANGED <<place, selectedUser, editName, saving, resetLink, confirmAction, invitation,
                 people, late, accountActs>>

\* The detail view is drawn in place of the list, and the invitation dialog's state is dropped.
Shows(u, formOf) ==
  /\ selectedUser' = u
  /\ late' = (late \/ u.id # place \/ formOf # u.id)
  /\ IF DetailView THEN UNCHANGED invitation
     ELSE invitation' = [NoInvitation EXCEPT !.isOpen = invitation.isOpen]

\* Calls of the dialog are of no use to the one drawn later.
Pending(c, rest) == IF DetailView THEN rest
                    ELSE {IF d.kind = "invite" THEN [d EXCEPT !.live = FALSE] ELSE d : d \in rest}

\* Mutant of Seeded: the form keeps what is in it.
Seeded_kept(u) == IF editName = NoAccount THEN u.is.name ELSE editName
\* The account's values fill the form.
Seeded(u) == u.is.name

\* Mutant of Redirected: the address stays.
Redirected_not == place
\* Where the page goes when the account cannot be read.
Redirected == NoAccount

Land(c) ==
  /\ c.status # "sent"
  /\ LET rest == accountCalls \ {c}
         ok   == c.live /\ c.status = "ok" IN
     /\ CASE c.kind = "user" /\ ok ->
               Shows(c.answer, c.id) /\ editName' = Seeded(c.answer)
               /\ accountCalls' = Pending(c, rest)
               /\ UNCHANGED <<place, saving, resetLink, confirmAction, people>>
          [] c.kind = "user" /\ c.live /\ ~ok ->
               /\ place' = Redirected
               /\ selectedUser' = IF Redirected = NoAccount /\ place # NoAccount
                                  THEN NoUser ELSE selectedUser
               /\ accountCalls' = rest
               /\ UNCHANGED <<editName, saving, resetLink, confirmAction, invitation, people, late>>
          [] c.kind \in {"save", "assign"} /\ ok /\ place \notin Fields ->
               Shows(c.answer, selectedUser.id) /\ accountCalls' = Pending(c, rest)
               /\ saving' = (saving /\ c.kind # "save")
               /\ UNCHANGED <<place, editName, resetLink, confirmAction, people>>
          [] c.kind = "assign" /\ ok /\ place \in Fields ->
               /\ accountCalls' = rest \cup {Call("people", NoAccount, {})}
               /\ UNCHANGED <<place, selectedUser, editName, saving, resetLink, confirmAction,
                              invitation, people, late>>
          [] c.kind = "people" /\ ok ->
               /\ people' = c.answer /\ accountCalls' = rest
               /\ UNCHANGED <<place, selectedUser, editName, saving, resetLink, confirmAction,
                              invitation, late>>
          [] c.kind \in Types /\ ok ->
               /\ confirmAction' = NoAction /\ accountCalls' = rest
               /\ UNCHANGED <<place, selectedUser, editName, saving, resetLink, invitation, people,
                              late>>
          [] c.kind = "reset" /\ ok ->
               /\ resetLink' = c.id /\ accountCalls' = rest
               /\ UNCHANGED <<place, selectedUser, editName, saving, confirmAction, invitation,
                              people, late>>
          [] c.kind = "invite" /\ c.live ->
               /\ invitation' = [invitation EXCEPT !.submitting = FALSE,
                                   !.link = IF ok THEN CHOOSE e \in c.body : TRUE ELSE @]
               /\ accountCalls' = rest
               /\ UNCHANGED <<place, selectedUser, editName, saving, resetLink, confirmAction,
                              people, late>>
          [] OTHER ->
               /\ saving' = (saving /\ ~(c.live /\ c.kind = "save"))
               /\ accountCalls' = rest
               /\ UNCHANGED <<place, selectedUser, editName, resetLink, confirmAction, invitation,
                              people, late>>
     /\ overlapped' =
          IF c.kind = "people" /\ c.live /\ ~ok THEN People
          ELSE IF c.kind = "assign" /\ ok /\ place \in Fields
          THEN overlapped \cup UNION {About(d) : d \in {d \in rest : d.kind = "assign"}}
          ELSE overlapped
  /\ UNCHANGED <<accounts, deleted, wanted, accountActs>>

Next ==
  \/ \E a \in People : Row(a) \/ entityLink(a) \/ OpenUser(a) \/ handleAddUser(a)
                         \/ handleRemoveUser(a) \/ \E t \in Types : AskAction(a, t)
  \/ \E f \in Fields : OpenAirport(f) \/ handleAddAirport(f) \/ handleRemoveAirport(f)
  \/ onBack \/ Leave \/ Type \/ handleSaveUser \/ handleResetPassword \/ onCancel
  \/ handleConfirmAction \/ OpenInvitation \/ handleSubmit \/ handleClose
  \/ \E e \in Emails : FillInvitation(e)
  \/ \E c \in accountCalls : Serve(c) \/ Land(c)

Spec == Init /\ [][Next]_accountVars

-----------------------------------------------------------------------------
(* Properties *)

\* Assignments replace the whole list of an account's airports, from two pages. Asked for one at a
\* time, each from a page that has read the account since, they add up to what was asked for, and
\* both pages show it when nothing is under way.
AssignmentsStand ==
  \A a \in People \ (overlapped \cup deleted) :
    (\A c \in accountCalls : a \notin About(c)) =>
      /\ accounts[a].fields = wanted[a]
      /\ DetailView /\ selectedUser.id = a => selectedUser.is.fields = wanted[a]
      /\ place \in Fields /\ a \in DOMAIN people.all =>
           people.all[a] = wanted[a] /\ (a \in people.assigned <=> place \in wanted[a])

\* The detail view is of the account the address names, unless an answer about another account
\* came late; and what is saved for an account was its own form: no account takes another's name,
\* address and role.
DetailFollows ==
  late \/ ( /\ DetailView => \/ selectedUser.id = place
                             \/ \E c \in accountCalls : c.kind = "user" /\ c.id = place /\ c.live
            /\ \A a \in People : accounts[a].name \in {a, NoAccount} )

-----------------------------------------------------------------------------
(***************************************************************************)
(* The system page: maintenance mode, elevation service and its key, saved *)
(* together and then shared with the other pages. The key is shown masked: *)
(* the page holds only whether there is one, and what is typed over it.    *)
(*                                                                         *)
(* A save is served and answered in steps of its own, and the shared       *)
(* settings are read again before the page says Saved. Leaving the page    *)
(* keeps the save and the read going, without the page.                    *)
(***************************************************************************)
VARIABLES
  stored,          \* the backend's: [mode, url, fallback, key]
  settingsForm,    \* settings: [mode, url, fallback, masked]
  settingsPage,    \* "loading", "failed", "shown" or "left"
  apiKeyInput,
  update,          \* the save under way: [state, body, key, live], its state "idle", "sent", "ok",
                   \* "failed" or "refresh"
  saved,           \* the button says Saved
  sharedSettings,  \* SystemSettingsContext's
  testResult,      \* [result, url]
  tests,           \* addresses under test
  edited,          \* something was changed since the page had the settings
  keyWanted,       \* the key entered last
  unread,          \* the shared settings could not be read after a save
  settingsActs

settingsVars == <<stored, settingsForm, settingsPage, apiKeyInput, update, saved, sharedSettings,
                  testResult, tests, edited, keyWanted, unread, settingsActs>>

Urls == {"url1", "url2"}
ApiKeys == {"key1", "key2"}
NoKey == ""

View(s) == [mode |-> s.mode, url |-> s.url, fallback |-> s.fallback, masked |-> s.key # NoKey]
NoUpdate == [state |-> "idle", body |-> View([mode |-> FALSE, url |-> "url1", fallback |-> FALSE,
                                              key |-> NoKey]),
             key |-> "none", live |-> FALSE]
NoResult == [result |-> "none", url |-> "url1"]

Views == [mode : BOOLEAN, url : Urls, fallback : BOOLEAN, masked : BOOLEAN]

SettingsTypeOK ==
  /\ stored \in [mode : BOOLEAN, url : Urls, fallback : BOOLEAN, key : ApiKeys \cup {NoKey}]
  /\ settingsForm \in Views /\ sharedSettings \in Views
  /\ settingsPage \in {"loading", "failed", "shown", "left"}
  /\ apiKeyInput \in ApiKeys \cup {"", "clear"}
  /\ update \in [state : {"idle", "sent", "ok", "failed", "refresh"}, body : Views,
                 key : ApiKeys \cup {NoKey, "none"}, live : BOOLEAN]
  /\ saved \in BOOLEAN /\ testResult \in [result : {"none", "success", "failed"}, url : Urls]
  /\ tests \subseteq Urls /\ edited \in BOOLEAN /\ keyWanted \in ApiKeys \cup {NoKey}
  /\ unread \in BOOLEAN /\ settingsActs \in 0..MaxSettingsActs

SettingsInit ==
  /\ stored \in [mode : {FALSE}, url : {"url1"}, fallback : BOOLEAN, key : {NoKey, "key1"}]
  /\ settingsForm = View(stored) /\ settingsPage = "loading" /\ apiKeyInput = ""
  /\ update = NoUpdate /\ saved = FALSE /\ sharedSettings = View(stored)
  /\ testResult = NoResult /\ tests = {} /\ edited = FALSE /\ keyWanted = stored.key
  /\ unread = FALSE /\ settingsActs = 0

-----------------------------------------------------------------------------
(* Entries of the settings *)

Entered == settingsActs < MaxSettingsActs /\ settingsActs' = settingsActs + 1

Load ==
  /\ settingsPage = "loading"
  /\ \/ settingsPage' = "shown" /\ settingsForm' = View(stored)
     \/ settingsPage' = "failed" /\ UNCHANGED settingsForm
  /\ UNCHANGED <<stored, apiKeyInput, update, saved, sharedSettings, testResult, tests, edited,
                 keyWanted, unread, settingsActs>>

Edit(form) ==
  /\ Entered /\ settingsPage = "shown" /\ settingsForm # form
  /\ settingsForm' = form /\ edited' = TRUE
  /\ UNCHANGED <<stored, settingsPage, apiKeyInput, update, saved, sharedSettings, testResult,
                 tests, keyWanted, unread>>

ToggleMaintenance == Edit([settingsForm EXCEPT !.mode = ~@])
TypeUrl(u) == Edit([settingsForm EXCEPT !.url = u])
CheckFallback == Edit([settingsForm EXCEPT !.fallback = ~@])

\* The field is closed while the fallback is off, and keeps what was typed.
TypeKey(k) ==
  /\ Entered /\ settingsPage = "shown" /\ settingsForm.fallback /\ apiKeyInput # k
  /\ apiKeyInput' = k /\ edited' = TRUE
  /\ UNCHANGED <<stored, settingsForm, settingsPage, update, saved, sharedSettings, testResult,
                 tests, keyWanted, unread>>

\* Mutant of SentKey: what the field holds is always sent.
SentKey_always(k) == IF k = "clear" THEN NoKey ELSE k
\* An empty field sends no key, and the word clear an empty one.
SentKey(k) == IF k = "" THEN "none" ELSE IF k = "clear" THEN NoKey ELSE k

handleSave ==
  /\ Entered /\ settingsPage = "shown" /\ update.state = "idle"
  /\ update' = [state |-> "sent", body |-> settingsForm, key |-> SentKey(apiKeyInput),
                live |-> TRUE]
  /\ saved' = FALSE
  /\ keyWanted' = IF apiKeyInput = "" THEN keyWanted
                  ELSE IF apiKeyInput = "clear" THEN NoKey ELSE apiKeyInput
  /\ UNCHANGED <<stored, settingsForm, settingsPage, apiKeyInput, sharedSettings, testResult,
                 tests, edited, unread>>

handleTestConnection ==
  /\ Entered /\ settingsPage = "shown" /\ settingsForm.url \notin tests
  /\ tests' = tests \cup {settingsForm.url} /\ testResult' = NoResult
  /\ UNCHANGED <<stored, settingsForm, settingsPage, apiKeyInput, update, saved, sharedSettings,
                 edited, keyWanted, unread>>

Tested(u) ==
  /\ u \in tests /\ tests' = tests \ {u}
  /\ \E result \in {"success", "failed"} : testResult' = [result |-> result, url |-> u]
  /\ UNCHANGED <<stored, settingsForm, settingsPage, apiKeyInput, update, saved, sharedSettings,
                 edited, keyWanted, unread, settingsActs>>

\* Another page is opened, and this one again later; a save goes on without it.
LeaveSettings ==
  /\ Entered /\ settingsPage \in {"shown", "failed"}
  /\ settingsPage' = "left" /\ update' = [update EXCEPT !.live = FALSE]
  /\ saved' = FALSE /\ apiKeyInput' = "" /\ tests' = {} /\ testResult' = NoResult
  /\ edited' = FALSE
  /\ UNCHANGED <<stored, settingsForm, sharedSettings, keyWanted, unread>>

Return ==
  /\ settingsPage = "left" /\ update.state = "idle" /\ settingsPage' = "loading"
  /\ UNCHANGED <<stored, settingsForm, apiKeyInput, update, saved, sharedSettings, testResult,
                 tests, edited, keyWanted, unread, settingsActs>>

-----------------------------------------------------------------------------
(* A save of the settings *)

update_system_settings ==
  /\ update.state = "sent"
  /\ \E outcome \in {"ok", "refused", "lost"} :
       LET key == IF update.key = "none" THEN stored.key ELSE update.key IN
       /\ stored' = IF outcome = "refused" THEN stored
                    ELSE [mode |-> update.body.mode, url |-> update.body.url,
                          fallback |-> update.body.fallback, key |-> key]
       /\ keyWanted' = IF outcome = "refused" THEN stored.key ELSE keyWanted
       /\ unread' = (unread \/ outcome = "lost")
       /\ update' = [update EXCEPT !.state = IF outcome = "ok" THEN "ok" ELSE "failed"]
  /\ UNCHANGED <<settingsForm, settingsPage, apiKeyInput, saved, sharedSettings, testResult, tests,
                 edited, settingsActs>>

\* Mutant of Answered: Saved is said before the shared settings are read.
Answered_early == TRUE
Answered == FALSE

\* The answer replaces the form, and what was changed meanwhile.
Answer ==
  /\ update.state \in {"ok", "failed"}
  /\ IF update.state = "ok"
     THEN /\ update' = [update EXCEPT !.state = "refresh"]
          /\ IF update.live
             THEN settingsForm' = View(stored) /\ apiKeyInput' = "" /\ edited' = FALSE
             ELSE UNCHANGED <<settingsForm, apiKeyInput, edited>>
     ELSE update' = NoUpdate /\ UNCHANGED <<settingsForm, apiKeyInput, edited>>
  /\ saved' = (update.state = "ok" /\ update.live /\ Answered)
  /\ UNCHANGED <<stored, settingsPage, sharedSettings, testResult, tests, keyWanted, unread,
                 settingsActs>>

\* The context reads the settings, or keeps what it has.
refresh ==
  /\ update.state = "refresh" /\ update' = NoUpdate
  /\ \/ sharedSettings' = View(stored) /\ unread' = FALSE
     \/ unread' = TRUE /\ UNCHANGED sharedSettings
  /\ saved' = update.live
  /\ UNCHANGED <<stored, settingsForm, settingsPage, apiKeyInput, testResult, tests, edited,
                 keyWanted, settingsActs>>

\* Two seconds after any of the saves.
Unsaved ==
  /\ saved /\ saved' = FALSE
  /\ UNCHANGED <<stored, settingsForm, settingsPage, apiKeyInput, update, sharedSettings,
                 testResult, tests, edited, keyWanted, unread, settingsActs>>

SettingsNext ==
  \/ Load \/ ToggleMaintenance \/ CheckFallback \/ handleSave \/ handleTestConnection
  \/ LeaveSettings \/ Return \/ update_system_settings \/ Answer \/ refresh \/ Unsaved
  \/ \E u \in Urls : TypeUrl(u) \/ Tested(u)
  \/ \E k \in ApiKeys \cup {"", "clear"} : TypeKey(k)

SettingsSpec == SettingsInit /\ [][SettingsNext]_settingsVars

-----------------------------------------------------------------------------
(* A property of the system page *)

\* The elevation service's key is the one entered last, through saves that enter none, saves that
\* fail and visits that read only a mask. And while the page says Saved, what it shows and nobody
\* has changed since is what the backend stores and what the other pages read.
SettingsStand ==
  /\ update.state = "idle" => stored.key = keyWanted
  /\ saved /\ ~edited => settingsForm = View(stored) /\ (sharedSettings = View(stored) \/ unread)
===============================================================================
