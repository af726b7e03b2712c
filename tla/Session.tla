------------------------------ MODULE Session ------------------------------
(***************************************************************************)
(* Who the browser tab believes is logged in: the axios client and its     *)
(* renewal of expired access tokens (api/client.ts), the token store,      *)
(* AuthContext, the cache of system settings, the login and password       *)
(* setup pages and the dialog in which people change their own name and    *)
(* password.                                                               *)
(*                                                                         *)
(* A request answered 401 parks until one renewal, shared by all of them,  *)
(* answers; it is then sent again with the new token. Answers land in any  *)
(* order, also those of a session that has ended. The backend reads the    *)
(* refresh cookie when it serves a renewal, and the answer lands later;    *)
(* every other request is served when its answer lands.                    *)
(***************************************************************************)
EXTENDS Naturals, FiniteSets, Sequences

CONSTANTS People,         \* accounts that log in on this browser
          SuperAdmins,    \* those with the role SUPER_ADMIN
          NoPerson,       \* nobody
          MaxTokens,      \* bound: access tokens the backend hands out
          MaxSessionActs  \* bound: user actions, expiries and switches of maintenance

SessionAssumption ==
    /\ SuperAdmins \subseteq People
    /\ NoPerson \notin People
    /\ MaxTokens \in Nat \ {0}
    /\ MaxSessionActs \in Nat

VARIABLES tab,    \* token store, AuthContext, settings and the page shown
          door,   \* the client's module variables: isRefreshing and those that wait
          calls,  \* requests under way
          host,   \* external: the backend and the browser's refresh cookie
          form,   \* login, setup and settings forms
          sessActs

sessionVars == <<tab, door, calls, host, form, sessActs>>

Kinds == {"restore", "whoami", "login", "logout", "renew", "settings", "page",
          "rename", "reread", "password", "setup"}

\* The paths whose 401 is the caller's own business, and that carry no
\* token.
PUBLIC_PATHS == {"restore", "login", "logout", "renew", "setup"}

Screens == {"app", "login", "setup", "maintenance"}

NoSettings == [of |-> NoPerson, maintenance |-> FALSE]

Names == 0..1

Call(kind, by, name) ==
    [kind |-> kind, by |-> by, name |-> name, token |-> tab.token, retry |-> FALSE,
     epoch |-> tab.epoch, answer |-> 0, id |-> sessActs]

\* isAuthenticated
Authenticated(t) == t.held # 0 /\ t.user # NoPerson

----------------------------------------------------------------------------
\* What React does once the state has changed

\* ProtectedRoute sends a logged-out visitor to the login page, LoginPage
\* sends a logged-in one into the app; while the session is being restored
\* both show nothing and stay.
Routed(t) ==
    [t EXCEPT !.screen =
        IF t.loading THEN @
        ELSE IF @ = "app" /\ ~Authenticated(t) THEN "login"
        ELSE IF @ = "login" /\ Authenticated(t) THEN "app" ELSE @]

\* SystemSettingsProvider.refresh, which runs when isAuthenticated flips.
Flipped(t) == Authenticated(t) # Authenticated(tab)

\* Mutant of Cached: the settings stay when the session ends.
Cached_kept(t) == t

Cached(t) ==
    IF Flipped(t) /\ ~Authenticated(t) THEN [t EXCEPT !.settings = NoSettings] ELSE t

Fetches(t) ==
    IF Flipped(t) /\ Authenticated(t)
    THEN {[Call("settings", NoPerson, 0) EXCEPT !.token = t.token, !.epoch = t.epoch]}
    ELSE {}

Commit(t, cs) ==
    /\ tab' = Routed(Cached(t))
    /\ calls' = cs \union Fetches(t)

----------------------------------------------------------------------------
\* Forms. Login, setup and settings dialog; the dialog lives in the bar of
\* the app and is forgotten with it.

BlankDialog(t) ==
    [open |-> FALSE, name |-> t.name, saving |-> FALSE, nameError |-> FALSE,
     saved |-> FALSE, password |-> "empty", changing |-> FALSE, note |-> "none"]

BlankForm(t) ==
    [dialog |-> BlankDialog(t), loggingIn |-> FALSE, wrong |-> FALSE,
     settingUp |-> FALSE, setupNote |-> "none"]

\* A page load: every variable of the page starts again and AuthProvider
\* asks for a token with the refresh cookie the browser kept.
Loaded(screen) ==
    [token |-> 0, held |-> 0, user |-> NoPerson, name |-> 0, loading |-> TRUE,
     screen |-> screen, settings |-> NoSettings, epoch |-> tab.epoch + 1, late |-> FALSE]

Load(screen) ==
    /\ tab' = Loaded(screen)
    /\ door' = [refreshing |-> FALSE, queue |-> {}, leader |-> {}]
    /\ calls' = {[Call("restore", NoPerson, 0) EXCEPT !.epoch = tab.epoch + 1, !.token = 0]}
    /\ form' = BlankForm(Loaded(screen))

\* AuthContext.logout: everything the tab holds is dropped at once, the
\* cookie when the request reaches the backend. Requests under way stay
\* under way.
LoggedOut(t) ==
    [t EXCEPT !.held = 0, !.user = NoPerson, !.token = 0, !.name = 0, !.epoch = @ + 1,
              !.late = @ /\ ~Authenticated(t)]

GoodbyeCall == Call("logout", NoPerson, 0)

\* The dialog goes with the session; an instance of it receives only the
\* answers to its own requests.
OnLeave(t, f) == IF t.epoch # tab.epoch THEN [f EXCEPT !.dialog = BlankDialog(t)] ELSE f

----------------------------------------------------------------------------
\* Answers

Live(token) == token # 0 /\ token \notin host.dead

\* External: the status codes the backend may answer with. In maintenance
\* only a valid token of a super-admin passes; paths of authentication and
\* administration pass always.
Statuses(c) ==
    IF c.kind \in {"restore", "renew"} THEN {IF c.answer = 0 THEN 401 ELSE 200, 500}
    ELSE IF c.kind = "login" THEN {200, 401}
    ELSE IF c.kind = "logout" THEN {200}
    ELSE IF c.kind = "setup" THEN {200, 400}
    ELSE IF c.kind = "page" /\ host.maintenance
            /\ ~(Live(c.token) /\ host.owner[c.token] \in SuperAdmins) THEN {503}
    ELSE IF ~Live(c.token) THEN {401}
    ELSE IF c.kind = "password" THEN {200, 400, 500} ELSE {200, 500}

\* The dialog goes with the session, the other two pages stay for as long
\* as they have a request under way: whose answer still finds its form.
Mine(c) == c.kind \in {"login", "setup"} \/ c.epoch = tab.epoch

\* The catch and finally blocks of the callers whose requests cs failed.
RejectedTab(t, cs) ==
    IF \E c \in cs : c.kind \in {"restore", "whoami"} THEN [t EXCEPT !.loading = FALSE] ELSE t

RejectedForm(f, cs, status) ==
    LET mine == {c \in cs : Mine(c)}
        has(kinds) == \E c \in mine : c.kind \in kinds
        d == f.dialog
        named == IF has({"rename", "reread"})
                 THEN [d EXCEPT !.saving = FALSE, !.nameError = TRUE] ELSE d
    IN [f EXCEPT
          !.dialog = IF has({"password"})
                     THEN [named EXCEPT !.changing = FALSE,
                             !.note = IF status = 400 THEN "wrong" ELSE "failed"]
                     ELSE named,
          !.loggingIn = @ /\ ~has({"login"}),
          !.wrong = @ \/ has({"login"}),
          !.settingUp = @ /\ ~has({"setup"}),
          !.setupNote = IF has({"setup"}) THEN "refused" ELSE @]

\* A token is stored by a renewal, a restored session or a login; `late'
\* remembers that the one stored, or the account read with it, belongs to
\* a session that had already ended.
Stale(c) == tab.late \/ c.epoch # tab.epoch

\* Mutant of SignedIn: the token store keeps the token it had.
SignedIn_half(c, token) ==
    [tab EXCEPT !.held = token, !.user = c.by, !.name = host.names[c.by],
                !.epoch = @ + 1]

\* login stores the token in the context and in the token store; settings
\* that came for the session before stay until its own arrive.
SignedIn(c, token) ==
    [tab EXCEPT !.held = token, !.token = token, !.user = c.by,
                !.name = host.names[c.by], !.epoch = @ + 1]

\* The restored session: the token is stored, the account is asked for.
Restored(c, token) == [tab EXCEPT !.held = token, !.token = token, !.late = Stale(c)]

\* Mutant of Known: the name that was shown stays.
Known_named(c, t) == [t EXCEPT !.user = host.owner[c.token], !.late = Stale(c)]

\* setUser with the account the backend answered.
Known(c, t) ==
    [t EXCEPT !.user = host.owner[c.token], !.name = host.names[host.owner[c.token]],
              !.late = Stale(c)]

Answered(c, status) ==
    LET rest == calls \ {c}
        Form(d) == IF Mine(c) THEN [form EXCEPT !.dialog = d] ELSE form
    IN CASE c.kind = "restore" ->
              /\ Commit(Restored(c, c.answer),
                        rest \union {[Call("whoami", NoPerson, 0) EXCEPT !.token = c.answer]})
              /\ UNCHANGED <<door, host, form>>
         [] c.kind = "whoami" ->
              /\ Commit([Known(c, tab) EXCEPT !.loading = FALSE], rest)
              /\ UNCHANGED <<door, host>>
              /\ form' = [form EXCEPT !.dialog = BlankDialog(tab')]
         [] c.kind = "login" ->
              /\ Len(host.owner) < MaxTokens
              /\ host' = [host EXCEPT !.owner = Append(@, c.by), !.cookie = c.by]
              /\ Commit(SignedIn(c, Len(host.owner) + 1), rest)
              /\ form' = BlankForm(tab')
              /\ UNCHANGED door
         [] c.kind = "logout" ->
              /\ host' = [host EXCEPT !.cookie = NoPerson]
              /\ Commit(tab, rest)
              /\ UNCHANGED <<door, form>>
         [] c.kind = "settings" ->
              /\ Commit([tab EXCEPT !.late = Stale(c), !.settings =
                           [of |-> host.owner[c.token], maintenance |-> host.maintenance]], rest)
              /\ UNCHANGED <<door, host, form>>
         [] c.kind = "page" -> Commit(tab, rest) /\ UNCHANGED <<door, host, form>>
         [] c.kind = "rename" ->
              /\ host' = [host EXCEPT !.names[host.owner[c.token]] = c.name]
              /\ Commit(tab, rest \union {[Call("reread", NoPerson, 0) EXCEPT
                                             !.epoch = c.epoch, !.id = c.id]})
              /\ UNCHANGED <<door, form>>
         [] c.kind = "reread" ->
              /\ Commit(Known(c, tab), rest)
              /\ form' = Form([form.dialog EXCEPT !.saving = FALSE, !.saved = TRUE])
              /\ UNCHANGED <<door, host>>
         [] c.kind = "password" ->
              /\ Commit(tab, rest)
              /\ form' = Form([form.dialog EXCEPT !.changing = FALSE, !.note = "saved",
                                                  !.password = "empty"])
              /\ UNCHANGED <<door, host>>
         [] c.kind = "setup" ->
              /\ Commit([tab EXCEPT !.screen = "login"], rest)
              /\ form' = [form EXCEPT !.settingUp = FALSE]
              /\ UNCHANGED <<door, host>>

\* A failure the response interceptor passes on.
Refused(c, status) ==
    /\ Commit(RejectedTab(tab, {c}), calls \ {c})
    /\ form' = RejectedForm(form, {c}, status)
    /\ UNCHANGED <<door, host>>

\* Mutant of Expired: each request that meets a 401 asks for its own renewal.
Expired_each(c) ==
    /\ door' = [door EXCEPT !.refreshing = TRUE, !.leader = @ \union {[c EXCEPT !.retry = TRUE]}]
    /\ Commit(tab, (calls \ {c}) \union {Call("renew", NoPerson, 0)})
    /\ UNCHANGED <<host, form>>

\* 401 on a protected path: the first to meet it asks for a renewal, the
\* others wait for that answer.
Expired(c) ==
    IF door.refreshing
    THEN /\ door' = [door EXCEPT !.queue = @ \union {c}]
         /\ Commit(tab, calls \ {c})
         /\ UNCHANGED <<host, form>>
    ELSE /\ door' = [door EXCEPT !.refreshing = TRUE, !.leader = {[c EXCEPT !.retry = TRUE]}]
         /\ Commit(tab, (calls \ {c}) \union {Call("renew", NoPerson, 0)})
         /\ UNCHANGED <<host, form>>

\* 503: the tab logs out and loads the maintenance page.
Maintenance(c) == Load("maintenance") /\ UNCHANGED host

\* The renewal has answered with a token: those that waited are sent
\* again with it.
Again(token) == {[w EXCEPT !.token = token] : w \in door.leader \union door.queue}

processQueue(c) ==
    /\ Commit([tab EXCEPT !.token = c.answer, !.late = Stale(c)],
              (calls \ {c}) \union Again(c.answer))
    /\ door' = [refreshing |-> FALSE, queue |-> {}, leader |-> {}]
    /\ UNCHANGED <<host, form>>

\* Mutant of Dropped: the request that asked for the renewal is forgotten.
Dropped_queue == door.queue

\* The renewal has failed: everything that waited fails and the tab logs
\* out.
Dropped == door.leader \union door.queue

LogoutTriggered(c) ==
    LET t == RejectedTab(LoggedOut(tab), Dropped)
    IN /\ Commit(t, (calls \ {c}) \union {[GoodbyeCall EXCEPT !.token = 0]})
       /\ form' = OnLeave(t, RejectedForm(form, Dropped, 401))
       /\ door' = [refreshing |-> FALSE, queue |-> {}, leader |-> {}]
       /\ UNCHANGED host

Land(c) ==
    \E status \in Statuses(c) :
        IF status = 503 THEN Maintenance(c)
        ELSE IF c.kind = "renew"
        THEN IF status = 200 THEN processQueue(c) ELSE LogoutTriggered(c)
        ELSE IF status = 200 THEN Answered(c, status)
        ELSE IF status = 401 /\ ~c.retry /\ c.kind \notin PUBLIC_PATHS
        THEN Expired(c) ELSE Refused(c, status)

\* External: the backend serves a renewal: the cookie it came with decides
\* whose token is issued, and the answer sets the cookie again.
Serve(c) ==
    /\ host.cookie # NoPerson /\ Len(host.owner) < MaxTokens
    /\ host' = [host EXCEPT !.owner = Append(@, host.cookie)]
    /\ calls' = (calls \ {c}) \union {[c EXCEPT !.answer = Len(host.owner) + 1]}
    /\ UNCHANGED <<tab, door, form>>

Answers ==
    \E c \in calls :
        \/ c.kind \in {"restore", "renew"} /\ c.answer = 0 /\ Serve(c) /\ UNCHANGED sessActs
        \/ (c.kind \in {"restore", "renew"} /\ c.answer = 0 => host.cookie = NoPerson)
           /\ Land(c) /\ UNCHANGED sessActs

----------------------------------------------------------------------------
\* What people do

Act == sessActs < MaxSessionActs /\ sessActs' = sessActs + 1

InApp == tab.screen = "app" /\ Authenticated(tab)

\* LoginPage.handleSubmit
Login(p) ==
    /\ Act /\ tab.screen = "login" /\ ~tab.loading /\ ~form.loggingIn
    /\ form' = [form EXCEPT !.loggingIn = TRUE, !.wrong = FALSE]
    /\ calls' = calls \union {Call("login", p, 0)}
    /\ UNCHANGED <<tab, door, host>>

\* UserMenu.handleLogout
Logout ==
    /\ Act /\ InApp
    /\ Commit([LoggedOut(tab) EXCEPT !.screen = "login"], calls \union {GoodbyeCall})
    /\ form' = OnLeave(LoggedOut(tab), form)
    /\ UNCHANGED <<door, host>>

\* A page of the app asks the backend for something.
Browse ==
    /\ Act /\ InApp
    /\ calls' = calls \union {Call("page", NoPerson, 0)}
    /\ UNCHANGED <<tab, door, host, form>>

\* The page is loaded again, or opened at the link of an invitation.
Reload(screen) ==
    /\ Act
    /\ screen = "app" => tab.screen # "maintenance"
    /\ Load(screen)
    /\ UNCHANGED host

\* SetupPasswordPage.handleSubmit: two checks before the request.
SetUp(typed) ==
    /\ Act /\ tab.screen = "setup" /\ ~form.settingUp
    /\ form' = IF typed # "ready" THEN [form EXCEPT !.setupNote = typed]
               ELSE [form EXCEPT !.settingUp = TRUE, !.setupNote = "none"]
    /\ calls' = IF typed # "ready" THEN calls ELSE calls \union {Call("setup", NoPerson, 0)}
    /\ UNCHANGED <<tab, door, host>>

\* UserMenu opens the dialog as it was left: emptied by handleClose, or by
\* the mount.
OpenDialog ==
    /\ Act /\ InApp /\ ~form.dialog.open
    /\ form' = [form EXCEPT !.dialog.open = TRUE]
    /\ UNCHANGED <<tab, door, calls, host>>

handleClose ==
    /\ InApp /\ form.dialog.open
    /\ form' = [form EXCEPT !.dialog = BlankDialog(tab)]
    /\ UNCHANGED <<tab, door, calls, host, sessActs>>

TypeName(name) ==
    /\ InApp /\ form.dialog.open /\ form.dialog.name # name
    /\ form' = [form EXCEPT !.dialog.name = name, !.dialog.saved = FALSE]
    /\ UNCHANGED <<tab, door, calls, host, sessActs>>

handleNameSubmit ==
    /\ Act /\ InApp /\ form.dialog.open /\ ~form.dialog.saving
    /\ form.dialog.name # tab.name
    /\ form' = [form EXCEPT !.dialog.saving = TRUE, !.dialog.nameError = FALSE,
                            !.dialog.saved = FALSE]
    /\ calls' = calls \union {Call("rename", NoPerson, form.dialog.name)}
    /\ UNCHANGED <<tab, door, host>>

TypePassword(typed) ==
    /\ Act /\ InApp /\ form.dialog.open /\ form.dialog.password # typed
    /\ form' = [form EXCEPT !.dialog.password = typed,
                            !.dialog.note = IF @ = "saved" THEN "none" ELSE @]
    /\ UNCHANGED <<tab, door, calls, host>>

handlePasswordSubmit ==
    /\ Act /\ InApp /\ form.dialog.open /\ ~form.dialog.changing
    /\ form.dialog.password # "empty"
    /\ IF form.dialog.password # "ready"
       THEN /\ form' = [form EXCEPT !.dialog.note = form.dialog.password]
            /\ UNCHANGED calls
       ELSE /\ form' = [form EXCEPT !.dialog.changing = TRUE, !.dialog.note = "none"]
            /\ calls' = calls \union {Call("password", NoPerson, 0)}
    /\ UNCHANGED <<tab, door, host>>

\* External: the tokens handed out so far expire, or a super-admin
\* elsewhere switches maintenance.
Expire ==
    /\ Act /\ host.dead # DOMAIN host.owner
    /\ host' = [host EXCEPT !.dead = DOMAIN host.owner]
    /\ UNCHANGED <<tab, door, calls, form>>

Switch ==
    /\ Act
    /\ host' = [host EXCEPT !.maintenance = ~@]
    /\ UNCHANGED <<tab, door, calls, form>>

Typed == {"short", "mismatch", "ready"}

Init ==
    /\ \E cookie \in People \union {NoPerson} :
         host = [owner |-> <<>>, dead |-> {}, cookie |-> cookie,
                 names |-> [p \in People |-> 0], maintenance |-> FALSE]
    /\ tab = [token |-> 0, held |-> 0, user |-> NoPerson, name |-> 0, loading |-> TRUE,
              screen |-> "app", settings |-> NoSettings, epoch |-> 0, late |-> FALSE]
    /\ door = [refreshing |-> FALSE, queue |-> {}, leader |-> {}]
    /\ sessActs = 0
    /\ calls = {Call("restore", NoPerson, 0)}
    /\ form = BlankForm(tab)

Next ==
    \/ Answers
    \/ \E p \in People : Login(p)
    \/ Logout \/ Browse \/ Expire \/ Switch
    \/ \E screen \in {"app", "setup"} : Reload(screen)
    \/ \E typed \in Typed : SetUp(typed)
    \/ OpenDialog \/ handleClose \/ handleNameSubmit \/ handlePasswordSubmit
    \/ \E name \in Names : TypeName(name)
    \/ \E typed \in Typed : TypePassword(typed)

Spec == Init /\ [][Next]_sessionVars

----------------------------------------------------------------------------
\* Properties

TokenIds == 0..MaxTokens

CallType ==
    [kind : Kinds, by : People \union {NoPerson}, name : Names, token : TokenIds,
     retry : BOOLEAN, epoch : Nat, answer : TokenIds, id : 0..MaxSessionActs]

\* The type of the tab, the client, the forms and what is under way.
TypeOK ==
    /\ tab \in [token : TokenIds, held : TokenIds, user : People \union {NoPerson},
                name : Names, loading : BOOLEAN, screen : Screens,
                settings : [of : People \union {NoPerson}, maintenance : BOOLEAN],
                epoch : Nat, late : BOOLEAN]
    /\ door.refreshing \in BOOLEAN
    /\ \A c \in calls \union door.queue \union door.leader : c \in CallType
    /\ host.cookie \in People \union {NoPerson}
    /\ host.owner \in Seq(People) /\ host.dead \subseteq DOMAIN host.owner
    /\ form.dialog.name \in Names /\ sessActs \in 0..MaxSessionActs

\* Requests that are, or will be sent again, under way.
Pending == calls \union door.queue \union door.leader

Awaits(kinds) == \E c \in Pending : Mine(c) /\ c.kind \in kinds

\* Nothing waits for an answer that no request can bring: those parked at
\* a renewal have exactly one under way, and every page or button that
\* shows it is busy has its own request pending, through any order of
\* expiries, failed renewals, logouts and logins.
AnswerAwaited ==
    /\ door.refreshing <=> \E c \in calls : c.kind = "renew"
    /\ Cardinality({c \in calls : c.kind = "renew"}) <= 1
    /\ door.queue \union door.leader # {} => door.refreshing
    /\ tab.loading => Awaits({"restore", "whoami"})
    /\ form.loggingIn => Awaits({"login"})
    /\ form.settingUp => Awaits({"setup"})
    /\ form.dialog.saving => Awaits({"rename", "reread"})
    /\ form.dialog.changing => Awaits({"password"})

\* The tab acts and shows as one person: the token requests carry, the
\* token the context holds, the account and the cached settings are all of
\* the same login, except after an answer to a session that had ended was
\* stored over it.
OnePerson ==
    Authenticated(tab) /\ ~tab.late =>
        /\ tab.token # 0
        /\ host.owner[tab.token] = tab.user /\ host.owner[tab.held] = tab.user
        /\ tab.settings.of \in {tab.user, NoPerson}

\* "Saved" under the name is said of the name the backend has and the bar
\* shows, also when the dialog was closed and opened again meanwhile.
SavedIsSaved ==
    form.dialog.saved /\ ~tab.late /\ ~Awaits({"rename", "reread"}) =>
        host.names[tab.user] = tab.name
============================================================================
