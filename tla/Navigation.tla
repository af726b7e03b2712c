---------------------------- MODULE Navigation ----------------------------
(***************************************************************************)
(* Which page a person is on: the routes of App, their guards, the page    *)
(* each person visited last, the bars of the three centers with their      *)
(* links, menu and airport selector, and the airport that follows the      *)
(* address in the coordinator center. Who is logged in comes from the      *)
(* module Session and is one value here; a mission's pages are in          *)
(* MissionTabs.                                                            *)
(*                                                                         *)
(* A guard answers an address with another one; React moves there before   *)
(* anyone can act. The address a guard answers is computed when the page   *)
(* is rendered, before the visit is remembered.                            *)
(***************************************************************************)
EXTENDS Naturals, Sequences

CONSTANTS
  Fields,       \* the airports there are
  NoField,      \* no airport, or a page of none
  MaxNavActs    \* bound: clicks, page loads and changes of the session

NavigationAssumption == NoField \notin Fields /\ MaxNavActs \in Nat

VARIABLES
  role,         \* of the person logged in, or "none"
  restoring,    \* isLoading: the session is being restored
  at,           \* the address: [area, name, of]
  visited,      \* localStorage: the address visited last, or Nowhere
  answer,       \* where the guards of the page send, or Nowhere
  chosen,       \* selectedAirport
  detail,       \* the airport whose detail was asked for last, while its answer is awaited
  layout,       \* the center whose bar is mounted, or "none"
  followed,     \* prevAirportIdRef of CoordinatorLayout
  selector,     \* AirportSelector: [open, list]
  menu,         \* UserMenu is open
  hops,         \* moves since somebody acted
  arrived,      \* the airport that was selected when the address was reached
  strayed,      \* a page was loaded at an address of a center that does not exist
  navActs

navVars == <<role, restoring, at, visited, answer, chosen, detail, layout, followed, selector,
             menu, hops, arrived, strayed, navActs>>

Page(area, name) == [area |-> area, name |-> name, of |-> NoField]
Detail(area, name, f) == [area |-> area, name |-> name, of |-> f]
Nowhere == Page("none", "none")

LoginPage == Page("public", "login")
Dashboard == Page("operator", "dashboard")
AirportList == Page("coordinator", "airports")

\* An inspection template; which one makes no difference here.
TemplatePage == Page("coordinator", "inspections/id")

Centers == {"operator", "coordinator", "admin"}

names == [public |-> {"login", "setup-password", "maintenance"},
          operator |-> {"dashboard", "field-ops", "drones", "missions", "airport"},
          coordinator |-> {"airports", "inspections", "inspections/id", "drones"},
          admin |-> {"users", "airports", "system", "audit-log"}]

\* The routes of App, and the address that login sends to without a remembered airport, which
\* is none of them.
Routes ==
  UNION {{Page(a, n) : n \in names[a]} : a \in DOMAIN names}
    \cup {Detail(a, "airports", f) : a \in {"coordinator", "admin"}, f \in Fields}
AirportSelection == Page("operator", "airport-selection")
Addresses == Routes \cup {AirportSelection, Page("root", "unknown")}

\* Whether App has a route for an address: one of Routes.
Routed(p) ==
  \/ p.of = NoField /\ p.area \in DOMAIN names /\ p.name \in names[p.area]
  \/ p.of \in Fields /\ p.area \in {"coordinator", "admin"} /\ p.name = "airports"

Roles == {"OPERATOR", "COORDINATOR", "SUPER_ADMIN"}

ROLE_LEVEL == [none |-> 0, OPERATOR |-> 1, COORDINATOR |-> 2, SUPER_ADMIN |-> 3]
requiredRole == [operator |-> "OPERATOR", coordinator |-> "COORDINATOR", admin |-> "SUPER_ADMIN"]

ROLE_PREFIX == [OPERATOR |-> "operator", COORDINATOR |-> "coordinator", SUPER_ADMIN |-> "admin"]

getDefaultPathForRole(r) ==
  CASE r = "COORDINATOR" -> AirportList
    [] r = "SUPER_ADMIN" -> Page("admin", "users")
    [] OTHER -> Dashboard

\* The address visited last, when it is of the role's own center.
getLastVisitedPath(r, last) == IF last.area = ROLE_PREFIX[r] THEN last ELSE Nowhere

\* useLastVisitedPath: the pages of login, setup and maintenance and the root are not remembered.
Remembered(p, last) == IF p.area \in {"public", "root"} THEN last ELSE p

\* LoginPage.getPostLoginPath, from the airport in localStorage.
getPostLoginPath(f) == IF f # NoField THEN Dashboard ELSE AirportSelection

-----------------------------------------------------------------------------
(* Guards. What the routes answer to an address: Nowhere when its page is shown. *)

\* Mutant of CatchAllRedirect: without a page to return to the answer is the login page.
CatchAllRedirect_login(r, last) ==
  IF r = "none" \/ getLastVisitedPath(r, last) = Nowhere THEN LoginPage
  ELSE getLastVisitedPath(r, last)

CatchAllRedirect(r, last) ==
  IF r = "none" THEN LoginPage
  ELSE IF getLastVisitedPath(r, last) # Nowhere THEN getLastVisitedPath(r, last)
  ELSE getDefaultPathForRole(r)

\* Mutant of ProtectedRoute: everybody who is logged in passes.
ProtectedRoute_any(p, r) == IF r = "none" THEN LoginPage ELSE Nowhere

ProtectedRoute(p, r) ==
  IF r = "none" THEN LoginPage
  ELSE IF ROLE_LEVEL[r] >= ROLE_LEVEL[requiredRole[p.area]] THEN Nowhere
  ELSE IF ROLE_LEVEL[r] >= ROLE_LEVEL["COORDINATOR"] THEN AirportList ELSE Dashboard

RequireAirport(p, f) ==
  IF p \in {Page("operator", "missions"), Page("operator", "airport")} /\ f = NoField
  THEN Dashboard ELSE Nowhere

Guarded(p, r, f) ==
  IF ProtectedRoute(p, r) # Nowhere THEN ProtectedRoute(p, r) ELSE RequireAirport(p, f)

\* While the session is being restored every page is blank but setup and maintenance.
Rendered(p, r, loading, f, last) ==
  IF p = LoginPage THEN IF ~loading /\ r # "none" THEN getPostLoginPath(f) ELSE Nowhere
  ELSE IF p.area = "public" \/ loading THEN Nowhere
  ELSE IF Routed(p) THEN Guarded(p, r, f) ELSE CatchAllRedirect(r, last)

-----------------------------------------------------------------------------
(* Effects. nav is what the page consists of after a change: [at, chosen, asked, role,          *)
(* restoring], and Becomes computes the guards, the bar and what CoordinatorLayout does.         *)

Nav == [at |-> at, chosen |-> chosen, asked |-> detail, role |-> role, restoring |-> restoring]

Answer(nav, last) == Rendered(nav.at, nav.role, nav.restoring, nav.chosen, last)

Mounts(nav, last) ==
  IF nav.at.area \in Centers /\ ~nav.restoring /\ nav.role # "none" /\ Answer(nav, last) = Nowhere
  THEN nav.at.area ELSE "none"

\* CoordinatorLayout, mounted: the operator's airport is cleared unless the address is that
\* airport's.
Entered(nav) ==
  IF nav.at = Detail("coordinator", "airports", nav.chosen) THEN nav
  ELSE [nav EXCEPT !.chosen = NoField]

\* Mutant of Follow: an address of the list stays.
Follow_list(nav) == nav

\* CoordinatorLayout: when the airport changes, the pages of airports follow it and a template's
\* page gives way to the list of templates.
Follow(nav) ==
  IF nav.at.area = "coordinator" /\ nav.at.name = "airports"
  THEN [nav EXCEPT !.at = Detail("coordinator", "airports", nav.chosen)]
  ELSE IF nav.at = TemplatePage THEN [nav EXCEPT !.at = Page("coordinator", "inspections")]
  ELSE nav

\* The bar, with its selector and menu, is mounted again in another center.
Bar(l) ==
  IF l = layout THEN UNCHANGED <<selector, menu>>
  ELSE selector' = [open |-> FALSE, list |-> "loading"] /\ menu' = FALSE

\* What the effects leave of a page whose bar is mounted: entering the center, then following.
Effects(nav, mounts) ==
  LET entering == mounts = "coordinator" /\ layout # "coordinator"
      before   == IF entering THEN nav.chosen ELSE followed
      entered  == IF entering THEN Entered(nav) ELSE nav
  IN  IF mounts = "coordinator" /\ entered.chosen # before THEN Follow(entered) ELSE entered

Becomes(nav) ==
  \E mounts \in {Mounts(nav, visited)} : \E settled \in {Effects(nav, mounts)} :
     /\ at' = settled.at /\ chosen' = settled.chosen /\ detail' = settled.asked
     /\ role' = settled.role /\ restoring' = settled.restoring
     /\ answer' = Answer(nav, visited)
     /\ visited' = Remembered(settled.at, Remembered(nav.at, visited))
     /\ layout' = mounts /\ arrived' = IF settled.at = at THEN arrived ELSE settled.chosen
     /\ followed' = IF mounts = "coordinator" THEN settled.chosen ELSE NoField
     /\ Bar(mounts)

Settled == answer \in {Nowhere, at}

\* The page moves where its guards send it.
Redirect ==
  /\ ~Settled
  /\ hops' = hops + 1
  /\ Becomes([Nav EXCEPT !.at = answer])
  /\ UNCHANGED <<strayed, navActs>>

Act == Settled /\ navActs < MaxNavActs /\ navActs' = navActs + 1 /\ hops' = 0

-----------------------------------------------------------------------------
(* The session *)

\* AuthContext: the refresh cookie is answered, or there is none.
SessionRestored(r) ==
  /\ Settled /\ restoring /\ hops' = 0 /\ navActs' = navActs
  /\ Becomes([Nav EXCEPT !.restoring = FALSE, !.role = r])
  /\ UNCHANGED strayed

\* LoginPage.handleSubmit moves on; its guard, rendered anew, would send to the same page.
LoggedIn(r) ==
  /\ Act /\ at = LoginPage /\ ~restoring
  /\ Becomes([Nav EXCEPT !.role = r, !.at = getPostLoginPath(chosen)])
  /\ UNCHANGED strayed

\* UserMenu.handleLogout
handleLogout ==
  /\ Act /\ menu
  /\ Becomes([Nav EXCEPT !.role = "none", !.at = LoginPage])
  /\ UNCHANGED strayed

\* A renewal that failed logs out without moving.
SessionLost ==
  /\ Act /\ role # "none" /\ ~restoring
  /\ Becomes([Nav EXCEPT !.role = "none"])
  /\ UNCHANGED strayed

\* The page is loaded at an address: AirportContext reads the chosen airport from localStorage
\* and asks for its detail. Nothing is mounted until the session is restored.
Load ==
  /\ Act
  /\ \E p \in Addresses :
       /\ at' = p /\ visited' = Remembered(p, visited)
       /\ strayed' = (strayed \/ p = AirportSelection)
  /\ role' = "none" /\ restoring' = TRUE /\ answer' = Nowhere
  /\ detail' = chosen /\ UNCHANGED chosen
  /\ layout' = "none" /\ followed' = NoField /\ arrived' = chosen
  /\ selector' = [open |-> FALSE, list |-> "loading"] /\ menu' = FALSE

-----------------------------------------------------------------------------
(* Bars and links *)

items == [operator |-> {Page("operator", n) :
                          n \in {"dashboard", "missions", "airport", "drones", "field-ops"}},
          coordinator |-> {Page("coordinator", n) : n \in {"airports", "inspections", "drones"}},
          admin |-> {Page("admin", n) : n \in {"users", "airports", "system", "audit-log"}},
          none |-> {}]

home == [operator |-> Dashboard, coordinator |-> AirportList, admin |-> Page("admin", "users"),
         none |-> Nowhere]

\* The pills of the center, those of an operator without an airport disabled; the logo; and
\* the pills of the other centers.
Pills ==
  (IF layout = "operator" /\ chosen = NoField THEN {} ELSE items[layout])
    \cup {home[layout]}
    \cup CASE layout = "coordinator" -> {Dashboard}
           [] layout = "admin" -> {Dashboard, AirportList}
           [] OTHER -> {}

\* Mutant of MenuItems: the configurator center is offered to operators, and leads nowhere.
MenuItems_all ==
  {Dashboard, AirportList, Page("admin", "users")} \ {home[layout]}

\* The centers that UserMenu offers.
MenuItems ==
  (IF layout = "admin" \/ (layout = "operator" /\ role \in {"COORDINATOR", "SUPER_ADMIN"})
   THEN {AirportList} ELSE {})
  \cup (IF layout \in {"coordinator", "admin"} THEN {Dashboard} ELSE {})
  \cup (IF layout # "admin" /\ role = "SUPER_ADMIN" THEN {Page("admin", "users")} ELSE {})

Move(p) == Becomes([Nav EXCEPT !.at = p]) /\ UNCHANGED strayed

ClickPill == Act /\ layout # "none" /\ \E p \in Pills : p # at /\ Move(p)

OpenMenu ==
  /\ Act /\ layout # "none" /\ ~menu /\ menu' = TRUE
  /\ UNCHANGED <<role, restoring, at, visited, answer, chosen, detail, layout, followed, selector,
                 arrived, strayed>>

ClickMenu == Act /\ menu /\ \E p \in MenuItems : Move(p)

\* The list of airports opens one: it is selected, and then navigated to.
handleRowClick(f) ==
  /\ Act /\ layout = "coordinator" /\ at = AirportList
  /\ Becomes([Nav EXCEPT !.chosen = f, !.asked = f, !.at = Detail("coordinator", "airports", f)])
  /\ UNCHANGED strayed

\* An airport that was created is navigated to only; its page selects it once it is read.
handleCreated(f) ==
  /\ Act /\ layout = "coordinator" /\ at = AirportList
  /\ Move(Detail("coordinator", "airports", f))

EditorRead ==
  /\ Act /\ layout = "coordinator" /\ at.name = "airports" /\ at.of # NoField
  /\ Becomes([Nav EXCEPT !.chosen = at.of, !.asked = at.of])
  /\ UNCHANGED strayed

OpenTemplate ==
  /\ Act /\ layout = "coordinator" /\ at = Page("coordinator", "inspections")
  /\ Move(TemplatePage)

\* A super-admin's page of an airport, and from there its page in the coordinator center.
OpenInAdmin(f) ==
  /\ Act /\ layout = "admin" /\ at = Page("admin", "airports")
  /\ Move(Detail("admin", "airports", f))

\* The link of a row in the super-admin's list, which selects nothing on its way.
OpenInConfigurator(f) ==
  /\ Act /\ layout = "admin" /\ at = Page("admin", "airports")
  /\ Move(Detail("coordinator", "airports", f))

openInCoordinator ==
  /\ Act /\ layout = "admin" /\ at.of # NoField
  /\ Becomes([Nav EXCEPT !.chosen = at.of, !.asked = at.of,
                         !.at = Detail("coordinator", "airports", at.of)])
  /\ UNCHANGED strayed

-----------------------------------------------------------------------------
(* AirportSelector and AirportContext *)

HasSelector == layout \in {"operator", "coordinator"}

\* The list of airports is answered, or not; it can be asked for again.
ListLands(list) ==
  /\ Settled /\ HasSelector /\ selector.list = "loading"
  /\ selector' = [selector EXCEPT !.list = list]
  /\ UNCHANGED <<role, restoring, at, visited, answer, chosen, detail, layout, followed, menu,
                 hops, arrived, strayed, navActs>>

ToggleSelector ==
  /\ Act /\ HasSelector
  /\ selector' = [selector EXCEPT !.open = ~@]
  /\ UNCHANGED <<role, restoring, at, visited, answer, chosen, detail, layout, followed, menu,
                 arrived, strayed>>

RetryList ==
  /\ Act /\ HasSelector /\ selector.open /\ selector.list = "error"
  /\ selector' = [selector EXCEPT !.list = "loading"]
  /\ UNCHANGED <<role, restoring, at, visited, answer, chosen, detail, layout, followed, menu,
                 arrived, strayed>>

selectAirport(f) ==
  /\ Act /\ HasSelector /\ selector.open /\ selector.list = "ok"
  /\ selector' = [selector EXCEPT !.open = FALSE] /\ menu' = menu
  /\ LET nav == [Nav EXCEPT !.chosen = f, !.asked = f]
         settled == IF layout = "coordinator" /\ f # followed THEN Follow(nav) ELSE nav
     IN /\ at' = settled.at /\ chosen' = f /\ detail' = f
        /\ answer' = Answer(nav, visited) /\ visited' = Remembered(settled.at, visited)
        /\ followed' = IF layout = "coordinator" THEN f ELSE NoField
        /\ arrived' = IF settled.at = at THEN arrived ELSE f
  /\ UNCHANGED <<role, restoring, layout, strayed>>

\* The cross in the selector; an answer that is awaited stays awaited.
clearAirport ==
  /\ Act /\ HasSelector /\ chosen # NoField
  /\ Becomes([Nav EXCEPT !.chosen = NoField])
  /\ UNCHANGED strayed

\* The detail that was asked for last arrives, and selects its airport if another or none is.
DetailLands ==
  /\ Settled /\ detail # NoField /\ hops' = 0 /\ navActs' = navActs
  /\ Becomes([Nav EXCEPT !.chosen = detail, !.asked = NoField])
  /\ UNCHANGED strayed

DetailFails ==
  /\ Settled /\ detail # NoField /\ detail' = NoField
  /\ UNCHANGED <<role, restoring, at, visited, answer, chosen, layout, followed, selector, menu,
                 hops, arrived, strayed, navActs>>

Init ==
  /\ role = "none" /\ restoring = TRUE
  /\ at \in {LoginPage, AirportList, Page("root", "unknown")}
  /\ visited \in {Nowhere, Page("operator", "missions"), Page("admin", "system")}
  /\ answer = Nowhere
  /\ chosen \in {NoField, CHOOSE f \in Fields : TRUE} /\ detail = chosen
  /\ layout = "none" /\ followed = NoField
  /\ selector = [open |-> FALSE, list |-> "loading"] /\ menu = FALSE
  /\ arrived = chosen /\ hops = 0 /\ navActs = 0 /\ strayed = FALSE

Next ==
  \/ Redirect
  \/ \E r \in Roles \cup {"none"} : SessionRestored(r)
  \/ \E r \in Roles : LoggedIn(r)
  \/ handleLogout \/ SessionLost
  \/ Load
  \/ ClickPill \/ OpenMenu \/ ClickMenu
  \/ \E f \in Fields : handleRowClick(f) \/ handleCreated(f) \/ OpenInAdmin(f) \/ selectAirport(f)
                     \/ OpenInConfigurator(f)
  \/ EditorRead \/ OpenTemplate \/ openInCoordinator
  \/ \E list \in {"ok", "error"} : ListLands(list)
  \/ ToggleSelector \/ RetryList \/ clearAirport
  \/ DetailLands \/ DetailFails

Spec == Init /\ [][Next]_navVars

-----------------------------------------------------------------------------
(* Properties *)

\* Every variable stays in its range.
TypeOK ==
  /\ role \in Roles \cup {"none"} /\ restoring \in BOOLEAN
  /\ \A p \in {at, visited, answer} :
       Routed(p) \/ p \in {AirportSelection, Page("root", "unknown")} \/ p = Nowhere
  /\ at # Nowhere
  /\ chosen \in Fields \cup {NoField} /\ detail \in Fields \cup {NoField}
  /\ layout \in Centers \cup {"none"} /\ followed \in Fields \cup {NoField}
  /\ selector \in [open : BOOLEAN, list : {"loading", "ok", "error"}] /\ menu \in BOOLEAN
  /\ hops \in Nat /\ arrived \in Fields \cup {NoField} /\ strayed \in BOOLEAN /\ navActs \in 0..MaxNavActs

\* Once the guards have settled, the page that is shown is one the person's role admits, with
\* the bar of its center, and never a page about an airport without one; whoever logged out or
\* was logged out meanwhile.
PageOfRole ==
  Settled /\ ~restoring /\ at.area \in Centers /\ Routed(at) =>
    /\ ROLE_LEVEL[role] >= ROLE_LEVEL[requiredRole[at.area]]
    /\ layout = at.area
    /\ at \in {Page("operator", "missions"), Page("operator", "airport")} => chosen # NoField

\* The guards do not send a page in circles, and nobody stays at an address that does not exist,
\* unless one of a center was once loaded: it is remembered as the page to return to.
RedirectsEnd ==
  /\ hops <= 3
  /\ Settled /\ ~restoring /\ ~strayed => Routed(at)

\* In the coordinator center the page of an airport follows the selection, in whatever order the
\* selector, the page and late answers select: the two differ only from the time the page was
\* opened without selecting until the selection changes.
AirportFollows ==
  layout = "coordinator" /\ at.name = "airports" /\ at.of \notin {NoField, chosen} =>
    chosen = arrived

\* No pill and no entry of the menu leads to a page that its reader's role refuses.
LinksAdmit ==
  Settled /\ layout # "none" =>
    \A p \in Pills \cup MenuItems : ProtectedRoute(p, role) = Nowhere
=============================================================================
