------------------------------- MODULE Settings -------------------------------
(***************************************************************************)
(* PATCH /api/v1/settings and /api/v1/settings/mobile: two requests that   *)
(* each carry some fields of one row.  A handler reads the row, overlays   *)
(* the fields and writes all of them back, two statements that others come *)
(* between.                                                                *)
(***************************************************************************)
EXTENDS Users

CONSTANTS
  Handler,
  MobileField,     \* what /settings/mobile speaks of
  WebField,        \* what /settings speaks of
  Value,
  InRange,         \* InRange[f]: the documented range of a mobile field
  Scaled,          \* Scaled[f][v]: what is stored for v in a body of /settings,
                   \* a hundredth for route_opacity, v itself for the others
  Default,         \* model.DefaultSettings
  NoRow,           \* the user has not signed up
  Idle             \* the handler has no request

Row == [MobileField \cup WebField -> Value]

ASSUME InRangeAssumption == InRange \in [MobileField -> SUBSET Value]
ASSUME ScaledAssumption == Scaled \in [WebField -> [Value -> Value]]
ASSUME FieldAssumption == MobileField \cap WebField = {}
ASSUME DefaultAssumption ==
  /\ Default \in Row
  /\ \A f \in MobileField : Default[f] \in InRange[f]
ASSUME NoRowAssumption == NoRow \notin Row

VARIABLES
  settings,        \* the table
  handler          \* handler[h]: a request and the row h has read for it

settingsVars == <<settings, handler>>

\* The bodies that carry some of the fields.
Bodies(fields) == UNION {[carried -> Value] : carried \in SUBSET fields}

MobileSettingsUpdate == Bodies(MobileField)

SettingsUpdate == Bodies(WebField)

Request ==
  [route : {"mobile"}, user : User, body : MobileSettingsUpdate, current : Row] \cup
  [route : {"web"}, user : User, body : SettingsUpdate, current : Row]

SettingsTypeOK ==
  /\ \A u \in User : settings[u] \in Row \cup {NoRow}
  /\ \A h \in Handler : handler[h] \in Request \cup {Idle}

SettingsInit == settings = [u \in User |-> NoRow] /\ handler = [h \in Handler |-> Idle]

\* The user and the row of defaults are one transaction.
Register(u) ==
  /\ settings[u] = NoRow
  /\ settings' = [settings EXCEPT ![u] = Default]
  /\ UNCHANGED handler

\* The row a handler reads.  Requests are authenticated, so their user has one.
Get(h, u, route, body) ==
  /\ handler[h] = Idle /\ settings[u] # NoRow
  /\ handler' = [handler EXCEPT ![h] =
       [route |-> route, user |-> u, body |-> body, current |-> settings[u]]]
  /\ UNCHANGED settings

\* The handlers up to their first statement.
patchMobileSettings(h, u) == \E body \in MobileSettingsUpdate : Get(h, u, "mobile", body)

patchSettings(h, u) == \E body \in SettingsUpdate : Get(h, u, "web", body)

\* The row with the fields that were sent in place of its own.
Overlaid(row, sent) == [f \in DOMAIN row |-> IF f \in DOMAIN sent THEN sent[f] ELSE row[f]]

applyMobileSettingsUpdate(current, req) == Overlaid(current, req)

applySettingsUpdate(current, req) ==
  Overlaid(current, [f \in DOMAIN req |-> Scaled[f][req[f]]])

Overlay(request) ==
  IF request.route = "mobile" THEN applyMobileSettingsUpdate(request.current, request.body)
  ELSE applySettingsUpdate(request.current, request.body)

\* Mutant: the row is validated before the overlay.
ValidBefore(request) ==
  request.route = "mobile" => \A f \in MobileField : request.current[f] \in InRange[f]

\* validateMobileSettings; the other route has no ranges.
Valid(request) ==
  request.route = "mobile" => \A f \in MobileField : Overlay(request)[f] \in InRange[f]

\* Mutant: the body replaces the row.
UpdateBody(h) ==
  /\ handler[h] # Idle
  /\ Valid(handler[h])
  /\ settings' = [settings EXCEPT ![handler[h].user] = handler[h].body]
  /\ handler' = [handler EXCEPT ![h] = Idle]

Update(h) ==
  /\ handler[h] # Idle
  /\ Valid(handler[h])
  /\ settings' = [settings EXCEPT ![handler[h].user] = Overlay(handler[h])]
  /\ handler' = [handler EXCEPT ![h] = Idle]

\* 422, or the request fails or is given up.
Refuse(h) ==
  /\ handler[h] # Idle
  /\ handler' = [handler EXCEPT ![h] = Idle]
  /\ UNCHANGED settings

SettingsNext ==
  \/ \E u \in User : Register(u)
  \/ \E h \in Handler :
       \/ Update(h) \/ Refuse(h)
       \/ \E u \in User : patchMobileSettings(h, u) \/ patchSettings(h, u)

SettingsSpec == SettingsInit /\ [][SettingsNext]_settingsVars

-----------------------------------------------------------------------------

\* A request to the mobile route is refused for what it carries alone: whatever
\* was stored, by either route and from rows read long before, is in range.
RefusedForItsOwn ==
  \A h \in Handler :
    /\ handler[h] # Idle
    /\ \A f \in MobileField \cap DOMAIN handler[h].body : handler[h].body[f] \in InRange[f]
    => Valid(handler[h])

\* "One it omits is left as it was": a request changes no field but those it
\* carries.  It does where another one came between its two statements, whose
\* field it puts back.
OmittedKept ==
  [][\A h \in Handler : Update(h) =>
       \A f \in (MobileField \cup WebField) \ DOMAIN handler[h].body :
         settings'[handler[h].user][f] = settings[handler[h].user][f]]_settingsVars

=============================================================================
