---------------------------- MODULE SettingsProofs ----------------------------
(***************************************************************************)
(* Requests that overlay some fields of a row they read before: for any    *)
(* users, handlers, fields and ranges, what is stored stays in range, so   *)
(* that a request is only refused for what it carries.                     *)
(***************************************************************************)
EXTENDS Settings, TLAPS

Field == MobileField \cup WebField

Ranged(row) == \A f \in MobileField : row[f] \in InRange[f]

\* Ranges are only checked for what a mobile request is about to store.  That is
\* enough because what it read was in range before.
SettingsInv ==
  /\ settings \in [User -> Row \cup {NoRow}]
  /\ handler \in [Handler -> Request \cup {Idle}]
  /\ \A u \in User : settings[u] # NoRow => Ranged(settings[u])
  /\ \A h \in Handler : handler[h] # Idle => Ranged(handler[h].current)

-----------------------------------------------------------------------------
(* The overlay *)

\* A body over a row is a row: the body where it has a field, the row elsewhere.
LEMMA OverRow ==
  ASSUME NEW row \in Row, NEW carried \in SUBSET Field, NEW body \in [carried -> Value]
  PROVE  /\ Overlaid(row, body) \in Row
         /\ \A f \in carried : Overlaid(row, body)[f] = body[f]
         /\ \A f \in Field \ carried : Overlaid(row, body)[f] = row[f]
<1>1. DOMAIN body = carried /\ DOMAIN row = Field
  BY DEF Row, Field
<1>2. Overlaid(row, body) = [f \in Field |-> IF f \in carried THEN body[f] ELSE row[f]]
  BY <1>1 DEF Overlaid
<1> QED  BY <1>1, <1>2 DEF Row, Field

\* What a request carries, by route.
LEMMA RequestType ==
  ASSUME NEW request \in Request
  PROVE  /\ request.user \in User /\ request.current \in Row
         /\ DOMAIN request.body \in SUBSET Field
         /\ request.body \in [DOMAIN request.body -> Value]
         /\ \/ request.route = "mobile" /\ DOMAIN request.body \subseteq MobileField
            \/ request.route = "web" /\ DOMAIN request.body \subseteq WebField
<1>1. ASSUME NEW fields, NEW body \in Bodies(fields)
      PROVE  DOMAIN body \subseteq fields /\ body \in [DOMAIN body -> Value]
  BY DEF Bodies
<1>2. /\ request.user \in User /\ request.current \in Row
      /\ \/ request.route = "mobile" /\ request.body \in Bodies(MobileField)
         \/ request.route = "web" /\ request.body \in Bodies(WebField)
  BY DEF Request, MobileSettingsUpdate, SettingsUpdate
<1> QED  BY <1>1, <1>2 DEF Field

\* An overlay is a row that has the fields of the request from it, and all
\* others from the row it read.  No request of /settings has a mobile field.
LEMMA OverlayRow ==
  ASSUME NEW request \in Request
  PROVE  /\ Overlay(request) \in Row
         /\ \A f \in Field \ DOMAIN request.body : Overlay(request)[f] = request.current[f]
         /\ request.route = "mobile" =>
              \A f \in DOMAIN request.body : Overlay(request)[f] = request.body[f]
         /\ request.route # "mobile" =>
              \A f \in MobileField : Overlay(request)[f] = request.current[f]
<1> DEFINE carried == DOMAIN request.body
           scaled == [f \in carried |-> Scaled[f][request.body[f]]]
<1>1. /\ request.current \in Row /\ carried \in SUBSET Field
      /\ request.body \in [carried -> Value]
      /\ \/ request.route = "mobile" /\ carried \subseteq MobileField
         \/ request.route = "web" /\ carried \subseteq WebField
  BY RequestType
<1>2. CASE request.route = "mobile"
  <2>1. Overlay(request) = Overlaid(request.current, request.body)
    BY <1>2 DEF Overlay, applyMobileSettingsUpdate
  <2> QED  BY <1>1, <1>2, <2>1, OverRow
<1>3. CASE request.route = "web" /\ carried \subseteq WebField
  <2>1. Overlay(request) = Overlaid(request.current, scaled)
    BY <1>3 DEF Overlay, applySettingsUpdate
  <2>2. scaled \in [carried -> Value]
    <3>1. ASSUME NEW f \in carried PROVE Scaled[f][request.body[f]] \in Value
      <4>1. request.body[f] \in Value /\ Scaled[f] \in [Value -> Value]
        BY <1>1, <1>3, ScaledAssumption
      <4> QED  BY <4>1
    <3> HIDE DEF carried
    <3> QED  BY <3>1
  <2>3. \A f \in MobileField : f \in Field \ carried
    BY <1>3, FieldAssumption DEF Field
  <2>4. /\ Overlay(request) \in Row
        /\ \A f \in Field \ carried : Overlay(request)[f] = request.current[f]
    <3>1. request.current \in Row /\ carried \in SUBSET Field
      BY <1>1
    <3> HIDE DEF carried, scaled
    <3>2. /\ Overlaid(request.current, scaled) \in Row
          /\ \A f \in Field \ carried : Overlaid(request.current, scaled)[f] = request.current[f]
      BY <2>2, <3>1, OverRow
    <3> QED  BY <2>1, <3>2
  <2> QED  BY <1>3, <2>3, <2>4
<1> QED  BY <1>1, <1>2, <1>3

\* What is stored is in range, if what was read was.
LEMMA ValidRanged ==
  ASSUME NEW request \in Request, Ranged(request.current)
  PROVE  /\ Valid(request) => Ranged(Overlay(request))
         /\ (\A f \in MobileField \cap DOMAIN request.body : request.body[f] \in InRange[f])
              => Valid(request)
<1>1. CASE request.route = "mobile"
  <2>1. \A f \in MobileField : \/ f \in DOMAIN request.body /\ Overlay(request)[f] = request.body[f]
                               \/ f \notin DOMAIN request.body /\ Overlay(request)[f] = request.current[f]
    BY <1>1, OverlayRow DEF Field
  <2> QED  BY <1>1, <2>1 DEF Valid, Ranged
<1>2. CASE request.route # "mobile"
  BY <1>2, OverlayRow DEF Valid, Ranged
<1> QED  BY <1>1, <1>2

-----------------------------------------------------------------------------

\* The invariant holds, whatever comes between the two statements of a request.
THEOREM SettingsInvariant == SettingsSpec => []SettingsInv
<1>1. SettingsInit => SettingsInv
  BY DEF SettingsInit, SettingsInv
<1>2. SettingsInv /\ [SettingsNext]_settingsVars => SettingsInv'
  <2> SUFFICES ASSUME SettingsInv, [SettingsNext]_settingsVars PROVE SettingsInv'
    OBVIOUS
  <2>1. ASSUME NEW u \in User, Register(u) PROVE SettingsInv'
    <3>1. Ranged(Default) /\ Default \in Row
      BY DefaultAssumption DEF Ranged
    <3> QED  BY <2>1, <3>1 DEF Register, SettingsInv
  <2>2. ASSUME NEW h \in Handler, NEW u \in User, NEW route \in {"mobile", "web"}, NEW body,
               Get(h, u, route, body),
               \/ route = "mobile" /\ body \in MobileSettingsUpdate
               \/ route = "web" /\ body \in SettingsUpdate
        PROVE  SettingsInv'
    <3> DEFINE request == [route |-> route, user |-> u, body |-> body, current |-> settings[u]]
    <3>1. settings[u] \in Row /\ Ranged(settings[u])
      BY <2>2 DEF Get, SettingsInv
    <3>2. request \in Request /\ request.current = settings[u]
      BY <2>2, <3>1 DEF Request
    <3>3. handler' = [handler EXCEPT ![h] = request] /\ settings' = settings
      BY <2>2 DEF Get
    <3> HIDE DEF request
    <3> QED  BY <3>1, <3>2, <3>3 DEF SettingsInv
  <2>3. ASSUME NEW h \in Handler, Update(h) PROVE SettingsInv'
    <3>1. handler[h] \in Request /\ Ranged(handler[h].current)
      BY <2>3 DEF Update, SettingsInv
    <3>2. Overlay(handler[h]) \in Row /\ Ranged(Overlay(handler[h]))
      BY <2>3, <3>1, OverlayRow, ValidRanged DEF Update
    <3>3. /\ settings' = [settings EXCEPT ![handler[h].user] = Overlay(handler[h])]
          /\ handler' = [handler EXCEPT ![h] = Idle]
      BY <2>3 DEF Update
    <3> QED  BY <3>2, <3>3 DEF SettingsInv
  <2>4. ASSUME NEW h \in Handler, Refuse(h) PROVE SettingsInv'
    BY <2>4 DEF Refuse, SettingsInv
  <2>5. CASE UNCHANGED settingsVars
    BY <2>5 DEF settingsVars, SettingsInv
  <2> QED
    BY <2>1, <2>2, <2>3, <2>4, <2>5 DEF SettingsNext, patchMobileSettings, patchSettings
<1> QED  BY <1>1, <1>2, PTL DEF SettingsSpec

\* Every stored row and every request under way is well typed.
THEOREM SettingsTypeCorrect == SettingsSpec => []SettingsTypeOK
<1>1. SettingsInv => SettingsTypeOK
  BY DEF SettingsInv, SettingsTypeOK
<1> QED  BY <1>1, SettingsInvariant, PTL

\* A mobile request whose own fields are in range is never refused for a field
\* it did not carry.
THEOREM AlwaysRefusedForItsOwn == SettingsSpec => []RefusedForItsOwn
<1>1. SettingsInv => RefusedForItsOwn
  BY ValidRanged DEF SettingsInv, RefusedForItsOwn
<1> QED  BY <1>1, SettingsInvariant, PTL

=============================================================================
