---------------------------- MODULE Preferences ----------------------------
(***************************************************************************)
(* What a person keeps between visits (pins, saved views, table layouts,   *)
(* the landing page) and what a tenant sets (muted alert types, switches), *)
(* as browser tabs show and save it: LifecyclePreferencesBar.tsx,          *)
(* TableDisplayMenu.tsx and SettingsPage.tsx over routes/preferences.ts    *)
(* and routes/settings.ts.                                                 *)
(*                                                                         *)
(* Preferences are saved whole: a tab takes the copy it has, changes one   *)
(* thing and sends it all, and the server replaces what it had.  Settings  *)
(* are sent by field; the server merges the field into what it reads.      *)
(***************************************************************************)
EXTENDS Naturals, Sequences, FiniteSets, SequencesExt

CONSTANTS
  Tabs,
  Pos,        \* purchase orders that can be pinned
  Views,      \* saved views, by id
  Landings,   \* values of defaultLanding
  Tables,     \* tables with a display menu
  Layouts,    \* what a display menu sets: hidden columns and density
  Plain,      \* the layout that hides nothing and sets no density
  Types,      \* alert types that can be muted
  Unset,
  InitialPrefs,     \* what may be stored at first
  InitialSettings,
  MaxPins,    \* MAX_PINS
  MaxViews,   \* MAX_SAVED_VIEWS
  MaxClicks,  \* bound: saves that are begun
  MaxLost     \* bound: requests that fail or whose answer is lost

Preferred == [pins : SUBSET Pos, views : Seq(Views), landing : Landings \cup {Unset},
              tables : [Tables -> Layouts]]
Configured == [muted : SUBSET Types, digest : BOOLEAN]

\* What is stored has been parsed: it holds no more views than may be saved.
ASSUME PreferencesAssumption ==
  /\ Plain \in Layouts /\ Unset \notin Landings \cup Layouts
  /\ {MaxPins, MaxViews} \subseteq Nat \ {0}
  /\ {MaxClicks, MaxLost} \subseteq Nat
  /\ \A p \in InitialPrefs : p \in Preferred /\ Len(p.views) <= MaxViews
  /\ InitialSettings \subseteq Configured

VARIABLES
  prefs,     \* the person's preferences, as stored
  settings,  \* the tenant's settings, as stored
  copy,      \* per tab: the preferences query's data, or Unset
  shown,     \* per tab: the settings query's data, or Unset
  reading,   \* per tab: the queries it is fetching
  saves,     \* requests that save
  watched,   \* per tab: the save its saved-views bar sent last
  clicks, losses

prefVars == <<prefs, settings, copy, shown, reading, saves, watched, clicks, losses>>

NoPrefs == [pins |-> {}, views |-> <<>>, landing |-> Unset, tables |-> [t \in Tables |-> Plain]]
Fields == {"muted", "digest"}

PreferencesInit ==
  /\ prefs \in InitialPrefs /\ settings \in InitialSettings
  /\ copy = [t \in Tabs |-> Unset] /\ shown = [t \in Tabs |-> Unset]
  /\ reading = [t \in Tabs |-> {"preferences"}]
  /\ saves = {} /\ watched = [t \in Tabs |-> Unset]
  /\ clicks = 0 /\ losses = 0

Loss == losses < MaxLost /\ losses' = losses + 1
-----------------------------------------------------------------------------
(* Reading: the queries of a page, and their refetch after a save.         *)

Asked(t, q) == reading' = [reading EXCEPT ![t] = @ \cup {q}]

Loaded(t, q) ==
  /\ q \in reading[t]
  /\ reading' = [reading EXCEPT ![t] = @ \ {q}]
  /\ IF q = "preferences" THEN copy' = [copy EXCEPT ![t] = prefs] /\ UNCHANGED shown
                          ELSE shown' = [shown EXCEPT ![t] = settings] /\ UNCHANGED copy
  /\ UNCHANGED <<prefs, settings, saves, watched, clicks, losses>>

\* retry: false, or the last retry: what was shown before stays.
LoadFails(t, q) ==
  /\ Loss
  /\ q \in reading[t]
  /\ reading' = [reading EXCEPT ![t] = @ \ {q}]
  /\ UNCHANGED <<prefs, settings, copy, shown, saves, watched, clicks>>

\* A page that shows the preferences, or the settings, is opened.
Visit(t, q) ==
  /\ q \notin reading[t] /\ clicks < MaxClicks
  /\ Asked(t, q)
  /\ UNCHANGED <<prefs, settings, copy, shown, saves, watched, clicks, losses>>
-----------------------------------------------------------------------------
(* Saving.  A save names the control that sent it; body is what it sends,  *)
(* knew the copy it was made from, drops what the person asked to go.      *)

Pending(t, c) == \E s \in saves : s.tab = t /\ s.control = c

Kept(p) == {<<"pin", po>> : po \in p.pins} \cup {<<"view", v>> : v \in Range(p.views)}
           \cup {<<"landing", l>> : l \in {p.landing} \ {Unset}}
           \cup {<<"layout", t, p.tables[t]>> : t \in {u \in Tables : p.tables[u] # Plain}}

Send(t, c, body, knew, drops) ==
  /\ clicks < MaxClicks
  /\ clicks' = clicks + 1
  /\ saves' = saves \cup {[tab |-> t, control |-> c, at |-> "sent", body |-> body, knew |-> knew,
                           drops |-> drops, nr |-> clicks]}
  /\ watched' = IF c = "view" THEN [watched EXCEPT ![t] = clicks] ELSE watched
  /\ UNCHANGED <<prefs, settings, copy, shown, reading, losses>>

\* The object that a spread of the cached preferences begins with; they may be
\* undefined, as the rows do not wait for them.
Base(t) == IF copy[t] = Unset THEN NoPrefs ELSE copy[t]

\* Slip: the spread is forgotten, and only the pins are sent.
TogglePinBare(t, po) ==
  LET pins == Base(t).pins IN
  /\ ~Pending(t, "pin")
  /\ po \in pins \/ Cardinality(pins) < MaxPins
  /\ Send(t, "pin", [NoPrefs EXCEPT !.pins = IF po \in pins THEN pins \ {po} ELSE pins \cup {po}],
          Kept(Base(t)), {<<"pin", po>>})

TogglePin(t, po) ==
  LET pins == Base(t).pins IN
  /\ ~Pending(t, "pin")
  /\ po \in pins \/ Cardinality(pins) < MaxPins
  /\ Send(t, "pin", [Base(t) EXCEPT !.pins = IF po \in pins THEN pins \ {po} ELSE pins \cup {po}],
          Kept(Base(t)), {<<"pin", po>>})

\* The bar is there once the preferences are.  Its hook watches the request it
\* sent last, a deletion included.  A view too many pushes out the oldest.
SaveView(t, v) ==
  LET all == Append(copy[t].views, v)
      kept == SubSeq(all, 1 + Len(all) - (IF Len(all) > MaxViews THEN MaxViews ELSE Len(all)),
                     Len(all))
  IN /\ copy[t] # Unset
     /\ ~\E s \in saves : s.tab = t /\ s.nr = watched[t]
     /\ v \notin Range(copy[t].views)
     /\ Send(t, "view", [copy[t] EXCEPT !.views = kept], Kept(copy[t]),
             {<<"view", x>> : x \in Range(all) \ Range(kept)})

\* Views have ids of their own: the filter leaves out one.
DeleteView(t, v) ==
  /\ copy[t] # Unset
  /\ \E i \in DOMAIN copy[t].views :
       /\ copy[t].views[i] = v
       /\ Send(t, "view", [copy[t] EXCEPT !.views = RemoveAt(@, i)], Kept(copy[t]), {<<"view", v>>})

SetLayout(t, table, l) ==
  /\ copy[t] # Unset /\ ~Pending(t, "layout") /\ l # copy[t].tables[table]
  /\ Send(t, "layout", [copy[t] EXCEPT !.tables[table] = l], Kept(copy[t]),
          {<<"layout", table, copy[t].tables[table]>>})

\* The card waits while the first load is under way, not for its success.
SetLanding(t, l) ==
  /\ ~Pending(t, "landing")
  /\ ~(copy[t] = Unset /\ "preferences" \in reading[t])
  /\ l # Base(t).landing
  /\ Send(t, "landing", [Base(t) EXCEPT !.landing = l], Kept(Base(t)),
          {<<"landing", x>> : x \in Landings})
-----------------------------------------------------------------------------
\* parsePreferences: what is too much is cut off.
ParsePreferences(p) ==
  [p EXCEPT !.views = SubSeq(@, 1, IF Len(@) > MaxViews THEN MaxViews ELSE Len(@))]

\* PATCH /preferences replaces the row's object.
Patch(s) ==
  /\ s.at = "sent" /\ s.control \notin Fields
  /\ prefs' = ParsePreferences(s.body)
  /\ saves' = (saves \ {s}) \cup {[s EXCEPT !.at = "saved"]}
  /\ UNCHANGED <<settings, copy, shown, reading, watched, clicks, losses>>

\* A control of the settings page sends its field of body only; the list of muted types is
\* made from the list that is shown.
SettingKept(x) == {<<"muted", y>> : y \in x.muted} \cup {<<"digest", x.digest>>}

Mute(t, y) ==
  /\ shown[t] # Unset
  /\ Send(t, "muted", [shown[t] EXCEPT !.muted = IF y \in @ THEN @ \ {y} ELSE @ \cup {y}],
          SettingKept(shown[t]), {<<"muted", y>>})

SwitchDigest(t) ==
  /\ shown[t] # Unset
  /\ Send(t, "digest", [shown[t] EXCEPT !.digest = ~@], {}, {<<"digest", b>> : b \in BOOLEAN})

\* PATCH /settings reads the settings, merges the field, and writes all in a
\* transaction that does not read them again.
Merged(s) == IF s.control = "muted" THEN [settings EXCEPT !.muted = s.body.muted]
                                    ELSE [settings EXCEPT !.digest = s.body.digest]

\* What the page knew of the field, and what is read of the others.
KnownOf(s) == IF s.control = "muted"
              THEN {i \in s.knew : i[1] = "muted"} \cup {i \in SettingKept(settings) : i[1] # "muted"}
              ELSE SettingKept(settings)

ReadSettings(s) ==
  /\ s.at = "sent" /\ s.control \in Fields
  /\ saves' = (saves \ {s}) \cup {[s EXCEPT !.at = "merged", !.body = Merged(s), !.knew = KnownOf(s)]}
  /\ UNCHANGED <<prefs, settings, copy, shown, reading, watched, clicks, losses>>

WriteSettings(s) ==
  /\ s.at = "merged"
  /\ settings' = s.body
  /\ saves' = (saves \ {s}) \cup {[s EXCEPT !.at = "saved"]}
  /\ UNCHANGED <<prefs, copy, shown, reading, watched, clicks, losses>>

\* onSuccess: the query is invalidated, which begins its fetch anew.
Answered(s) ==
  /\ s.at = "saved"
  /\ saves' = saves \ {s}
  /\ Asked(s.tab, IF s.control \in Fields THEN "settings" ELSE "preferences")
  /\ UNCHANGED <<prefs, settings, copy, shown, watched, clicks, losses>>

\* The request fails, or its answer does: the page goes on with what it shows.
SaveFails(s) ==
  /\ Loss
  /\ saves' = saves \ {s}
  /\ UNCHANGED <<prefs, settings, copy, shown, reading, watched, clicks>>
-----------------------------------------------------------------------------
Load(t, q) == Loaded(t, q) \/ LoadFails(t, q) \/ Visit(t, q)

Save(s) == Patch(s) \/ ReadSettings(s) \/ WriteSettings(s) \/ Answered(s) \/ SaveFails(s)

PreferencesNext ==
  \/ \E t \in Tabs :
       \/ Load(t, "preferences")
       \/ \E po \in Pos : TogglePin(t, po)
       \/ \E v \in Views : SaveView(t, v) \/ DeleteView(t, v)
       \/ \E table \in Tables, l \in Layouts : SetLayout(t, table, l)
       \/ \E l \in Landings : SetLanding(t, l)
  \/ \E s \in saves : Save(s)

SettingsNext ==
  \/ \E t \in Tabs :
       \/ Load(t, "settings")
       \/ \E y \in Types : Mute(t, y)
       \/ SwitchDigest(t)
  \/ \E s \in saves : Save(s)

\* What was stored goes only when someone asked for it, or to a save that was
\* made without knowing it: from a copy read before it was stored, from no copy
\* at all, or merged into settings read before it was (LifecyclePreferencesBar
\* .tsx:209, SettingsPage.tsx:175, routes/settings.ts:75-91).
LostOnlyToUnseen ==
  [][/\ \A x \in Kept(prefs) : x \notin Kept(prefs') =>
          \E s \in saves \ saves' : s.at = "sent" /\ (x \notin s.knew \/ x \in s.drops)
     /\ \A x \in SettingKept(settings) : x \notin SettingKept(settings') =>
          \E s \in saves \ saves' : s.at = "merged" /\ (x \notin s.knew \/ x \in s.drops)]_prefVars
=============================================================================
