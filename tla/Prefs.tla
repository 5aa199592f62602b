------------------------------- MODULE Prefs -------------------------------
(***************************************************************************)
(* The settings of a user: what the app keeps of them (lib/config.ts and   *)
(* lib/i18n.tsx of both apps), the menus that change them (SettingsMenu,   *)
(* FiltersPanel; settings.tsx, FiltersSheet), and what the server is asked *)
(* for because of them.                                                    *)
(*                                                                         *)
(* The store outlives the program: it may hold what an older release or    *)
(* a hand left there, and a write to it may fail, which both apps ignore.  *)
(***************************************************************************)
EXTENDS Wire, SequencesExt, FiniteSets

CONSTANTS
  Operators,  \* what the server lists for the operator chips
  WebThemes,  \* ids of THEMES, the first one of them DEFAULT_THEME
  DarkThemes  \* those with a dark basemap

VARIABLES
  web,    \* the web app, not the mobile one
  ui,     \* the settings as they are shown
  disk,   \* what is stored under each key, or Nothing
  full,   \* the store refuses writes
  chips   \* the operators that have a chip

prefs == <<web, ui, disk, full, chips>>

Langs == {"nl", "en"}
Appearances == {"system", "light", "dark"}
Themes == IF web THEN { WebThemes[i] : i \in DOMAIN WebThemes } ELSE Appearances
Flags == {"stops", "numbers", "multi"}
dark == ui.theme \in DarkThemes

-----------------------------------------------------------------------------
(* What is read at the start.                                              *)

\* The other key of a flag is its default.
getSavedFlag(k, raw) == IF k = "multi" THEN raw = "1" ELSE raw # "0"
getSavedLang(raw) == IF raw \in Langs THEN raw ELSE "nl"
getSavedTheme(raw) ==
  IF raw \in Themes THEN raw ELSE IF web THEN WebThemes[1] ELSE "system"

\* Those of s that are in S, if so wished each at most once.
Picked(s, S, once) ==
  LET p[n \in 0 .. Len(s)] ==
        IF n = 0 THEN << >>
        ELSE IF s[n] \in S /\ ~(once /\ Contains(p[n - 1], s[n])) THEN Append(p[n - 1], s[n])
        ELSE p[n - 1]
  IN p[Len(s)]
Shortened(s) == SubSeq(s, 1, IF Len(s) < 64 THEN Len(s) ELSE 64)

ValidOwners == { o \in STRING : Len(o) \in 1 .. 16 }
Array(x) == IF x = Nothing THEN << >> ELSE x

NoFilters == [types |-> << >>, owners |-> << >>]

TrustedFilters(raw) == IF raw = Nothing THEN NoFilters
                       ELSE [types |-> raw.types, owners |-> raw.owners]

\* "Validate rather than trust: a stale or hand-edited value must not reach the
\* WS viewport message."  Nothing also stands for what JSON cannot parse.
getSavedFilters(raw) ==
  IF raw = Nothing THEN NoFilters
  ELSE [types  |-> Picked(Array(raw.types), KnownTypes, web),
        owners |-> Shortened(Picked(Array(raw.owners), ValidOwners, web))]

ValidView(v) == v # Nothing /\ (web \/ v.at >= 0)
getSavedView(raw, default) == IF ValidView(raw) THEN raw ELSE default

Restored(d) ==
  [theme   |-> getSavedTheme(d.theme), lang |-> getSavedLang(d.lang),
   stops   |-> getSavedFlag("stops", d.stops), numbers |-> getSavedFlag("numbers", d.numbers),
   multi   |-> getSavedFlag("multi", d.multi), filters |-> getSavedFilters(d.filters)]

-----------------------------------------------------------------------------
(* What the menus do.                                                      *)

Saved(k, x) == IF full THEN disk ELSE [disk EXCEPT ![k] = x]

\* setSaved... of one key: beside the state of the app, which has x at once.
Changed(k, x, raw) ==
  /\ ui' = [ui EXCEPT ![k] = x] /\ disk' = Saved(k, raw)
  /\ UNCHANGED <<web, full, chips>>

setFlagOld(k) == Changed(k, ~ui[k], IF ui[k] THEN "1" ELSE "0")

setFlag(k) == Changed(k, ~ui[k], IF ui[k] THEN "0" ELSE "1")
setLang(l) == l # ui.lang /\ Changed("lang", l, l)
setTheme(t) == t # ui.theme /\ Changed("theme", t, t)

\* No key is kept for no filter.
setFilters(f) == Changed("filters", f, IF f = NoFilters THEN Nothing ELSE f)

Toggled(s, x) == IF Contains(s, x) THEN Picked(s, ToSet(s) \ {x}, FALSE) ELSE Append(s, x)
toggleType(t) == setFilters([ui.filters EXCEPT !.types = Toggled(@, t)])
toggleOwner(o) == o \in chips /\ setFilters([ui.filters EXCEPT !.owners = Toggled(@, o)])

\* Asked for once; a failure is ignored.
OperatorsArrive ==
  /\ chips = {} /\ chips' = Operators
  /\ UNCHANGED <<web, ui, disk, full>>

\* The program starts: the settings are read, and the filters written back by
\* the effect that keeps them.
Read(d) ==
  LET f == getSavedFilters(d.filters)
  IN /\ ui = Restored(d) /\ chips = {}
     /\ disk = IF full THEN d
                ELSE [d EXCEPT !.filters = IF f = NoFilters THEN Nothing ELSE f]

PrefsInit(Disks) == web \in BOOLEAN /\ full \in BOOLEAN /\ \E d \in Disks : Read(d)

-----------------------------------------------------------------------------
(* What the server is asked for, and what it has then.                     *)

BBox(b) == [minLat |-> 0, minLon |-> b[1], maxLat |-> 0, maxLon |-> b[2]]
Wish(b, near, pins) ==
  [b |-> b, near |-> near, filters |-> ui.filters, pins |-> pins]

viewportOf(w) ==
  viewportMsg(BBox(w.b), IF w.near THEN 14 ELSE 12,
              [types |-> w.filters.types, owners |-> w.filters.owners, search |-> ""], w.pins)

\* What cannot be encoded is not sent.
Heard(payload, sub) ==
  IF Sendable(payload) THEN Subscribed(encodeClient(payload), sub) ELSE sub

\* The filters a user sees on are those the server filters by.
FiltersHeard(sub) ==
  sub.filters = [types |-> ToSet(ui.filters.types), owners |-> ToSet(ui.filters.owners),
                 search |-> ""]

\* What the store holds is read back as it stands on the screen, but for the
\* operators after the first 64.
SettingsSurvive ==
  ~full => Restored(disk) = [ui EXCEPT !.filters.owners = Shortened(@)]
=============================================================================
