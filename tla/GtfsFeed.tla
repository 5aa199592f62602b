------------------------------ MODULE GtfsFeed ------------------------------
(***************************************************************************)
(* The timetable's life cycle: bootstrap from disk, the daily conditional  *)
(* refresh, the three files it keeps, and the stop indexes derived from    *)
(* the loaded feed (crates/server/src/main.rs, crates/gtfs/src/lib.rs and  *)
(* download.rs, crates/persist/src/snapshot.rs).                           *)
(*                                                                         *)
(* A feed is its version.  The process may be killed between any two       *)
(* steps; what a rename published survives, but its content, which is      *)
(* never synced, may not.                                                  *)
(***************************************************************************)
EXTENDS Naturals

CONSTANTS
  None,       \* no file, no feed, no validators
  Bad,        \* a file whose content cannot be read
  Unparsable, \* the upstream versions whose archive does not parse
  MaxFeed,    \* bound on the versions the publisher releases
  MaxDay,     \* bound on the days
  MaxCrash    \* bound on the crashes

Versions == 1 .. MaxFeed
Contents == Versions \cup {None, Bad}
Tasks == {"refresh", "midnight"}

ASSUME ConstantsAssumption ==
  /\ None \notin Nat /\ Bad \notin Nat /\ None # Bad
  /\ Unparsable \subseteq Nat
  /\ MaxFeed \in Nat \ {0} /\ MaxDay \in Nat /\ MaxCrash \in Nat
  /\ None \notin [feed: Versions, day: 0 .. MaxDay] /\ None \notin Tasks

VARIABLES
  upstream, \* the version the publisher offers
  disk,     \* disk.snap, disk.zip, disk.meta: what the files hold
  dirty,    \* the files whose content may still be lost
  store,    \* GtfsService.store
  stops,    \* GtfsService.stops: the feed and day they were built for
  day,      \* the local date
  pc,       \* where bootstrap or the refresh task is
  boot,     \* whether that is bootstrap
  prev,     \* the validators it sends
  fetched,  \* the version it has on hand
  job,      \* job[t]: the feed and day task t is building stop indexes for
  due,      \* the midnight task has a rebuild to do
  erred,    \* history: what was reported to fail since the boot
  done,     \* history: the newest version whose refresh completed
  lost,     \* history: a crash lost the content of a file
  last,     \* history: while stop indexes are built, the task that began last
  behind,   \* history: what has left the stop indexes behind (Reasons)
  crashes   \* crashes so far

vars == <<upstream, disk, dirty, store, stops, day, pc, boot, prev, fetched,
          job, due, erred, done, lost, last, behind, crashes>>

Files == {"snap", "zip", "meta"}
Steps == {"down", "load_snap", "load_zip", "save_parsed", "load_meta", "request",
          "parse", "save_snap", "save_meta", "rebuild", "sleep"}

\* Why stop indexes may lag: an older build published over a newer one; a new
\* feed whose refresh ended at a failed save; a bootstrap's build that began
\* yesterday.
Reasons == {"outrun", "unsaved", "overnight"}

\* What the process keeps in memory besides the feed.
quiet == <<stops, day, job, due, last>>
past == <<lost, behind, crashes>>

\* Readable: load gives a value; None stands for a missing file.
Readable(x) == x \notin {None, Bad}

Written(f, v) ==
  /\ disk' = [disk EXCEPT ![f] = v]
  /\ dirty' = dirty \cup {f}

-----------------------------------------------------------------------------
Init ==
  /\ upstream = 1
  /\ disk = [f \in Files |-> None]
  /\ dirty = {}
  /\ store = None /\ stops = None
  /\ day = 0
  /\ pc = "down" /\ boot = TRUE
  /\ prev = None /\ fetched = None
  /\ job = [t \in Tasks |-> None]
  /\ due = FALSE
  /\ erred = {}
  /\ done = 0 /\ lost = FALSE
  /\ last = None /\ behind = {}
  /\ crashes = 0

\* main: nothing loaded, bootstrap_gtfs first.
Boot ==
  /\ pc = "down"
  /\ pc' = "load_snap" /\ boot' = TRUE
  /\ erred' = {}
  /\ UNCHANGED <<upstream, disk, dirty, store, prev, fetched, done, quiet, past>>

\* 1. The parsed snapshot, if it is readable.
LoadSnap ==
  /\ pc = "load_snap"
  /\ IF Readable(disk["snap"])
     THEN store' = disk["snap"] /\ pc' = "rebuild"
     ELSE pc' = "load_zip" /\ UNCHANGED store
  /\ UNCHANGED <<upstream, disk, dirty, boot, prev, fetched, erred, done, quiet, past>>

Parses(x) == Readable(x) /\ x \notin Unparsable

\* 2. The cached archive, if it is there and parses.
LoadZip ==
  /\ pc = "load_zip"
  /\ IF Parses(disk["zip"])
     THEN store' = disk["zip"] /\ pc' = "save_parsed"
     ELSE pc' = "load_meta" /\ UNCHANGED store
  /\ UNCHANGED <<upstream, disk, dirty, boot, prev, fetched, erred, done, quiet, past>>

\* Its snapshot is saved; an error is ignored.
SaveParsed ==
  /\ pc = "save_parsed"
  /\ \/ Written("snap", store)
     \/ UNCHANGED <<disk, dirty>>
  /\ pc' = "rebuild"
  /\ UNCHANGED <<upstream, store, boot, prev, fetched, erred, done, quiet, past>>

\* The refresh task's timer.
Wake ==
  /\ pc = "sleep"
  /\ pc' = "load_meta" /\ boot' = FALSE
  /\ UNCHANGED <<upstream, disk, dirty, store, prev, fetched, erred, done, quiet, past>>

\* The validators of the last complete refresh, or none.
LoadMeta ==
  /\ pc = "load_meta"
  /\ prev' = IF Readable(disk["meta"]) THEN disk["meta"] ELSE None
  /\ pc' = "request"
  /\ UNCHANGED <<upstream, disk, dirty, store, boot, fetched, erred, done, quiet, past>>

\* Bootstrap goes on to build the indexes whatever happened; the refresh task
\* only after a feed it fetched, saved and marked.
Ended(fresh) == pc' = IF boot \/ fresh THEN "rebuild" ELSE "sleep"

\* A full disk fails a save, everything else counts as a failed fetch.
Fails(what) ==
  /\ Ended(FALSE)
  /\ erred' = erred \cup {what}

\* 304: nothing to do.
Unchanged ==
  /\ pc = "request" /\ prev = upstream
  /\ Ended(FALSE)
  /\ UNCHANGED <<upstream, disk, dirty, store, boot, prev, fetched, erred, done, quiet, past>>

FetchMarks ==
  /\ pc = "request" /\ prev # upstream
  /\ fetched' = upstream
  /\ disk' = [disk EXCEPT !["zip"] = upstream, !["meta"] = upstream]
  /\ dirty' = dirty \cup {"zip", "meta"}
  /\ pc' = "parse"
  /\ UNCHANGED <<upstream, store, boot, prev, erred, done, quiet, past>>

\* 200: the archive is streamed aside and renamed into place.
Fetch ==
  /\ pc = "request" /\ prev # upstream
  /\ fetched' = upstream
  /\ Written("zip", upstream)
  /\ pc' = "parse"
  /\ UNCHANGED <<upstream, store, boot, prev, erred, done, quiet, past>>

\* No answer, an error status, or a body that breaks off.
FetchFails ==
  /\ pc = "request"
  /\ Fails("fetch")
  /\ UNCHANGED <<upstream, disk, dirty, store, boot, prev, fetched, done, quiet, past>>

\* load_and_swap: parse, and serve the new feed at once.
Parse ==
  /\ pc = "parse"
  /\ IF Parses(fetched)
     THEN store' = fetched /\ pc' = "save_snap" /\ UNCHANGED erred
     ELSE Fails("fetch") /\ UNCHANGED store
  /\ UNCHANGED <<upstream, disk, dirty, boot, prev, fetched, done, quiet, past>>

SaveSnapUnheeded ==
  /\ pc = "save_snap"
  /\ \/ Written("snap", fetched)
     \/ UNCHANGED <<disk, dirty>>
  /\ pc' = "save_meta"
  /\ UNCHANGED <<upstream, store, boot, prev, fetched, erred, done, quiet, past>>

\* The refresh task sleeps with a new feed served and no build begun for it.
Unsaved ==
  /\ Fails("save")
  /\ behind' = IF boot THEN behind ELSE behind \cup {"unsaved"}

SaveSnap ==
  /\ pc = "save_snap"
  /\ \/ Written("snap", fetched) /\ pc' = "save_meta" /\ UNCHANGED <<erred, behind>>
     \/ Unsaved /\ UNCHANGED <<disk, dirty>>
  /\ UNCHANGED <<upstream, store, boot, prev, fetched, done, quiet, lost, crashes>>

SaveMeta ==
  /\ pc = "save_meta"
  /\ \/ Written("meta", fetched) /\ Ended(TRUE) /\ done' = fetched /\ UNCHANGED <<erred, behind>>
     \/ Unsaved /\ UNCHANGED <<disk, dirty, done>>
  /\ UNCHANGED <<upstream, store, boot, prev, fetched, quiet, lost, crashes>>

-----------------------------------------------------------------------------
(* The stop indexes: built from a feed and a date read at the start,       *)
(* published when finished.  Without a feed there is nothing to build.     *)
(* Nothing keeps the two tasks from building at the same time.             *)

Start(t) ==
  /\ job' = [job EXCEPT ![t] = IF store = None THEN None ELSE [feed |-> store, day |-> day]]
  /\ last' = IF store = None THEN None ELSE t

Others(t) == \E o \in Tasks \ {t} : job[o] # None

\* Task t is done; what it leaves behind.
Publish(t) ==
  /\ job[t] # None
  /\ stops' = job[t]
  /\ job' = [job EXCEPT ![t] = None]
  /\ last' = IF Others(t) THEN last ELSE None
  /\ behind' = (IF last # t /\ ~Others(t) THEN {"outrun"} ELSE {})
                \cup (IF job[t].feed = store THEN {} ELSE behind \cap {"unsaved"})
                \cup (IF boot /\ job[t].day # day THEN {"overnight"} ELSE {})

\* After bootstrap and after every complete refresh.
Rebuild ==
  /\ pc = "rebuild" /\ job["refresh"] = None
  /\ Start("refresh")
  /\ pc' = IF store = None THEN "sleep" ELSE "rebuild"
  /\ UNCHANGED <<upstream, disk, dirty, store, stops, day, boot, prev, fetched, due, erred, done, past>>

Rebuilt ==
  /\ pc = "rebuild"
  /\ Publish("refresh")
  /\ pc' = "sleep"
  /\ UNCHANGED <<upstream, disk, dirty, store, day, boot, prev, fetched, due, erred, done, lost, crashes>>

\* The tasks live once bootstrap and the first build are over.
TasksRun == pc = "sleep" \/ (pc # "down" /\ ~boot)

NewDayUnheeded ==
  /\ day < MaxDay
  /\ ~due /\ job["midnight"] = None
  /\ day' = day + 1
  /\ due' = (pc = "sleep")
  /\ UNCHANGED <<upstream, disk, dirty, store, stops, pc, boot, prev, fetched, job, last, erred, done, past>>

\* The date changes, whatever is going on; the midnight task, if it runs, has
\* work, and takes less than a day to do it.
NewDay ==
  /\ day < MaxDay
  /\ ~due /\ job["midnight"] = None
  /\ day' = day + 1
  /\ due' = TasksRun
  /\ UNCHANGED <<upstream, disk, dirty, store, stops, pc, boot, prev, fetched, job, last, erred, done, past>>

MidnightRebuild ==
  /\ due
  /\ Start("midnight")
  /\ due' = FALSE
  /\ UNCHANGED <<upstream, disk, dirty, store, stops, day, pc, boot, prev, fetched, erred, done, past>>

MidnightRebuilt ==
  /\ Publish("midnight")
  /\ UNCHANGED <<upstream, disk, dirty, store, day, pc, boot, prev, fetched, due, erred, done, lost, crashes>>

-----------------------------------------------------------------------------
(* The world.                                                              *)

Release ==
  /\ upstream < MaxFeed
  /\ upstream' = upstream + 1
  /\ UNCHANGED <<disk, dirty, store, pc, boot, prev, fetched, erred, done, quiet, past>>

WriteBack ==
  /\ dirty # {}
  /\ dirty' = {}
  /\ UNCHANGED <<upstream, disk, store, pc, boot, prev, fetched, erred, done, quiet, past>>

\* Killed, or powered off: the memory is gone, and with it what was dirty.
Crash ==
  /\ pc # "down" /\ crashes < MaxCrash
  /\ \E gone \in SUBSET dirty :
       /\ disk' = [f \in Files |-> IF f \in gone THEN Bad ELSE disk[f]]
       /\ lost' = (lost \/ gone # {})
  /\ dirty' = {}
  /\ store' = None /\ stops' = None
  /\ pc' = "down" /\ prev' = None /\ fetched' = None
  /\ boot' = TRUE
  /\ job' = [t \in Tasks |-> None] /\ due' = FALSE
  /\ last' = None /\ behind' = {}
  /\ crashes' = crashes + 1
  /\ UNCHANGED <<upstream, day, erred, done>>

Next ==
  \/ Boot \/ LoadSnap \/ LoadZip \/ SaveParsed
  \/ Wake \/ LoadMeta \/ Unchanged \/ Fetch \/ FetchFails \/ Parse \/ SaveSnap \/ SaveMeta
  \/ Rebuild \/ Rebuilt \/ NewDay \/ MidnightRebuild \/ MidnightRebuilt
  \/ Release \/ WriteBack \/ Crash

\* The process is restarted, its tasks are polled, and a check that keeps being
\* made gets through in the end.
Fairness ==
  /\ WF_vars(Boot) /\ WF_vars(LoadSnap) /\ WF_vars(LoadZip) /\ WF_vars(SaveParsed)
  /\ WF_vars(Wake) /\ WF_vars(LoadMeta) /\ WF_vars(Unchanged) /\ SF_vars(Fetch)
  /\ WF_vars(Parse) /\ WF_vars(SaveSnap) /\ WF_vars(SaveMeta)
  /\ WF_vars(Rebuild) /\ WF_vars(Rebuilt)
  /\ WF_vars(MidnightRebuild) /\ WF_vars(MidnightRebuilt)

Spec == Init /\ [][Next]_vars /\ Fairness
-----------------------------------------------------------------------------
(* Properties.                                                             *)

TypeOK ==
  /\ upstream \in Versions
  /\ disk \in [Files -> Contents] /\ dirty \subseteq Files
  /\ store \in Versions \cup {None}
  /\ stops \in [feed: Versions, day: 0 .. MaxDay] \cup {None}
  /\ day \in 0 .. MaxDay
  /\ pc \in Steps /\ boot \in BOOLEAN
  /\ prev \in Versions \cup {None} /\ fetched \in Versions \cup {None}
  /\ job \in [Tasks -> [feed: Versions, day: 0 .. MaxDay] \cup {None}]
  /\ due \in BOOLEAN /\ erred \subseteq {"fetch", "save"} /\ lost \in BOOLEAN
  /\ done \in 0 .. MaxFeed
  /\ last \in Tasks \cup {None} /\ behind \subseteq Reasons
  /\ crashes \in 0 .. MaxCrash

\* The saved validators never run ahead of the saved feed, at whatever step
\* the process dies: else the publisher would answer 304 to a process that
\* serves an older feed, for as long as that release stays current
\* (do_refresh's order of saves).
MetaNeverAhead ==
  Readable(disk["meta"]) =>
    \/ ~Readable(disk["snap"])
    \/ disk["meta"] <= disk["snap"]

\* The feed served never goes back: not by a refresh, and not over a restart,
\* below the last refresh that completed, unless its content was lost.
NeverBackwards ==
  pc \in {"rebuild", "sleep"} /\ erred = {} /\ ~lost => store # None /\ store >= done

\* A publisher that answers 304 is answering a process that serves its release:
\* what MetaNeverAhead is for.
UnchangedIsServed == pc = "request" /\ prev = upstream /\ ~lost => store = upstream

AtWork == pc # "sleep" \/ due \/ job["midnight"] # None
Serving(f) == IF f = None THEN stops = None ELSE stops = [feed |-> f, day |-> day]

\* The stop indexes serve the loaded feed and today's date whenever no task is
\* at work on them: every swap and every midnight is followed by a build that
\* sees it, whichever way the refresh, the midnight task and crashes cross
\* ("rebuilt on every feed swap and at local midnight").  What the code does
\* leave behind is named: the loser of two builds that overlap, a feed whose
\* save failed, and a bootstrap's build that began yesterday.  The next build
\* makes up for each.
StopsCurrent == ~AtWork /\ behind = {} => Serving(store)

\* A release that parses and stays current is served in the end, through
\* failed downloads and crashes, as long as the files keep their content and
\* saves succeed.
EventuallyFresh ==
  [](~lost /\ "save" \notin erred) =>
    \A v \in Versions \ Unparsable : <>[](upstream = v) => <>[](store = v)

=============================================================================
