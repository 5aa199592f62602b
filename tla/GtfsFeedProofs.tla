--------------------------- MODULE GtfsFeedProofs ---------------------------
(***************************************************************************)
(* The timetable's files and the feed served never go back, for any number *)
(* of releases, days and crashes, and whichever releases do not parse.     *)
(*                                                                         *)
(* The archive is the newest of the three files and the validators the     *)
(* oldest (Ordered), because the refresh writes them in that order and     *)
(* holds on to what it fetched meanwhile (Holding).  The stop indexes      *)
(* follow because the build that began last sees the feed and the day as    *)
(* they are, or another one is due (Served).                               *)
(***************************************************************************)
EXTENDS GtfsFeed, TLAPS

\* What is on disk, in memory and reported is no newer than the newest release.
Ordered ==
  /\ \A f \in Files : Readable(disk[f]) => disk[f] <= upstream
  /\ fetched # None => fetched <= upstream
  /\ done <= upstream
  /\ Readable(disk["meta"]) /\ Readable(disk["zip"]) => disk["meta"] <= disk["zip"]

\* What a refresh or a bootstrap has at hand at each of its steps.
Holding ==
  /\ pc \in {"load_snap", "load_zip", "save_parsed"} => boot
  /\ pc = "save_parsed" => store # None /\ store = disk["zip"]
  /\ pc \in {"parse", "save_snap", "save_meta"} =>
       fetched # None /\ fetched = disk["zip"] /\ fetched >= done
  /\ pc \in {"save_snap", "save_meta"} => store = fetched
  /\ pc = "save_meta" => disk["snap"] = fetched

\* A completed refresh left a snapshot; a bootstrap that found none finds no
\* validators either, and so cannot be answered 304.
Kept ==
  /\ ~lost /\ done # 0 => Readable(disk["snap"]) /\ disk["snap"] >= done
  /\ ~lost /\ Readable(disk["meta"]) => Readable(disk["snap"])
  /\ pc \in {"load_zip", "save_parsed"} => ~Readable(disk["snap"])
  /\ boot /\ pc = "load_meta" => ~Readable(disk["snap"])
  /\ boot /\ pc = "request" /\ ~lost => prev = None
  /\ /\ pc \in {"rebuild", "sleep"} \/ (~boot /\ pc \in {"load_meta", "request"})
     /\ erred = {} /\ ~lost
     => store # None /\ store >= done

IInv == TypeOK /\ Ordered /\ MetaNeverAhead /\ Holding /\ Kept

LEMMA Contained ==
  ASSUME NEW x \in Contents
  PROVE  Readable(x) <=> x \in Versions
BY ConstantsAssumption DEF Contents, Versions, Readable

LEMMA NextType ==
  ASSUME IInv, Next
  PROVE  TypeOK'
<1> USE ConstantsAssumption DEF IInv, TypeOK, Holding, quiet, past, Readable, Contents, Files, Versions, Steps, Tasks
<1>1. CASE Boot BY <1>1 DEF Boot
<1>2. CASE LoadSnap BY <1>2 DEF LoadSnap
<1>3. CASE LoadZip BY <1>3 DEF LoadZip, Parses
<1>4. CASE SaveParsed BY <1>4 DEF SaveParsed, Written
<1>5. CASE Wake BY <1>5 DEF Wake
<1>6. CASE LoadMeta BY <1>6 DEF LoadMeta
<1>7. CASE Unchanged BY <1>7 DEF Unchanged, Ended
<1>8. CASE Fetch BY <1>8 DEF Fetch, Written
<1>9. CASE FetchFails BY <1>9 DEF FetchFails, Fails, Ended
<1>10. CASE Parse BY <1>10 DEF Parse, Parses, Fails, Ended
<1>11. CASE SaveSnap BY <1>11 DEF SaveSnap, Unsaved, Written, Fails, Ended, Reasons
<1>12. CASE SaveMeta
  <2>1. fetched \in Versions BY <1>12 DEF SaveMeta, Holding
  <2>2. CASE Written("meta", fetched) /\ Ended(TRUE) /\ done' = fetched /\ UNCHANGED <<erred, behind>>
    <3>1. fetched \in Contents /\ fetched \in 0 .. MaxFeed BY <2>1 DEF Contents, Versions
    <3>2. disk' \in [Files -> Contents] BY <2>2, <3>1 DEF Written
    <3>3. dirty' \subseteq Files BY <2>2 DEF Written, Files
    <3>4. last' = last /\ behind' = behind /\ erred' = erred BY <1>12, <2>2 DEF SaveMeta
    <3>5. pc' \in Steps BY <2>2 DEF Ended, Steps
    <3> QED BY <1>12, <2>2, <3>1, <3>2, <3>3, <3>4, <3>5 DEF SaveMeta
  <2>3. CASE Unsaved /\ UNCHANGED <<disk, dirty, done>>
    BY <1>12, <2>3 DEF SaveMeta, Unsaved, Fails, Ended, Steps, Reasons
  <2> QED BY <1>12, <2>2, <2>3 DEF SaveMeta
<1>13. CASE Rebuild BY <1>13 DEF Rebuild, Start
<1>14. CASE Rebuilt BY <1>14 DEF Rebuilt, Publish, Reasons
<1>15. CASE NewDay BY <1>15 DEF NewDay, TasksRun
<1>16. CASE MidnightRebuild BY <1>16 DEF MidnightRebuild, Start
<1>17. CASE MidnightRebuilt BY <1>17 DEF MidnightRebuilt, Publish, Reasons
<1>18. CASE Release BY <1>18 DEF Release
<1>19. CASE WriteBack BY <1>19 DEF WriteBack
<1>20. CASE Crash
  <2>1. PICK gone \in SUBSET dirty :
          disk' = [f \in Files |-> IF f \in gone THEN Bad ELSE disk[f]] /\ lost' = (lost \/ gone # {})
    BY <1>20 DEF Crash
  <2>2. disk' \in [Files -> Contents] /\ lost' \in BOOLEAN BY <2>1 DEF Contents
  <2>3. crashes' \in 0 .. MaxCrash BY <1>20 DEF Crash
  <2>4. job' \in [Tasks -> [feed: Versions, day: 0 .. MaxDay] \cup {None}] BY <1>20 DEF Crash
  <2> QED BY <1>20, <2>2, <2>3, <2>4 DEF Crash, Steps
<1> QED BY <1>1, <1>2, <1>3, <1>4, <1>5, <1>6, <1>7, <1>8, <1>9, <1>10, <1>11, <1>12, <1>13, <1>14, <1>15, <1>16, <1>17, <1>18, <1>19, <1>20 DEF Next

LEMMA NextOrdered ==
  ASSUME IInv, Next
  PROVE  Ordered'
<1> USE ConstantsAssumption DEF IInv, TypeOK, quiet, past, Ordered, Holding, Readable, Contents, Files, Versions
<1>1. CASE Boot BY <1>1 DEF Boot
<1>2. CASE LoadSnap BY <1>2 DEF LoadSnap
<1>3. CASE LoadZip BY <1>3 DEF LoadZip, Parses
<1>4. CASE SaveParsed BY <1>4 DEF SaveParsed, Written
<1>5. CASE Wake BY <1>5 DEF Wake
<1>6. CASE LoadMeta BY <1>6 DEF LoadMeta
<1>7. CASE Unchanged BY <1>7 DEF Unchanged, Ended
<1>8. CASE Fetch BY <1>8 DEF Fetch, Written
<1>9. CASE FetchFails BY <1>9 DEF FetchFails, Fails, Ended
<1>10. CASE Parse BY <1>10 DEF Parse, Parses, Fails, Ended
<1>11. CASE SaveSnap BY <1>11 DEF SaveSnap, Unsaved, Written, Fails, Ended
<1>12. CASE SaveMeta BY <1>12 DEF SaveMeta, Unsaved, Written, Fails, Ended
<1>13. CASE Rebuild BY <1>13 DEF Rebuild, Start
<1>14. CASE Rebuilt BY <1>14 DEF Rebuilt, Publish
<1>15. CASE NewDay BY <1>15 DEF NewDay
<1>16. CASE MidnightRebuild BY <1>16 DEF MidnightRebuild, Start
<1>17. CASE MidnightRebuilt BY <1>17 DEF MidnightRebuilt, Publish
<1>18. CASE Release BY <1>18 DEF Release
<1>19. CASE WriteBack BY <1>19 DEF WriteBack
<1>20. CASE Crash BY <1>20 DEF Crash
<1> QED BY <1>1, <1>2, <1>3, <1>4, <1>5, <1>6, <1>7, <1>8, <1>9, <1>10, <1>11, <1>12, <1>13, <1>14, <1>15, <1>16, <1>17, <1>18, <1>19, <1>20 DEF Next

LEMMA NextMetaNeverAhead ==
  ASSUME IInv, Next
  PROVE  MetaNeverAhead'
<1> USE ConstantsAssumption DEF IInv, TypeOK, quiet, past, MetaNeverAhead, Ordered, Holding, Readable, Contents, Files, Versions
<1>1. CASE Boot BY <1>1 DEF Boot
<1>2. CASE LoadSnap BY <1>2 DEF LoadSnap
<1>3. CASE LoadZip BY <1>3 DEF LoadZip, Parses
<1>4. CASE SaveParsed BY <1>4 DEF SaveParsed, Written
<1>5. CASE Wake BY <1>5 DEF Wake
<1>6. CASE LoadMeta BY <1>6 DEF LoadMeta
<1>7. CASE Unchanged BY <1>7 DEF Unchanged, Ended
<1>8. CASE Fetch BY <1>8 DEF Fetch, Written
<1>9. CASE FetchFails BY <1>9 DEF FetchFails, Fails, Ended
<1>10. CASE Parse BY <1>10 DEF Parse, Parses, Fails, Ended
<1>11. CASE SaveSnap BY <1>11 DEF SaveSnap, Unsaved, Written, Fails, Ended
<1>12. CASE SaveMeta BY <1>12 DEF SaveMeta, Unsaved, Written, Fails, Ended
<1>13. CASE Rebuild BY <1>13 DEF Rebuild, Start
<1>14. CASE Rebuilt BY <1>14 DEF Rebuilt, Publish
<1>15. CASE NewDay BY <1>15 DEF NewDay
<1>16. CASE MidnightRebuild BY <1>16 DEF MidnightRebuild, Start
<1>17. CASE MidnightRebuilt BY <1>17 DEF MidnightRebuilt, Publish
<1>18. CASE Release BY <1>18 DEF Release
<1>19. CASE WriteBack BY <1>19 DEF WriteBack
<1>20. CASE Crash BY <1>20 DEF Crash
<1> QED BY <1>1, <1>2, <1>3, <1>4, <1>5, <1>6, <1>7, <1>8, <1>9, <1>10, <1>11, <1>12, <1>13, <1>14, <1>15, <1>16, <1>17, <1>18, <1>19, <1>20 DEF Next

LEMMA NextHolding ==
  ASSUME IInv, Next
  PROVE  Holding'
<1> USE ConstantsAssumption DEF IInv, TypeOK, quiet, past, Holding, Ordered, Readable, Contents, Files, Versions
<1>1. CASE Boot BY <1>1 DEF Boot
<1>2. CASE LoadSnap BY <1>2 DEF LoadSnap
<1>3. CASE LoadZip BY <1>3 DEF LoadZip, Parses
<1>4. CASE SaveParsed BY <1>4 DEF SaveParsed, Written
<1>5. CASE Wake BY <1>5 DEF Wake
<1>6. CASE LoadMeta BY <1>6 DEF LoadMeta
<1>7. CASE Unchanged BY <1>7 DEF Unchanged, Ended
<1>8. CASE Fetch BY <1>8 DEF Fetch, Written
<1>9. CASE FetchFails BY <1>9 DEF FetchFails, Fails, Ended
<1>10. CASE Parse BY <1>10 DEF Parse, Parses, Fails, Ended
<1>11. CASE SaveSnap BY <1>11 DEF SaveSnap, Unsaved, Written, Fails, Ended
<1>12. CASE SaveMeta BY <1>12 DEF SaveMeta, Unsaved, Written, Fails, Ended
<1>13. CASE Rebuild BY <1>13 DEF Rebuild, Start
<1>14. CASE Rebuilt BY <1>14 DEF Rebuilt, Publish
<1>15. CASE NewDay BY <1>15 DEF NewDay
<1>16. CASE MidnightRebuild BY <1>16 DEF MidnightRebuild, Start
<1>17. CASE MidnightRebuilt BY <1>17 DEF MidnightRebuilt, Publish
<1>18. CASE Release BY <1>18 DEF Release
<1>19. CASE WriteBack BY <1>19 DEF WriteBack
<1>20. CASE Crash BY <1>20 DEF Crash
<1> QED BY <1>1, <1>2, <1>3, <1>4, <1>5, <1>6, <1>7, <1>8, <1>9, <1>10, <1>11, <1>12, <1>13, <1>14, <1>15, <1>16, <1>17, <1>18, <1>19, <1>20 DEF Next

LEMMA NextKept ==
  ASSUME IInv, Next
  PROVE  Kept'
<1> USE ConstantsAssumption DEF IInv, TypeOK, quiet, past, Kept, Ordered, Holding, Readable, Contents, Files, Versions
<1>1. CASE Boot BY <1>1 DEF Boot
<1>2. CASE LoadSnap BY <1>2 DEF LoadSnap
<1>3. CASE LoadZip BY <1>3 DEF LoadZip, Parses
<1>4. CASE SaveParsed BY <1>4 DEF SaveParsed, Written
<1>5. CASE Wake BY <1>5 DEF Wake
<1>6. CASE LoadMeta BY <1>6 DEF LoadMeta
<1>7. CASE Unchanged BY <1>7 DEF Unchanged, Ended
<1>8. CASE Fetch BY <1>8 DEF Fetch, Written
<1>9. CASE FetchFails BY <1>9 DEF FetchFails, Fails, Ended
<1>10. CASE Parse BY <1>10 DEF Parse, Parses, Fails, Ended
<1>11. CASE SaveSnap BY <1>11 DEF SaveSnap, Unsaved, Written, Fails, Ended
<1>12. CASE SaveMeta BY <1>12 DEF SaveMeta, Unsaved, Written, Fails, Ended
<1>13. CASE Rebuild BY <1>13 DEF Rebuild, Start
<1>14. CASE Rebuilt BY <1>14 DEF Rebuilt, Publish
<1>15. CASE NewDay BY <1>15 DEF NewDay
<1>16. CASE MidnightRebuild BY <1>16 DEF MidnightRebuild, Start
<1>17. CASE MidnightRebuilt BY <1>17 DEF MidnightRebuilt, Publish
<1>18. CASE Release BY <1>18 DEF Release
<1>19. CASE WriteBack BY <1>19 DEF WriteBack
<1>20. CASE Crash BY <1>20 DEF Crash
<1> QED BY <1>1, <1>2, <1>3, <1>4, <1>5, <1>6, <1>7, <1>8, <1>9, <1>10, <1>11, <1>12, <1>13, <1>14, <1>15, <1>16, <1>17, <1>18, <1>19, <1>20 DEF Next

LEMMA NextInv ==
  ASSUME IInv, [Next]_vars
  PROVE  IInv'
<1>1. CASE Next BY <1>1, NextType, NextOrdered, NextMetaNeverAhead, NextHolding, NextKept DEF IInv
<1>2. CASE UNCHANGED vars
  BY <1>2 DEF vars, IInv, TypeOK, Ordered, MetaNeverAhead, Holding, Kept, Readable
<1> QED BY <1>1, <1>2

LEMMA InitInv == Init => IInv
<1> SUFFICES ASSUME Init PROVE IInv OBVIOUS
<1> USE ConstantsAssumption DEF Init
<1>1. 1 \in Versions /\ 0 \in 0 .. MaxFeed /\ 0 \in 0 .. MaxDay /\ 0 \in 0 .. MaxCrash BY DEF Versions
<1>2. disk \in [Files -> Contents] /\ \A f \in Files : disk[f] = None BY DEF Contents
<1>3. job \in [Tasks -> [feed: Versions, day: 0 .. MaxDay] \cup {None}] OBVIOUS
<1>4. TypeOK BY <1>1, <1>2, <1>3 DEF TypeOK, Steps
<1>5. Ordered /\ MetaNeverAhead BY <1>2 DEF Ordered, MetaNeverAhead, Readable, Files
<1>6. Holding /\ Kept BY <1>2 DEF Holding, Kept, Readable, Files
<1> QED BY <1>4, <1>5, <1>6 DEF IInv

-----------------------------------------------------------------------------
(* What a 304 answers.                                                     *)

\* Past the bootstrap's first step, the feed served is no older than the
\* validators on disk; a check sends those, or none.
Upheld ==
  /\ store # None => store <= upstream
  /\ ~lost /\ pc \notin {"down", "load_snap"} /\ Readable(disk["meta"]) =>
       store # None /\ disk["meta"] <= store
  /\ pc = "request" /\ prev # None => prev = disk["meta"]

LEMMA NextUpheld ==
  ASSUME IInv, Upheld, Next
  PROVE  Upheld'
<1> USE ConstantsAssumption DEF IInv, TypeOK, quiet, past, Upheld, MetaNeverAhead, Kept, Ordered, Holding, Readable, Contents, Files, Versions
<1>1. CASE Boot BY <1>1 DEF Boot
<1>2. CASE LoadSnap BY <1>2 DEF LoadSnap
<1>3. CASE LoadZip BY <1>3 DEF LoadZip, Parses
<1>4. CASE SaveParsed BY <1>4 DEF SaveParsed, Written
<1>5. CASE Wake BY <1>5 DEF Wake
<1>6. CASE LoadMeta BY <1>6 DEF LoadMeta
<1>7. CASE Unchanged BY <1>7 DEF Unchanged, Ended
<1>8. CASE Fetch BY <1>8 DEF Fetch, Written
<1>9. CASE FetchFails BY <1>9 DEF FetchFails, Fails, Ended
<1>10. CASE Parse BY <1>10 DEF Parse, Parses, Fails, Ended
<1>11. CASE SaveSnap BY <1>11 DEF SaveSnap, Unsaved, Written, Fails, Ended
<1>12. CASE SaveMeta BY <1>12 DEF SaveMeta, Unsaved, Written, Fails, Ended
<1>13. CASE Rebuild BY <1>13 DEF Rebuild, Start
<1>14. CASE Rebuilt BY <1>14 DEF Rebuilt, Publish
<1>15. CASE NewDay BY <1>15 DEF NewDay
<1>16. CASE MidnightRebuild BY <1>16 DEF MidnightRebuild, Start
<1>17. CASE MidnightRebuilt BY <1>17 DEF MidnightRebuilt, Publish
<1>18. CASE Release BY <1>18 DEF Release
<1>19. CASE WriteBack BY <1>19 DEF WriteBack
<1>20. CASE Crash BY <1>20 DEF Crash
<1> QED BY <1>1, <1>2, <1>3, <1>4, <1>5, <1>6, <1>7, <1>8, <1>9, <1>10, <1>11, <1>12, <1>13, <1>14, <1>15, <1>16, <1>17, <1>18, <1>19, <1>20 DEF Next

-----------------------------------------------------------------------------
(* The stop indexes.                                                       *)

\* The refresh task, or bootstrap, is not about to begin a build.
Settled == \/ pc = "sleep" \/ job["refresh"] # None
           \/ ~boot /\ pc \in {"load_meta", "request", "parse"}

\* Who may build when, and what of: the feed stays as it is while the refresh
\* task builds, the day while the midnight task does.
Builds ==
  /\ pc = "down" => boot
  /\ job["refresh"] # None => pc = "rebuild" /\ job["refresh"].feed = store
  /\ job["midnight"] # None => job["midnight"].day = day /\ ~due
  /\ due \/ job["midnight"] # None => pc = "sleep" \/ (~boot /\ pc # "down")
  /\ store = None => stops = None /\ last = None /\ \A t \in Tasks : job[t] = None
  /\ last = None <=> \A t \in Tasks : job[t] = None

\* A build x sees today's date, unless the midnight task has yet to begin one;
\* and the feed served, unless the refresh task has, or failed to.
Today(x) == due \/ x.day = day
Fed(x) == ~Settled \/ "unsaved" \in behind \/ x.feed = store

\* What was begun last, in flight or published, is up to date in this sense.
Served ==
  /\ Builds
  /\ last # None /\ job[last] # None =>
       /\ (boot /\ pc = "rebuild") \/ Today(job[last])
       /\ Fed(job[last])
       /\ job["refresh"] # None => job[last].feed = store
  /\ (last = None /\ "outrun" \notin behind) \/ (last # None /\ job[last] = None) =>
       /\ stops = None \/ "overnight" \in behind \/ (boot /\ pc # "sleep") \/ Today(stops)
       /\ store = None \/ ~Settled \/ "unsaved" \in behind \/ (stops # None /\ stops.feed = store)
  /\ last # None /\ job[last] = None => stops # None

LEMMA NextServed ==
  ASSUME IInv, Served, Next
  PROVE  Served'
<1> USE ConstantsAssumption DEF IInv, TypeOK, Served, Builds, Settled, Today, Fed, Holding, quiet, past, Readable, Contents, Files, Versions, Tasks
<1>1. CASE Boot BY <1>1 DEF Boot
<1>2. CASE LoadSnap BY <1>2 DEF LoadSnap
<1>3. CASE LoadZip BY <1>3 DEF LoadZip, Parses
<1>4. CASE SaveParsed BY <1>4 DEF SaveParsed
<1>5. CASE Wake BY <1>5 DEF Wake
<1>6. CASE LoadMeta BY <1>6 DEF LoadMeta
<1>7. CASE Unchanged BY <1>7 DEF Unchanged, Ended
<1>8. CASE Fetch BY <1>8 DEF Fetch
<1>9. CASE FetchFails BY <1>9 DEF FetchFails, Fails, Ended
<1>10. CASE Parse BY <1>10 DEF Parse, Parses, Fails, Ended
<1>11. CASE SaveSnap BY <1>11 DEF SaveSnap, Unsaved, Fails, Ended
<1>12. CASE SaveMeta BY <1>12 DEF SaveMeta, Unsaved, Fails, Ended
<1>13. CASE Rebuild
  <2>1. CASE store = None BY <1>13, <2>1 DEF Rebuild, Start
  <2>2. CASE store # None
    <3> DEFINE x == [feed |-> store, day |-> day]
    <3>1. x # None /\ x.feed = store /\ x.day = day BY <2>2
    <3>2. /\ last' = "refresh" /\ job'["refresh"] = x /\ job'["midnight"] = job["midnight"]
          /\ UNCHANGED <<store, stops, day, boot, behind>>
      BY <1>13, <2>2 DEF Rebuild, Start
    <3> HIDE DEF x
    <3>3. Builds' BY <1>13, <2>2, <3>1, <3>2 DEF Rebuild
    <3>4. last' # None /\ job'[last'] = x BY <3>1, <3>2
    <3>5. (Today(job[last]) /\ Fed(job[last]) /\ job[last].feed = store)'
      BY <3>1, <3>2, <3>4
    <3> QED BY <3>1, <3>3, <3>4, <3>5
  <2> QED BY <2>1, <2>2
<1>14. CASE Rebuilt BY <1>14 DEF Rebuilt, Publish, Others
<1>15. CASE NewDay BY <1>15 DEF NewDay, TasksRun
<1>16. CASE MidnightRebuild
  <2>1. CASE store = None BY <1>16, <2>1 DEF MidnightRebuild, Start
  <2>2. CASE store # None
    <3> DEFINE x == [feed |-> store, day |-> day]
    <3>1. x # None /\ x.feed = store /\ x.day = day BY <2>2
    <3>2. /\ last' = "midnight" /\ job'["midnight"] = x /\ job'["refresh"] = job["refresh"]
          /\ UNCHANGED <<store, stops, day, boot, behind>>
      BY <1>16, <2>2 DEF MidnightRebuild, Start
    <3> HIDE DEF x
    <3>3. Builds' BY <1>16, <2>2, <3>1, <3>2 DEF MidnightRebuild
    <3>4. last' # None /\ job'[last'] = x BY <3>1, <3>2
    <3>5. (Today(job[last]) /\ Fed(job[last]) /\ job[last].feed = store)'
      BY <3>1, <3>2, <3>4
    <3> QED BY <3>1, <3>3, <3>4, <3>5
  <2> QED BY <2>1, <2>2
<1>17. CASE MidnightRebuilt BY <1>17 DEF MidnightRebuilt, Publish, Others
<1>18. CASE Release BY <1>18 DEF Release
<1>19. CASE WriteBack BY <1>19 DEF WriteBack
<1>20. CASE Crash BY <1>20 DEF Crash
<1> QED BY <1>1, <1>2, <1>3, <1>4, <1>5, <1>6, <1>7, <1>8, <1>9, <1>10, <1>11, <1>12, <1>13, <1>14, <1>15, <1>16, <1>17, <1>18, <1>19, <1>20 DEF Next

-----------------------------------------------------------------------------
(* Theorems.                                                               *)

\* Every value is of its type.
THEOREM WellTyped == Spec => []TypeOK
<1>1. IInv => TypeOK BY DEF IInv
<1> QED BY <1>1, InitInv, NextInv, PTL DEF Spec

\* Killed at any step and however often: the validators on disk are never newer
\* than the snapshot (do_refresh).
THEOREM ValidatorsFollow == Spec => []MetaNeverAhead
<1>1. IInv => MetaNeverAhead BY DEF IInv
<1> QED BY <1>1, InitInv, NextInv, PTL DEF Spec

\* A refresh that completed is not undone, by another or by a restart.
THEOREM Forwards == Spec => []NeverBackwards
<1>1. IInv => NeverBackwards BY DEF IInv, Kept, NeverBackwards
<1> QED BY <1>1, InitInv, NextInv, PTL DEF Spec

\* Without a file lost, a publisher that answers 304 answers a process that
\* serves its release (do_refresh, spawn_gtfs_refresh).
THEOREM NotModified == Spec => []UnchangedIsServed
<1>1. Init => Upheld
  BY ConstantsAssumption DEF Init, Upheld, Readable, Files
<1>2. IInv /\ Upheld /\ [Next]_vars => Upheld'
  <2> SUFFICES ASSUME IInv, Upheld, [Next]_vars PROVE Upheld' OBVIOUS
  <2>1. CASE Next BY <2>1, NextUpheld
  <2>2. CASE UNCHANGED vars BY <2>2 DEF vars, Upheld, Readable
  <2> QED BY <2>1, <2>2
<1>3. IInv /\ Upheld => UnchangedIsServed
  BY ConstantsAssumption
     DEF IInv, TypeOK, Kept, Upheld, UnchangedIsServed, Readable, Contents, Versions, Files
<1> QED BY <1>1, <1>2, <1>3, InitInv, NextInv, PTL DEF Spec

\* The stop indexes are of the feed served and of today whenever nobody is at
\* work on them, midnights within a refresh or a bootstrap included, unless two
\* builds overlapped and the older won, a save failed, or a bootstrap's build
\* began yesterday (spawn_gtfs_refresh, spawn_stop_index_refresh).
THEOREM StopsFollow == Spec => []StopsCurrent
<1>1. Init => Served
  BY ConstantsAssumption DEF Init, Served, Builds, Settled, Tasks
<1>2. IInv /\ Served /\ [Next]_vars => Served'
  <2> SUFFICES ASSUME IInv, Served, [Next]_vars PROVE Served' OBVIOUS
  <2>1. CASE Next BY <2>1, NextServed
  <2>2. CASE UNCHANGED vars BY <2>2 DEF vars, Served, Builds, Settled, Today, Fed
  <2> QED BY <2>1, <2>2
<1>3. IInv /\ Served => StopsCurrent
  <2> SUFFICES ASSUME IInv, Served, ~AtWork, behind = {} PROVE Serving(store)
    BY DEF StopsCurrent
  <2>1. /\ pc = "sleep" /\ ~due /\ job["midnight"] = None /\ job["refresh"] = None /\ last = None
    BY DEF AtWork, Served, Builds, Tasks
  <2>2. CASE store = None BY <2>1, <2>2 DEF Served, Builds, Serving
  <2>3. CASE store # None
    <3>1. stops # None /\ stops.feed = store /\ stops.day = day
      BY <2>1, <2>3 DEF Served, Settled, Today
    <3>2. stops \in [feed: Versions, day: 0 .. MaxDay] BY <3>1 DEF IInv, TypeOK
    <3> QED BY <2>3, <3>1, <3>2 DEF Serving
  <2> QED BY <2>2, <2>3
<1> QED BY <1>1, <1>2, <1>3, InitInv, NextInv, PTL DEF Spec
=============================================================================
