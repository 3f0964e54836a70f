------------------------ MODULE PrebuiltCacheProofs ------------------------
(***************************************************************************)
(* What PrebuiltCache keeps for any set of builds, any set of process ids, *)
(* any number of releases and of faults.                                   *)
(***************************************************************************)
EXTENDS PrebuiltCache, TLAPS

(* Two live builds stage in two directories, *)
OwnStaging == \A b, o \in Build :
                b # o /\ pc[b] \notin Ended /\ pc[o] \notin Ended => pid[b] # pid[o]

(* so that what one is about to rename is what it unpacked. *)
StagedWhole == \A b \in Build : pc[b] = "renaming" => staging[Mine(b)] = "whole"

(* Nothing is newer than the latest release, *)
NothingNewer == /\ \A b \in Build : tag[b] <= latest
                /\ \A t \in Tag : cache[t] # "absent" => t <= latest
                /\ linked <= latest

(* the newest release a build ended with is still in the cache, *)
LinkedIsCached == linked # NoTag => cache[linked] \in {"whole", "bad"}

(* and a build that knows its release is not behind where it began. *)
NotBehind == /\ \A b \in Build : floor[b] <= linked
             /\ \A b \in Build : pc[b] \notin Ended \cup {"asking"} => tag[b] >= floor[b]

WholeInv   == TypeOK /\ OwnStaging /\ StagedWhole /\ CacheIsWhole
ForwardInv == TypeOK /\ NothingNewer /\ LinkedIsCached /\ NotBehind

-----------------------------------------------------------------------------
LEMMA TypesStep == TypeOK /\ [Next]_vars => TypeOK'
<1> SUFFICES ASSUME TypeOK, [Next]_vars PROVE TypeOK'
  OBVIOUS
<1> USE CacheAssumption DEF TypeOK, Directory, Staging, Tag, NoTag, Ended, PC,
        Goto, Fault, Stage, Mine, process, history
<1>1. ASSUME NEW b \in Build, NEW p \in Pid, Start(b, p) PROVE TypeOK'
  BY <1>1 DEF Start
<1>2. ASSUME NEW b \in Build, LatestReleaseTag(b) PROVE TypeOK'
  BY <1>2 DEF LatestReleaseTag
<1>3. ASSUME NEW b \in Build, OfflineCache(b) PROVE TypeOK'
  BY <1>3 DEF OfflineCache
<1>4. ASSUME NEW b \in Build, NothingCached(b) PROVE TypeOK'
  BY <1>4 DEF NothingCached
<1>5. ASSUME NEW b \in Build, Cached(b) PROVE TypeOK'
  BY <1>5 DEF Cached
<1>6. ASSUME NEW b \in Build, NotCached(b) PROVE TypeOK'
  BY <1>6 DEF NotCached
<1>7. ASSUME NEW b \in Build, Clean(b) PROVE TypeOK'
  BY <1>7 DEF Clean
<1>8. ASSUME NEW b \in Build, Download(b) PROVE TypeOK'
  <2>1. staging' \in [Tag \X Pid -> Staging]
    BY <1>8 DEF Download
  <2>2. faults' \in 0 .. MaxFault
    BY <1>8 DEF Download
  <2>3. /\ pc' \in [Build -> PC]
        /\ \A o \in Build : pc'[o] \notin Ended \cup {"asking"} => tag[o] \in Tag
    BY <1>8 DEF Download
  <2> QED  BY <1>8, <2>1, <2>2, <2>3 DEF Download
<1>9. ASSUME NEW b \in Build, VerifyDownload(b) PROVE TypeOK'
  BY <1>9 DEF VerifyDownload
<1>10. ASSUME NEW b \in Build, Unpack(b) PROVE TypeOK'
  BY <1>10 DEF Unpack
<1>11. ASSUME NEW b \in Build, UnpackRest(b) PROVE TypeOK'
  BY <1>11 DEF UnpackRest
<1>12. ASSUME NEW b \in Build, Rename(b) PROVE TypeOK'
  <2>1. faults' \in 0 .. MaxFault
    BY <1>12 DEF Rename
  <2>2. cache' = cache \/ \E d \in Directory : cache' = [cache EXCEPT ![tag[b]] = d]
    <3>1. tag[b] \in Tag
      BY <1>12 DEF Rename
    <3> QED  BY <1>12, <3>1 DEF Rename
  <2>3. cache' \in [Tag -> Directory]
    BY <2>2
  <2> QED  BY <1>12, <2>1, <2>3 DEF Rename
<1>13. ASSUME NEW b \in Build, VerifyLibraries(b) PROVE TypeOK'
  BY <1>13 DEF VerifyLibraries
<1>14. ASSUME NEW b \in Build, Mismatch(b) PROVE TypeOK'
  BY <1>14 DEF Mismatch
<1>15. ASSUME NEW b \in Build, Kill(b) PROVE TypeOK'
  BY <1>15 DEF Kill
<1>16. CASE Publish
  BY <1>16 DEF Publish
<1>17. ASSUME NEW t \in Tag, Rot(t) PROVE TypeOK'
  BY <1>17 DEF Rot
<1>18. ASSUME NEW t \in Tag, Delete(t) PROVE TypeOK'
  BY <1>18 DEF Delete
<1>19. ASSUME NEW t \in Tag, Deleted(t) PROVE TypeOK'
  BY <1>19 DEF Deleted
<1>20. CASE UNCHANGED vars
  BY <1>20 DEF vars
<1> QED
  BY <1>1, <1>2, <1>3, <1>4, <1>5, <1>6, <1>7, <1>8, <1>9, <1>10, <1>11,
     <1>12, <1>13, <1>14, <1>15, <1>16, <1>17, <1>18, <1>19, <1>20 DEF Next,
     Advance, Resolve, Fetch, Conclude

(* A build starts with a pid that is free, and keeps it while it lives. *)
LEMMA OwnStagingStep == TypeOK /\ OwnStaging /\ [Next]_vars => OwnStaging'
<1> SUFFICES ASSUME TypeOK, OwnStaging, [Next]_vars PROVE OwnStaging'
  OBVIOUS
<1> USE DEF TypeOK, OwnStaging, Ended, PC, Goto, process
<1>1. ASSUME NEW b \in Build, NEW p \in Pid, Start(b, p) PROVE OwnStaging'
  BY <1>1 DEF Start
<1>2. ASSUME NEW b \in Build, LatestReleaseTag(b) PROVE OwnStaging'
  BY <1>2 DEF LatestReleaseTag
<1>3. ASSUME NEW b \in Build, OfflineCache(b) PROVE OwnStaging'
  BY <1>3 DEF OfflineCache
<1>4. ASSUME NEW b \in Build, NothingCached(b) PROVE OwnStaging'
  BY <1>4 DEF NothingCached
<1>5. ASSUME NEW b \in Build, Cached(b) PROVE OwnStaging'
  BY <1>5 DEF Cached
<1>6. ASSUME NEW b \in Build, NotCached(b) PROVE OwnStaging'
  BY <1>6 DEF NotCached
<1>7. ASSUME NEW b \in Build, Clean(b) PROVE OwnStaging'
  BY <1>7 DEF Clean
<1>8. ASSUME NEW b \in Build, Download(b) PROVE OwnStaging'
  BY <1>8 DEF Download
<1>9. ASSUME NEW b \in Build, VerifyDownload(b) PROVE OwnStaging'
  BY <1>9 DEF VerifyDownload
<1>10. ASSUME NEW b \in Build, Unpack(b) PROVE OwnStaging'
  BY <1>10 DEF Unpack
<1>11. ASSUME NEW b \in Build, UnpackRest(b) PROVE OwnStaging'
  BY <1>11 DEF UnpackRest
<1>12. ASSUME NEW b \in Build, Rename(b) PROVE OwnStaging'
  BY <1>12 DEF Rename
<1>13. ASSUME NEW b \in Build, VerifyLibraries(b) PROVE OwnStaging'
  BY <1>13 DEF VerifyLibraries
<1>14. ASSUME NEW b \in Build, Mismatch(b) PROVE OwnStaging'
  BY <1>14 DEF Mismatch
<1>15. ASSUME NEW b \in Build, Kill(b) PROVE OwnStaging'
  BY <1>15 DEF Kill
<1>16. CASE Publish
  BY <1>16 DEF Publish
<1>17. ASSUME NEW t \in Tag, Rot(t) PROVE OwnStaging'
  BY <1>17 DEF Rot
<1>18. ASSUME NEW t \in Tag, Delete(t) PROVE OwnStaging'
  BY <1>18 DEF Delete
<1>19. ASSUME NEW t \in Tag, Deleted(t) PROVE OwnStaging'
  BY <1>19 DEF Deleted
<1>20. CASE UNCHANGED vars
  BY <1>20 DEF vars
<1> QED
  BY <1>1, <1>2, <1>3, <1>4, <1>5, <1>6, <1>7, <1>8, <1>9, <1>10, <1>11,
     <1>12, <1>13, <1>14, <1>15, <1>16, <1>17, <1>18, <1>19, <1>20 DEF Next,
     Advance, Resolve, Fetch, Conclude

(* Nobody writes into the staging directory of another live build. *)
LEMMA StagedWholeStep ==
  TypeOK /\ OwnStaging /\ StagedWhole /\ [Next]_vars => StagedWhole'
<1> SUFFICES ASSUME TypeOK, OwnStaging, StagedWhole, [Next]_vars PROVE StagedWhole'
  OBVIOUS
<1> USE DEF TypeOK, OwnStaging, StagedWhole, Ended, PC, Tag, Goto, Stage, Mine, process
<1>1. ASSUME NEW b \in Build, NEW p \in Pid, Start(b, p) PROVE StagedWhole'
  BY <1>1 DEF Start
<1>2. ASSUME NEW b \in Build, LatestReleaseTag(b) PROVE StagedWhole'
  BY <1>2 DEF LatestReleaseTag
<1>3. ASSUME NEW b \in Build, OfflineCache(b) PROVE StagedWhole'
  BY <1>3 DEF OfflineCache
<1>4. ASSUME NEW b \in Build, NothingCached(b) PROVE StagedWhole'
  BY <1>4 DEF NothingCached
<1>5. ASSUME NEW b \in Build, Cached(b) PROVE StagedWhole'
  BY <1>5 DEF Cached
<1>6. ASSUME NEW b \in Build, NotCached(b) PROVE StagedWhole'
  BY <1>6 DEF NotCached
<1>7. ASSUME NEW b \in Build, Clean(b) PROVE StagedWhole'
  BY <1>7 DEF Clean
<1>8. ASSUME NEW b \in Build, Download(b) PROVE StagedWhole'
  BY <1>8 DEF Download
<1>9. ASSUME NEW b \in Build, VerifyDownload(b) PROVE StagedWhole'
  BY <1>9 DEF VerifyDownload
<1>10. ASSUME NEW b \in Build, Unpack(b) PROVE StagedWhole'
  BY <1>10 DEF Unpack
<1>11. ASSUME NEW b \in Build, UnpackRest(b) PROVE StagedWhole'
  BY <1>11 DEF UnpackRest
<1>12. ASSUME NEW b \in Build, Rename(b) PROVE StagedWhole'
  BY <1>12 DEF Rename
<1>13. ASSUME NEW b \in Build, VerifyLibraries(b) PROVE StagedWhole'
  BY <1>13 DEF VerifyLibraries
<1>14. ASSUME NEW b \in Build, Mismatch(b) PROVE StagedWhole'
  BY <1>14 DEF Mismatch
<1>15. ASSUME NEW b \in Build, Kill(b) PROVE StagedWhole'
  BY <1>15 DEF Kill
<1>16. CASE Publish
  BY <1>16 DEF Publish
<1>17. ASSUME NEW t \in Tag, Rot(t) PROVE StagedWhole'
  BY <1>17 DEF Rot
<1>18. ASSUME NEW t \in Tag, Delete(t) PROVE StagedWhole'
  BY <1>18 DEF Delete
<1>19. ASSUME NEW t \in Tag, Deleted(t) PROVE StagedWhole'
  BY <1>19 DEF Deleted
<1>20. CASE UNCHANGED vars
  BY <1>20 DEF vars
<1> QED
  BY <1>1, <1>2, <1>3, <1>4, <1>5, <1>6, <1>7, <1>8, <1>9, <1>10, <1>11,
     <1>12, <1>13, <1>14, <1>15, <1>16, <1>17, <1>18, <1>19, <1>20 DEF Next,
     Advance, Resolve, Fetch, Conclude

(* So a rename puts a whole release where there was none. *)
LEMMA CacheIsWholeStep ==
  TypeOK /\ StagedWhole /\ CacheIsWhole /\ [Next]_vars => CacheIsWhole'
<1> SUFFICES ASSUME TypeOK, StagedWhole, CacheIsWhole, [Next]_vars PROVE CacheIsWhole'
  OBVIOUS
<1> USE DEF TypeOK, StagedWhole, CacheIsWhole, Ended, PC, Tag, Goto, Mine, history
<1>1. ASSUME NEW b \in Build, NEW p \in Pid, Start(b, p) PROVE CacheIsWhole'
  BY <1>1 DEF Start
<1>2. ASSUME NEW b \in Build, LatestReleaseTag(b) PROVE CacheIsWhole'
  BY <1>2 DEF LatestReleaseTag
<1>3. ASSUME NEW b \in Build, OfflineCache(b) PROVE CacheIsWhole'
  BY <1>3 DEF OfflineCache
<1>4. ASSUME NEW b \in Build, NothingCached(b) PROVE CacheIsWhole'
  BY <1>4 DEF NothingCached
<1>5. ASSUME NEW b \in Build, Cached(b) PROVE CacheIsWhole'
  BY <1>5 DEF Cached
<1>6. ASSUME NEW b \in Build, NotCached(b) PROVE CacheIsWhole'
  BY <1>6 DEF NotCached
<1>7. ASSUME NEW b \in Build, Clean(b) PROVE CacheIsWhole'
  BY <1>7 DEF Clean
<1>8. ASSUME NEW b \in Build, Download(b) PROVE CacheIsWhole'
  BY <1>8 DEF Download
<1>9. ASSUME NEW b \in Build, VerifyDownload(b) PROVE CacheIsWhole'
  BY <1>9 DEF VerifyDownload
<1>10. ASSUME NEW b \in Build, Unpack(b) PROVE CacheIsWhole'
  BY <1>10 DEF Unpack
<1>11. ASSUME NEW b \in Build, UnpackRest(b) PROVE CacheIsWhole'
  BY <1>11 DEF UnpackRest
<1>12. ASSUME NEW b \in Build, Rename(b) PROVE CacheIsWhole'
  BY <1>12 DEF Rename
<1>13. ASSUME NEW b \in Build, VerifyLibraries(b) PROVE CacheIsWhole'
  BY <1>13 DEF VerifyLibraries
<1>14. ASSUME NEW b \in Build, Mismatch(b) PROVE CacheIsWhole'
  BY <1>14 DEF Mismatch
<1>15. ASSUME NEW b \in Build, Kill(b) PROVE CacheIsWhole'
  BY <1>15 DEF Kill
<1>16. CASE Publish
  BY <1>16 DEF Publish
<1>17. ASSUME NEW t \in Tag, Rot(t) PROVE CacheIsWhole'
  BY <1>17 DEF Rot
<1>18. ASSUME NEW t \in Tag, Delete(t) PROVE CacheIsWhole'
  BY <1>18 DEF Delete
<1>19. ASSUME NEW t \in Tag, Deleted(t) PROVE CacheIsWhole'
  BY <1>19 DEF Deleted
<1>20. CASE UNCHANGED vars
  BY <1>20 DEF vars
<1> QED
  BY <1>1, <1>2, <1>3, <1>4, <1>5, <1>6, <1>7, <1>8, <1>9, <1>10, <1>11,
     <1>12, <1>13, <1>14, <1>15, <1>16, <1>17, <1>18, <1>19, <1>20 DEF Next,
     Advance, Resolve, Fetch, Conclude

LEMMA NothingNewerStep == TypeOK /\ NothingNewer /\ [Next]_vars => NothingNewer'
<1> SUFFICES ASSUME TypeOK, NothingNewer, [Next]_vars PROVE NothingNewer'
  OBVIOUS
<1> USE CacheAssumption DEF TypeOK, NothingNewer, Tag, NoTag, Ended, PC, Goto, HasLib,
        Directory, process, history
<1>1. ASSUME NEW b \in Build, NEW p \in Pid, Start(b, p) PROVE NothingNewer'
  BY <1>1 DEF Start
<1>2. ASSUME NEW b \in Build, LatestReleaseTag(b) PROVE NothingNewer'
  BY <1>2 DEF LatestReleaseTag
<1>3. ASSUME NEW b \in Build, OfflineCache(b) PROVE NothingNewer'
  BY <1>3 DEF OfflineCache
<1>4. ASSUME NEW b \in Build, NothingCached(b) PROVE NothingNewer'
  BY <1>4 DEF NothingCached
<1>5. ASSUME NEW b \in Build, Cached(b) PROVE NothingNewer'
  BY <1>5 DEF Cached
<1>6. ASSUME NEW b \in Build, NotCached(b) PROVE NothingNewer'
  BY <1>6 DEF NotCached
<1>7. ASSUME NEW b \in Build, Clean(b) PROVE NothingNewer'
  BY <1>7 DEF Clean
<1>8. ASSUME NEW b \in Build, Download(b) PROVE NothingNewer'
  BY <1>8 DEF Download
<1>9. ASSUME NEW b \in Build, VerifyDownload(b) PROVE NothingNewer'
  BY <1>9 DEF VerifyDownload
<1>10. ASSUME NEW b \in Build, Unpack(b) PROVE NothingNewer'
  BY <1>10 DEF Unpack
<1>11. ASSUME NEW b \in Build, UnpackRest(b) PROVE NothingNewer'
  BY <1>11 DEF UnpackRest
<1>12. ASSUME NEW b \in Build, Rename(b) PROVE NothingNewer'
  BY <1>12 DEF Rename
<1>13. ASSUME NEW b \in Build, VerifyLibraries(b) PROVE NothingNewer'
  BY <1>13 DEF VerifyLibraries
<1>14. ASSUME NEW b \in Build, Mismatch(b) PROVE NothingNewer'
  BY <1>14 DEF Mismatch
<1>15. ASSUME NEW b \in Build, Kill(b) PROVE NothingNewer'
  BY <1>15 DEF Kill
<1>16. CASE Publish
  BY <1>16 DEF Publish
<1>17. ASSUME NEW t \in Tag, Rot(t) PROVE NothingNewer'
  BY <1>17 DEF Rot
<1>18. ASSUME NEW t \in Tag, Delete(t) PROVE NothingNewer'
  BY <1>18 DEF Delete
<1>19. ASSUME NEW t \in Tag, Deleted(t) PROVE NothingNewer'
  BY <1>19 DEF Deleted
<1>20. CASE UNCHANGED vars
  BY <1>20 DEF vars
<1> QED
  BY <1>1, <1>2, <1>3, <1>4, <1>5, <1>6, <1>7, <1>8, <1>9, <1>10, <1>11,
     <1>12, <1>13, <1>14, <1>15, <1>16, <1>17, <1>18, <1>19, <1>20 DEF Next,
     Advance, Resolve, Fetch, Conclude

(* Only its deletion takes from the cache what a build ended with. *)
LEMMA LinkedIsCachedStep == TypeOK /\ LinkedIsCached /\ [Next]_vars => LinkedIsCached'
<1> SUFFICES ASSUME TypeOK, LinkedIsCached, [Next]_vars PROVE LinkedIsCached'
  OBVIOUS
<1> USE DEF TypeOK, LinkedIsCached, Tag, NoTag, Ended, PC, Goto, process, history
<1>1. ASSUME NEW b \in Build, NEW p \in Pid, Start(b, p) PROVE LinkedIsCached'
  BY <1>1 DEF Start
<1>2. ASSUME NEW b \in Build, LatestReleaseTag(b) PROVE LinkedIsCached'
  BY <1>2 DEF LatestReleaseTag
<1>3. ASSUME NEW b \in Build, OfflineCache(b) PROVE LinkedIsCached'
  BY <1>3 DEF OfflineCache
<1>4. ASSUME NEW b \in Build, NothingCached(b) PROVE LinkedIsCached'
  BY <1>4 DEF NothingCached
<1>5. ASSUME NEW b \in Build, Cached(b) PROVE LinkedIsCached'
  BY <1>5 DEF Cached
<1>6. ASSUME NEW b \in Build, NotCached(b) PROVE LinkedIsCached'
  BY <1>6 DEF NotCached
<1>7. ASSUME NEW b \in Build, Clean(b) PROVE LinkedIsCached'
  BY <1>7 DEF Clean
<1>8. ASSUME NEW b \in Build, Download(b) PROVE LinkedIsCached'
  BY <1>8 DEF Download
<1>9. ASSUME NEW b \in Build, VerifyDownload(b) PROVE LinkedIsCached'
  BY <1>9 DEF VerifyDownload
<1>10. ASSUME NEW b \in Build, Unpack(b) PROVE LinkedIsCached'
  BY <1>10 DEF Unpack
<1>11. ASSUME NEW b \in Build, UnpackRest(b) PROVE LinkedIsCached'
  BY <1>11 DEF UnpackRest
<1>12. ASSUME NEW b \in Build, Rename(b) PROVE LinkedIsCached'
  BY <1>12 DEF Rename
<1>13. ASSUME NEW b \in Build, VerifyLibraries(b) PROVE LinkedIsCached'
  BY <1>13 DEF VerifyLibraries
<1>14. ASSUME NEW b \in Build, Mismatch(b) PROVE LinkedIsCached'
  BY <1>14 DEF Mismatch
<1>15. ASSUME NEW b \in Build, Kill(b) PROVE LinkedIsCached'
  BY <1>15 DEF Kill
<1>16. CASE Publish
  BY <1>16 DEF Publish
<1>17. ASSUME NEW t \in Tag, Rot(t) PROVE LinkedIsCached'
  BY <1>17 DEF Rot
<1>18. ASSUME NEW t \in Tag, Delete(t) PROVE LinkedIsCached'
  BY <1>18 DEF Delete
<1>19. ASSUME NEW t \in Tag, Deleted(t) PROVE LinkedIsCached'
  BY <1>19 DEF Deleted
<1>20. CASE UNCHANGED vars
  BY <1>20 DEF vars
<1> QED
  BY <1>1, <1>2, <1>3, <1>4, <1>5, <1>6, <1>7, <1>8, <1>9, <1>10, <1>11,
     <1>12, <1>13, <1>14, <1>15, <1>16, <1>17, <1>18, <1>19, <1>20 DEF Next,
     Advance, Resolve, Fetch, Conclude

(* Online a build takes the latest release, and offline none that is older *)
(* than one it finds. *)
LEMMA NotBehindStep ==
  TypeOK /\ NothingNewer /\ LinkedIsCached /\ NotBehind /\ [Next]_vars => NotBehind'
<1> SUFFICES ASSUME TypeOK, NothingNewer, LinkedIsCached, NotBehind, [Next]_vars
             PROVE  NotBehind'
  OBVIOUS
<1> USE CacheAssumption DEF TypeOK, NothingNewer, LinkedIsCached, NotBehind, Tag, NoTag,
        Ended, PC, Goto, LacksLib, process, history
<1>1. ASSUME NEW b \in Build, NEW p \in Pid, Start(b, p) PROVE NotBehind'
  BY <1>1 DEF Start
<1>2. ASSUME NEW b \in Build, LatestReleaseTag(b) PROVE NotBehind'
  BY <1>2 DEF LatestReleaseTag
<1>3. ASSUME NEW b \in Build, OfflineCache(b) PROVE NotBehind'
  <2>1. PICK t \in Tag : /\ \A u \in Tag : u > t => LacksLib(u)
                        /\ tag' = [tag EXCEPT ![b] = t]
    BY <1>3 DEF OfflineCache
  <2>2. linked <= t
    <3>1. CASE linked = 0
      BY <3>1
    <3>2. CASE linked > 0
      <4>1. linked \in Tag /\ ~ LacksLib(linked)
        BY <3>2
      <4>2. ~ (linked > t)
        BY <2>1, <4>1, Zenon
      <4> QED  BY <4>1, <4>2
    <3> QED  BY <3>1, <3>2
  <2>3. floor[b] <= t
    BY <2>2
  <2> QED  BY <1>3, <2>1, <2>3 DEF OfflineCache
<1>4. ASSUME NEW b \in Build, NothingCached(b) PROVE NotBehind'
  BY <1>4 DEF NothingCached
<1>5. ASSUME NEW b \in Build, Cached(b) PROVE NotBehind'
  BY <1>5 DEF Cached
<1>6. ASSUME NEW b \in Build, NotCached(b) PROVE NotBehind'
  BY <1>6 DEF NotCached
<1>7. ASSUME NEW b \in Build, Clean(b) PROVE NotBehind'
  BY <1>7 DEF Clean
<1>8. ASSUME NEW b \in Build, Download(b) PROVE NotBehind'
  BY <1>8 DEF Download
<1>9. ASSUME NEW b \in Build, VerifyDownload(b) PROVE NotBehind'
  BY <1>9 DEF VerifyDownload
<1>10. ASSUME NEW b \in Build, Unpack(b) PROVE NotBehind'
  BY <1>10 DEF Unpack
<1>11. ASSUME NEW b \in Build, UnpackRest(b) PROVE NotBehind'
  BY <1>11 DEF UnpackRest
<1>12. ASSUME NEW b \in Build, Rename(b) PROVE NotBehind'
  BY <1>12 DEF Rename
<1>13. ASSUME NEW b \in Build, VerifyLibraries(b) PROVE NotBehind'
  BY <1>13 DEF VerifyLibraries
<1>14. ASSUME NEW b \in Build, Mismatch(b) PROVE NotBehind'
  BY <1>14 DEF Mismatch
<1>15. ASSUME NEW b \in Build, Kill(b) PROVE NotBehind'
  BY <1>15 DEF Kill
<1>16. CASE Publish
  BY <1>16 DEF Publish
<1>17. ASSUME NEW t \in Tag, Rot(t) PROVE NotBehind'
  BY <1>17 DEF Rot
<1>18. ASSUME NEW t \in Tag, Delete(t) PROVE NotBehind'
  BY <1>18 DEF Delete
<1>19. ASSUME NEW t \in Tag, Deleted(t) PROVE NotBehind'
  BY <1>19 DEF Deleted
<1>20. CASE UNCHANGED vars
  BY <1>20 DEF vars
<1> QED
  BY <1>1, <1>2, <1>3, <1>4, <1>5, <1>6, <1>7, <1>8, <1>9, <1>10, <1>11,
     <1>12, <1>13, <1>14, <1>15, <1>16, <1>17, <1>18, <1>19, <1>20 DEF Next,
     Advance, Resolve, Fetch, Conclude

LEMMA Initially == Init => WholeInv /\ ForwardInv
BY CacheAssumption
DEF Init, WholeInv, ForwardInv, TypeOK, Directory, Staging, Tag, NoTag, Ended, PC,
    OwnStaging, StagedWhole, CacheIsWhole, NothingNewer, LinkedIsCached, NotBehind

-----------------------------------------------------------------------------
(* The cache, the staging directories and the builds keep their types. *)
THEOREM CacheTypes == Spec => []TypeOK
<1>1. Init => TypeOK
  BY Initially DEF WholeInv
<1> QED  BY <1>1, TypesStep, PTL DEF Spec

(* However many builds race, fail and are killed, none of them puts        *)
(* anything but a whole release into the cache: build.rs:493 renames only  *)
(* what this process has unpacked to the end.                              *)
THEOREM CacheStaysWhole == Spec => []CacheIsWhole
<1>1. WholeInv /\ [Next]_vars => WholeInv'
  BY TypesStep, OwnStagingStep, StagedWholeStep, CacheIsWholeStep DEF WholeInv
<1>2. WholeInv => CacheIsWhole
  BY DEF WholeInv
<1> QED  BY <1>1, <1>2, Initially, PTL DEF Spec

(* A build that cannot ask never takes an older release than one that a    *)
(* build before it ended with, as long as nobody deletes any: offline_cache *)
(* takes the newest (build.rs:429-439).                                    *)
THEOREM ReleasesOnlyAdvance == Spec => []NeverBackwards
<1>1. ForwardInv /\ [Next]_vars => ForwardInv'
  BY TypesStep, NothingNewerStep, LinkedIsCachedStep, NotBehindStep DEF ForwardInv
<1>2. ForwardInv => NeverBackwards
  BY DEF ForwardInv, NotBehind, NeverBackwards, Ended
<1> QED  BY <1>1, <1>2, Initially, PTL DEF Spec
=============================================================================
