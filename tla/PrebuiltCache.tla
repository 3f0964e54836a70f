--------------------------- MODULE PrebuiltCache ---------------------------
(***************************************************************************)
(* The cache of prebuilt archives, $CARGO_HOME/freerdp-prebuilt            *)
(* (freerdp-prebuilt-sys/build.rs): builds that ask which release is       *)
(* latest, look for it in the cache and otherwise download, verify, unpack *)
(* and rename it into place, several at a time, each of which may fail or  *)
(* be killed anywhere; releases that are published meanwhile; files that   *)
(* rot and the user who deletes them as told.                              *)
(*                                                                         *)
(* One target and one version of FreeRDP.  Releases are numbered as their  *)
(* stamps are ordered.  Live builds have distinct pids.                    *)
(***************************************************************************)
EXTENDS Naturals, FiniteSets

CONSTANTS Build,     (* build processes, one after the other in each       *)
          Pid,       (* process ids                                        *)
          MaxTag,    (* bound: releases                                    *)
          MaxFault   (* bound: kills, failures, silences and rot           *)

ASSUME CacheAssumption == MaxTag \in Nat \ {0} /\ MaxFault \in Nat

Tag   == 1 .. MaxTag
NoTag == 0

(* A directory of the cache: not there, as it was published, with a lib/   *)
(* that its MANIFEST does not describe, or being deleted.                  *)
Directory == {"absent", "whole", "bad", "going"}

(* A staging directory: not there, created, with a download that is good   *)
(* or cut short, and with lib/ unpacked in part or in whole.               *)
Staging == {"absent", "empty", "archive", "torn", "part", "whole"}

VARIABLES
  latest,   (* the release that "latest" redirects to                      *)
  cache,    (* <root>/<tag>/<name>                                         *)
  staging,  (* <root>/<tag>/<name>.tmp<pid>                                *)
  pc,       (* where a build is                                            *)
  pid,      (* its process id                                              *)
  tag,      (* the release it is after, or NoTag                           *)
  faults,   (* kills, failures, silences and rot so far                    *)
  rotten,   (* history: directories broken by something else than a build  *)
  linked,   (* history: the newest release a build ended with              *)
  floor     (* history: what linked was when a build began                 *)

process == <<pc, pid, tag>>
history == <<rotten, linked, floor>>
vars    == <<latest, cache, staging, process, faults, history>>

Ended == {"idle", "failed", "dead"}
PC    == Ended \cup {"asking", "looking", "cleaning", "downloading",
                     "verifying", "unpacking", "unpacked", "renaming",
                     "checking"}

TypeOK == /\ latest \in Tag
          /\ cache \in [Tag -> Directory]
          /\ staging \in [Tag \X Pid -> Staging]
          /\ pc \in [Build -> PC] /\ pid \in [Build -> Pid]
          /\ tag \in [Build -> Tag \cup {NoTag}]
          /\ \A b \in Build : pc[b] \notin Ended \cup {"asking"} => tag[b] \in Tag
          /\ faults \in 0 .. MaxFault
          /\ rotten \subseteq Tag
          /\ linked \in Tag \cup {NoTag}
          /\ floor \in [Build -> Tag \cup {NoTag}]

Init == /\ latest = 1
        /\ cache = [t \in Tag |-> "absent"]
        /\ staging = [d \in Tag \X Pid |-> "absent"]
        /\ pc = [b \in Build |-> "idle"] /\ pid \in [Build -> Pid]
        /\ tag = [b \in Build |-> NoTag]
        /\ faults = 0
        /\ rotten = {} /\ linked = NoTag /\ floor = [b \in Build |-> NoTag]

Goto(b, from, to) == pc[b] = from /\ pc' = [pc EXCEPT ![b] = to]
Fault             == faults < MaxFault /\ faults' = faults + 1

(* The staging directory of a build. *)
Mine(b)       == <<tag[b], pid[b]>>
Stage(b, dir) == staging' = [staging EXCEPT ![Mine(b)] = dir]

(* join("lib").is_dir(), which may go either way under a deletion. *)
HasLib(t)  == cache[t] \in {"whole", "bad", "going"}
LacksLib(t) == cache[t] \in {"absent", "going"}

-----------------------------------------------------------------------------
(* Slips: each replaces one definition below, to see that a property       *)
(* notices.  They are no part of the specification.                        *)

(* The archive is unpacked where it is to be used. *)
UnpackInPlace(b) ==
  /\ Goto(b, "unpacking", "unpacked")
  /\ cache' = [cache EXCEPT ![tag[b]] = "bad"]
  /\ UNCHANGED <<latest, staging, pid, tag, faults, history>>

(* The first release in the directory is taken, and not the newest. *)
AnyCached(b) ==
  /\ Goto(b, "asking", "checking")
  /\ Fault
  /\ \E t \in Tag : HasLib(t) /\ tag' = [tag EXCEPT ![b] = t]
  /\ UNCHANGED <<latest, cache, staging, pid, history>>

(* The staging directory must not be there. *)
CreateNew(b) ==
  /\ pc[b] = "cleaning"
  /\ IF staging[Mine(b)] = "absent"
       THEN Stage(b, "empty") /\ pc' = [pc EXCEPT ![b] = "downloading"]
       ELSE pc' = [pc EXCEPT ![b] = "failed"] /\ UNCHANGED staging
  /\ UNCHANGED <<latest, cache, pid, tag, faults, history>>

-----------------------------------------------------------------------------
(* A build begins, with a process id that no live build has. *)
Start(b, p) ==
  /\ pc[b] \in Ended
  /\ \A o \in Build : pc[o] \notin Ended => pid[o] # p
  /\ pc' = [pc EXCEPT ![b] = "asking"] /\ pid' = [pid EXCEPT ![b] = p]
  /\ tag' = [tag EXCEPT ![b] = NoTag]
  /\ floor' = [floor EXCEPT ![b] = linked]
  /\ UNCHANGED <<latest, cache, staging, faults, rotten, linked>>

(* latest_release_tag is told, *)
LatestReleaseTag(b) ==
  /\ Goto(b, "asking", "looking")
  /\ tag' = [tag EXCEPT ![b] = latest]
  /\ UNCHANGED <<latest, cache, staging, pid, faults, history>>

(* or cannot ask, and offline_cache takes the newest release there is, *)
OfflineCache(b) ==
  /\ Goto(b, "asking", "checking")
  /\ Fault
  /\ \E t \in Tag : /\ HasLib(t)
                    /\ \A u \in Tag : u > t => LacksLib(u)
                    /\ tag' = [tag EXCEPT ![b] = t]
  /\ UNCHANGED <<latest, cache, staging, pid, history>>

(* if there is one. *)
NothingCached(b) ==
  /\ Goto(b, "asking", "failed")
  /\ Fault
  /\ \A t \in Tag : LacksLib(t)
  /\ UNCHANGED <<latest, cache, staging, pid, tag, history>>

(* resolve finds the release cached, *)
Cached(b) ==
  /\ Goto(b, "looking", "checking")
  /\ HasLib(tag[b])
  /\ UNCHANGED <<latest, cache, staging, pid, tag, faults, history>>

(* or fetch gets it. *)
NotCached(b) ==
  /\ Goto(b, "looking", "cleaning")
  /\ LacksLib(tag[b])
  /\ UNCHANGED <<latest, cache, staging, pid, tag, faults, history>>

(* fetch: whatever an earlier process of this id left goes first, *)
Clean(b) ==
  /\ Goto(b, "cleaning", "downloading")
  /\ Stage(b, "empty")
  /\ UNCHANGED <<latest, cache, pid, tag, faults, history>>

(* the archive is downloaded, perhaps not to its end, *)
Download(b) ==
  /\ Goto(b, "downloading", "verifying")
  /\ \/ Stage(b, "archive") /\ UNCHANGED faults
     \/ Stage(b, "torn") /\ Fault
  /\ UNCHANGED <<latest, cache, pid, tag, history>>

(* compared with the sums of the same release, *)
VerifyDownload(b) ==
  /\ pc[b] = "verifying"
  /\ pc' = [pc EXCEPT ![b] = IF staging[Mine(b)] = "archive"
                               THEN "unpacking" ELSE "failed"]
  /\ UNCHANGED <<latest, cache, staging, pid, tag, faults, history>>

(* unpacked beside itself, a file at a time, *)
Unpack(b) ==
  /\ Goto(b, "unpacking", "unpacked")
  /\ Stage(b, "part")
  /\ UNCHANGED <<latest, cache, pid, tag, faults, history>>

UnpackRest(b) ==
  /\ Goto(b, "unpacked", "renaming")
  /\ Stage(b, "whole")
  /\ UNCHANGED <<latest, cache, pid, tag, faults, history>>

(* and renamed; a directory that is there already is not replaced, and     *)
(* what was fetched is thrown away. *)
Rename(b) ==
  /\ Goto(b, "renaming", "checking")
  /\ Stage(b, "absent")
  /\ \/ cache' = [cache EXCEPT ![tag[b]] = IF @ # "absent" THEN @
                    ELSE IF staging[Mine(b)] = "whole" THEN "whole" ELSE "bad"]
        /\ UNCHANGED faults
     \/ Fault /\ UNCHANGED cache
  /\ UNCHANGED <<latest, pid, tag, history>>

(* main wants a lib/ and verify_libraries one that matches its MANIFEST. *)
VerifyLibraries(b) ==
  /\ Goto(b, "checking", "idle")
  /\ cache[tag[b]] = "whole"
  /\ linked' = IF tag[b] > linked THEN tag[b] ELSE linked
  /\ UNCHANGED <<latest, cache, staging, pid, tag, faults, rotten, floor>>

Mismatch(b) ==
  /\ Goto(b, "checking", "failed")
  /\ cache[tag[b]] # "whole"
  /\ UNCHANGED <<latest, cache, staging, pid, tag, faults, history>>

(* A build is killed, or a program it runs fails, and everything stays as  *)
(* it is. *)
Kill(b) ==
  /\ pc[b] \notin Ended
  /\ pc' = [pc EXCEPT ![b] = "dead"]
  /\ Fault
  /\ UNCHANGED <<latest, cache, staging, pid, tag, history>>

-----------------------------------------------------------------------------
(* What happens around the builds: a release is published, *)
Publish ==
  /\ latest < MaxTag
  /\ latest' = latest + 1
  /\ UNCHANGED <<cache, staging, process, faults, history>>

(* a file of the cache is damaged, *)
Rot(t) ==
  /\ cache[t] = "whole"
  /\ Fault
  /\ cache' = [cache EXCEPT ![t] = "bad"]
  /\ rotten' = rotten \cup {t}
  /\ UNCHANGED <<latest, staging, process, linked, floor>>

(* and the user deletes the directory of a damaged one, as the message of  *)
(* verify_libraries says. *)
Delete(t) ==
  /\ cache[t] = "bad"
  /\ cache' = [cache EXCEPT ![t] = "going"]
  /\ linked' = NoTag /\ floor' = [b \in Build |-> NoTag]
  /\ UNCHANGED <<latest, staging, process, faults, rotten>>

Deleted(t) ==
  /\ cache[t] = "going"
  /\ cache' = [cache EXCEPT ![t] = "absent"]
  /\ rotten' = rotten \ {t}
  /\ UNCHANGED <<latest, staging, process, faults, linked, floor>>

-----------------------------------------------------------------------------
Fetch(b)   == \/ Clean(b) \/ Download(b) \/ VerifyDownload(b)
              \/ Unpack(b) \/ UnpackRest(b) \/ Rename(b)
Resolve(b) == LatestReleaseTag(b) \/ Cached(b) \/ NotCached(b)
Conclude(b) == VerifyLibraries(b) \/ Mismatch(b)
Advance(b) == (\E p \in Pid : Start(b, p)) \/ Resolve(b) \/ Fetch(b) \/ Conclude(b)

Next == \/ \E b \in Build : \/ Advance(b) \/ OfflineCache(b)
                            \/ NothingCached(b) \/ Kill(b)
        \/ Publish
        \/ \E t \in Tag : Rot(t) \/ Delete(t) \/ Deleted(t)

(* Builds run, and are run again; the user deletes what is damaged. *)
Fairness == /\ \A b \in Build : WF_vars(Advance(b))
            /\ \A t \in Tag : WF_vars(Delete(t) \/ Deleted(t))

Spec == Init /\ [][Next]_vars /\ Fairness

-----------------------------------------------------------------------------
(* No build puts anything into the cache but a whole release: not when it  *)
(* is killed, when its download is cut short, when it loses a race, or     *)
(* when it finds what an earlier process of its id left behind.            *)
CacheIsWhole == \A t \in Tag : cache[t] = "bad" => t \in rotten

(* A build that cannot ask does not go back to an older release than a     *)
(* build before it ended with, unless something was deleted since.         *)
NeverBackwards == \A b \in Build : pc[b] = "checking" => tag[b] >= floor[b]

(* Whatever kills, torn downloads, silences and rot there were, and        *)
(* whatever they left behind: once they stop, builds stop failing.         *)
Recovers == <>[](\A b \in Build : pc[b] # "failed")
=============================================================================
