---------------------------- MODULE ArchiveStore ----------------------------
(* One file of the archive cache (backtest/binance_archive.py, download):   *)
(* the archive and the checksum beside it are two files, written one after  *)
(* the other, by processes that may overlap or end in between, from a       *)
(* server that may publish the archive again or have no checksum for it.    *)
EXTENDS Naturals

CONSTANTS
  Clients,      \* processes that download the file
  MaxVersions,  \* bound on how often the archive is published
  MaxCrashes    \* bound on processes that end in the middle of a download

ASSUME ArchiveAssumption == MaxVersions \in Nat \ {0} /\ MaxCrashes \in Nat

VARIABLES
  remote, remoteSum,  \* the server: version of the archive, of the checksum (0: 404)
  zip, sum,             \* the cache: content of the file, version its checksum is of (0: none)
  step, hand, temp,           \* a process: where it is, checksum in hand, temporary file
  torn,                     \* the last archive was put while another was, or its process ended then
  crashes

server == <<remote, remoteSum>>
cache == <<zip, sum>>
store == <<remote, remoteSum, zip, sum, step, hand, temp, torn, crashes>>

Versions == 1..MaxVersions
Steps == {"idle", "hit", "verify", "fetch", "stream", "check", "replace", "sum", "served", "failed"}

(* Content of an archive: its version, whole or cut short, and the checksum *)
(* at hand when it was downloaded (0: none).  Version 0 is no file.         *)
Contents == [version : 0..MaxVersions, whole : BOOLEAN, against : 0..MaxVersions]
NoFile == [version |-> 0, whole |-> FALSE, against |-> 0]
Exists(content) == content.version # 0
Matches(content, s) == content.whole /\ content.version = s

StoreInit ==
  /\ remote = 1 /\ remoteSum \in {0, 1}
  /\ zip = NoFile /\ sum = 0
  /\ step = [c \in Clients |-> "idle"]
  /\ hand = [c \in Clients |-> 0]
  /\ temp = [c \in Clients |-> NoFile]
  /\ torn = FALSE /\ crashes = 0

-----------------------------------------------------------------------------
(* The server publishes a new version, and its checksum, one by one.       *)
Publish ==
  /\ remote < MaxVersions
  /\ remote' = remote + 1
  /\ UNCHANGED <<remoteSum, zip, sum, step, hand, temp, torn, crashes>>

PublishSum ==
  /\ remoteSum # remote
  /\ remoteSum' = remote
  /\ UNCHANGED <<remote, zip, sum, step, hand, temp, torn, crashes>>

Goto(c, next) == step' = [step EXCEPT ![c] = next]

(* download() is called: a cached archive is taken unless force is given.  *)
Begin(c, force) ==
  /\ step[c] \in {"idle", "served", "failed"}
  /\ Goto(c, IF Exists(zip) /\ ~force THEN "hit" ELSE "fetch")
  /\ hand' = [hand EXCEPT ![c] = 0]
  /\ temp' = [temp EXCEPT ![c] = NoFile]
  /\ UNCHANGED <<remote, remoteSum, zip, sum, torn, crashes>>

ReadSum(c) ==
  /\ step[c] = "hit"
  /\ Goto(c, IF sum = 0 THEN "served" ELSE "verify")
  /\ hand' = [hand EXCEPT ![c] = sum]
  /\ UNCHANGED <<remote, remoteSum, zip, sum, temp, torn, crashes>>

VerifyHit(c) ==
  /\ step[c] = "verify"
  /\ Goto(c, IF Matches(zip, hand[c]) THEN "served" ELSE "failed")
  /\ UNCHANGED <<remote, remoteSum, zip, sum, hand, temp, torn, crashes>>

(* _optional_checksum: none when the server has none (404).                *)
FetchSum(c) ==
  /\ step[c] = "fetch"
  /\ Goto(c, "stream")
  /\ hand' = [hand EXCEPT ![c] = remoteSum]
  /\ UNCHANGED <<remote, remoteSum, zip, sum, temp, torn, crashes>>

(* _stream_to_file: a connection that ends early leaves a part, silently.  *)
Download(c) ==
  /\ step[c] = "stream"
  /\ Goto(c, "check")
  /\ \E whole \in BOOLEAN :
       temp' = [temp EXCEPT ![c] = [version |-> remote, whole |-> whole, against |-> hand[c]]]
  /\ UNCHANGED <<remote, remoteSum, zip, sum, hand, torn, crashes>>

(* A request that raises ends the download; the temporary file is removed. *)
RequestFails(c) ==
  /\ step[c] \in {"fetch", "stream"}
  /\ Goto(c, "failed")
  /\ UNCHANGED <<remote, remoteSum, zip, sum, hand, temp, torn, crashes>>

(* Mutant of Check: what was downloaded is not compared with the checksum. *)
CheckSkipped(c) ==
  /\ step[c] = "check"
  /\ Goto(c, "replace")
  /\ UNCHANGED <<remote, remoteSum, zip, sum, hand, temp, torn, crashes>>

Check(c) ==
  /\ step[c] = "check"
  /\ Goto(c, IF hand[c] = 0 \/ Matches(temp[c], hand[c]) THEN "replace" ELSE "failed")
  /\ UNCHANGED <<remote, remoteSum, zip, sum, hand, temp, torn, crashes>>

Replace(c) ==
  /\ step[c] = "replace"
  /\ Goto(c, "sum")
  /\ zip' = temp[c]
  /\ torn' = (\E d \in Clients \ {c} : step[d] = "sum")
  /\ UNCHANGED <<remote, remoteSum, sum, hand, temp, crashes>>

(* Mutant of StoreSum: without a new checksum the old one stays.           *)
StoreSumIfAny(c) ==
  /\ step[c] = "sum"
  /\ Goto(c, "served")
  /\ sum' = IF hand[c] = 0 THEN sum ELSE hand[c]
  /\ UNCHANGED <<remote, remoteSum, zip, hand, temp, torn, crashes>>

(* The checksum is written, or the one left from before removed.           *)
StoreSum(c) ==
  /\ step[c] = "sum"
  /\ Goto(c, "served")
  /\ sum' = hand[c]
  /\ UNCHANGED <<remote, remoteSum, zip, hand, temp, torn, crashes>>

(* The process ends; what it had in memory and its temporary file are lost *)
(* to the others, the cache is as it was.                                  *)
Crash(c) ==
  /\ step[c] \notin {"idle", "served", "failed"}
  /\ crashes < MaxCrashes
  /\ crashes' = crashes + 1
  /\ torn' = (torn \/ step[c] = "sum")
  /\ Goto(c, "idle")
  /\ UNCHANGED <<remote, remoteSum, zip, sum, hand, temp>>

ClientStep(c) ==
  \/ \E force \in BOOLEAN : Begin(c, force)
  \/ ReadSum(c) \/ VerifyHit(c) \/ FetchSum(c) \/ Download(c) \/ RequestFails(c)
  \/ Check(c) \/ Replace(c) \/ StoreSum(c) \/ Crash(c)

StoreNext == Publish \/ PublishSum \/ \E c \in Clients : ClientStep(c)
StoreSpec == StoreInit /\ [][StoreNext]_store

-----------------------------------------------------------------------------
StoreTypeOK ==
  /\ remote \in Versions /\ remoteSum \in 0..MaxVersions
  /\ zip \in Contents /\ sum \in 0..MaxVersions
  /\ step \in [Clients -> Steps]
  /\ hand \in [Clients -> 0..MaxVersions] /\ temp \in [Clients -> Contents]
  /\ torn \in BOOLEAN /\ crashes \in 0..MaxCrashes

(* An archive that is not whole is only ever in the cache when there was   *)
(* no checksum to see it by, however downloads overlap and end             *)
(* (binance_archive.py:559-566).                                           *)
CorruptOnlyUnchecked == Exists(zip) /\ ~zip.whole => zip.against = 0

Writing == \E c \in Clients : step[c] = "sum"

(* The cached archive is the one its checksum is of, except while one is   *)
(* being replaced; when the last replacement was torn by a crash or by     *)
(* another, the mismatch lasts until the next one that is not, and every   *)
(* download without force fails until then (binance_archive.py:551-572).   *)
MismatchOnlyWhenTorn == sum # 0 /\ ~Matches(zip, sum) => torn \/ Writing
=============================================================================
