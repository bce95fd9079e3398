----------------------------- MODULE FileStamps -----------------------------
(***************************************************************************)
(* Files under edit, and the fingerprints src/cache.rs takes of them.  A   *)
(* version stands for the bytes of a file, all of one size, and is never   *)
(* written twice; 0 stands for a file that does not exist.  Timestamps     *)
(* come from the clock of the filesystem in steps of Granularity; a copy   *)
(* may keep the old mtime, but no user sets the ctime.                     *)
(***************************************************************************)
EXTENDS Integers

CONSTANTS
  Granularity,  \* of timestamps, in units of the clock
  Window        \* RACY_MTIME_WINDOW, in the same units

ASSUME GranularityAssumption == Granularity \in Nat \ {0}
ASSUME WindowAssumption == Window \in Nat /\ Granularity <= Window

(* The timestamp the filesystem gives a write at time t.                   *)
Stamp(t) == t - (t % Granularity)

Missing == [version |-> 0, mtime |-> 0, ctime |-> 0]

Exists(file) == file.version # 0

(* An edit in place, and a copy that keeps the mtime (cp -p, rsync, tar).  *)
Written(version, t)      == [version |-> version, mtime |-> Stamp(t), ctime |-> Stamp(t)]
Copied(version, file, t) == [version |-> version, mtime |-> file.mtime, ctime |-> Stamp(t)]

(* is_racy_mtime: a stamp that recent may cover a later write as well.  A  *)
(* stamp in the future of `now` is racy (saturating_sub).                  *)
IsRacy(stamp, now) == now - stamp < Window

HashFingerprint(file) ==
  [by |-> "hash", mtime |-> file.mtime, ctime |-> 0, version |-> file.version]

StatFingerprint(file) ==
  [by |-> "stat", mtime |-> file.mtime, ctime |-> file.ctime, version |-> 0]

AbsentFingerprint == [by |-> "absent", mtime |-> 0, ctime |-> 0, version |-> 0]

(* Mutant: a backdated mtime passes for settled.                           *)
SettledByMtime(file, now) == ~ IsRacy(file.mtime, now)

Settled(file, now) == ~ IsRacy(file.mtime, now) /\ ~ IsRacy(file.ctime, now)

(* from_absolute_stat_at: the stamps alone where they identify the file.   *)
FingerprintAt(file, now) ==
  IF Settled(file, now) THEN StatFingerprint(file) ELSE HashFingerprint(file)
=============================================================================
