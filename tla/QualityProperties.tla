-------------------------- MODULE QualityProperties --------------------------
(***************************************************************************)
(* What the durable artifact store promises its readers and its quotas.    *)
(***************************************************************************)
EXTENDS QualityStore

(* A descriptor is a commitment: its blob is whole, any bytes past it are  *)
(* accounted for by a marker, so that no reconciliation will ever reject   *)
(* it for its size, and only a clock anomaly can have moved its blob into  *)
(* quarantine (publish_descriptor, quality.rs:1122).                       *)
CommittedIsWhole ==
  \A m \in descriptors :
    /\ blob[m] = "none" => jailed[m] = "clock"
    /\ blob[m] = "long" => m \in markers

(* What a publisher was told is stored can be read until it expires by     *)
(* the most advanced clock of any process, or is in quarantine because a   *)
(* clock was set back.  Crashes, other sessions, pruning and recovery      *)
(* never take it away ("Nothing live or unexpired is ever evicted",        *)
(* quality.rs:31).                                                         *)
Readable(m) == m \in descriptors /\ blob[m] # "none"
AnnouncedStays ==
  \A m \in Members :
    told[m] = "stored" =>
      \/ Readable(m)
      \/ jailed[m] = "clock" /\ backs > 0
      \/ latest >= Expires(m[1])

(* Claims and published bytes together never exceed the caps, whatever     *)
(* clocks the sessions judge by (accounting, quality.rs:486).              *)
WithinCaps ==
  /\ Charged(Jobs) <= Cap
  /\ \A j \in Jobs : Charged({k \in Jobs : Owner[k] = Owner[j]}) <= OwnerCap

-----------------------------------------------------------------------------
(* The module comment: "accounting charges only what is still on disk and  *)
(* on-disk bytes cannot outlive the declared caps within a session"        *)
(* (quality.rs:26).                                                        *)
OnDisk == Cardinality({m \in Members : blob[m] # "none"}) + Cardinality(parts)
DiskWithinCaps == OnDisk <= Cap
===============================================================================
