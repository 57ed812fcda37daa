----------------------------- MODULE AuditTrail -----------------------------
(***************************************************************************)
(* What the audit ledger promises, without threads, retries or a chain:    *)
(* entries are only added, each after one that is there already, and never *)
(* twice; an entry is published at most once and for good; and the trail   *)
(* calls an entry confirmed, for good, only after it has been published.   *)
(***************************************************************************)
EXTENDS Naturals, Sequences

CONSTANT Root               \* what the first entry comes after

VARIABLES
    trail,                  \* the entries, with the digests prev and hash
    published,              \* the entries that the public record holds
    confirmed               \* the entries marked as published

trailVars == <<trail, published, confirmed>>

TrailInit == trail = <<>> /\ published = {} /\ confirmed = {}

Record ==
    /\ Len(trail') = Len(trail) + 1
    /\ LET entry == trail'[Len(trail) + 1]
       IN  /\ trail' = Append(trail, entry)
           /\ entry.prev = Root \/ \E i \in DOMAIN trail : trail[i].hash = entry.prev
           /\ \A i \in DOMAIN trail : trail[i].hash # entry.hash
    /\ UNCHANGED <<published, confirmed>>

Publish(i) ==
    /\ i \notin published
    /\ published' = published \cup {i}
    /\ UNCHANGED <<trail, confirmed>>

Confirm(i) ==
    /\ i \in published \ confirmed
    /\ confirmed' = confirmed \cup {i}
    /\ UNCHANGED <<trail, published>>

TrailNext == Record \/ \E i \in DOMAIN trail : Publish(i) \/ Confirm(i)

TrailSpec == TrailInit /\ [][TrailNext]_trailVars
=============================================================================
