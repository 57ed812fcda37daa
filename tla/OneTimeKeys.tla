---------------------------- MODULE OneTimeKeys ----------------------------
(***************************************************************************)
(* What one-time keys promise, without calls, retries or a table: a key    *)
(* gets one owner, for good, and an owner has one key; only one who asks   *)
(* for the owner is handed its key, and only while it is not spent; only   *)
(* one who holds a key spends it, and a spent key is never handed out.     *)
(***************************************************************************)
EXTENDS Naturals, Sequences

CONSTANTS
    Owner, Reader,
    Batch                   \* keys made at a time

VARIABLES
    owner,                  \* owner of key i: {} or the set of one owner
    spent,                  \* the keys that are gone
    wants,                  \* the owner a reader asks for: {} or a set of one
    held                    \* the key a reader was handed, or 0

keyVars == <<owner, spent, wants, held>>

KeysInit ==
    /\ owner = <<>> /\ spent = {}
    /\ wants = [r \in Reader |-> {}] /\ held = [r \in Reader |-> 0]

Make ==
    /\ owner' = [i \in 1..(Len(owner) + Batch) |-> IF i \in DOMAIN owner THEN owner[i] ELSE {}]
    /\ UNCHANGED <<spent, wants, held>>

Take(o, i) ==
    /\ owner[i] = {} /\ i \notin spent
    /\ \A j \in DOMAIN owner : o \notin owner[j]
    /\ owner' = [owner EXCEPT ![i] = {o}]
    /\ UNCHANGED <<spent, wants, held>>

Ask(r, o) ==
    /\ wants[r] = {}
    /\ wants' = [wants EXCEPT ![r] = {o}]
    /\ UNCHANGED <<owner, spent, held>>

HandOut(i, r) ==
    /\ held[r] = 0 /\ i \notin spent
    /\ owner[i] # {} /\ owner[i] = wants[r]
    /\ held' = [held EXCEPT ![r] = i]
    /\ UNCHANGED <<owner, spent, wants>>

Spend(i, r) ==
    /\ held[r] = i /\ i \notin spent
    /\ spent' = spent \cup {i}
    /\ UNCHANGED <<owner, wants, held>>

KeysNext ==
    \/ Make
    \/ \E o \in Owner, i \in DOMAIN owner : Take(o, i)
    \/ \E r \in Reader, o \in Owner : Ask(r, o)
    \/ \E r \in Reader, i \in DOMAIN owner : HandOut(i, r) \/ Spend(i, r)

KeysSpec == KeysInit /\ [][KeysNext]_keyVars
=============================================================================
