---------------------------- MODULE SettingsStore ----------------------------
(***************************************************************************)
(* What the file megacmd.cfg promises to the commands: a map of properties *)
(* in which saving one property changes that property alone, in one step,  *)
(* and which a logout, and nothing else, clears except for the persistent  *)
(* properties.  The file is rewritten in place and nobody looks whether    *)
(* that succeeds: only when something fails, which the store counts, may   *)
(* it lose more.                                                           *)
(***************************************************************************)
EXTENDS Naturals

CONSTANTS
    Keys,       \* the properties
    Persistent, \* those that a logout keeps
    Unset       \* the value of each property that the file does not hold

VARIABLES
    store,
    leaving,    \* a client has asked for a logout that is not over
    failures    \* how often the process died or a file could not be read or written

vars == <<store, leaving, failures>>

Init ==
    /\ DOMAIN store = Keys
    /\ ~leaving
    /\ failures = 0

Save(k) ==
    /\ DOMAIN store' = Keys
    /\ \A other \in Keys \ {k} : store'[other] = store[other]
    /\ UNCHANGED failures

Clear ==
    /\ leaving
    /\ store' = [k \in Keys |-> IF k \in Persistent THEN store[k] ELSE Unset[k]]
    /\ UNCHANGED failures

(* A failure, while the property k may be being saved: any of the others   *)
(* may be lost, none takes another value.                                  *)
Lose(k) ==
    /\ failures' = failures + 1
    /\ DOMAIN store' = Keys
    /\ \A other \in Keys \ {k} : store'[other] \in {store[other], Unset[other]}

(* Clients ask for a logout, and it ends, at any time. *)
Next ==
    /\ leaving' \in BOOLEAN
    /\ \/ \E k \in Keys : Save(k) \/ Lose(k)
       \/ Clear
       \/ UNCHANGED <<store, failures>>

Spec == Init /\ [][Next]_vars

=============================================================================
