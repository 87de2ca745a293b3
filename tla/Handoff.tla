------------------------------- MODULE Handoff -------------------------------
(***************************************************************************)
(* What the collector promises about a reading, without files, ticks or    *)
(* requests (architecture.md, native-ingest-v1.md): once taken it is kept  *)
(* until the receiver has stored it, it is stored once, and it is dropped  *)
(* after that.                                                             *)
(***************************************************************************)
CONSTANT Events

VARIABLES taken, kept, stored

handoffVars == <<taken, kept, stored>>

HandoffTypeOK ==
    /\ taken \in SUBSET Events
    /\ kept \in SUBSET Events
    /\ stored \in SUBSET Events

HandoffInit == taken = {} /\ kept = {} /\ stored = {}

\* A reading is taken at most once, and kept from then on.
Take(e) ==
    /\ e \notin taken
    /\ taken' = taken \cup {e}
    /\ kept' = kept \cup {e}
    /\ UNCHANGED stored

\* The receiver stores new readings, all of them still kept by the collector.
Store(S) ==
    /\ S # {} /\ S \subseteq kept \ stored
    /\ stored' = stored \cup S
    /\ UNCHANGED <<taken, kept>>

\* The collector lets go of a reading that is stored.
Release(e) ==
    /\ e \in kept \cap stored
    /\ kept' = kept \ {e}
    /\ UNCHANGED <<taken, stored>>

HandoffNext ==
    \/ \E e \in Events : Take(e) \/ Release(e)
    \/ \E S \in SUBSET Events : Store(S)

HandoffSpec == HandoffInit /\ [][HandoffNext]_handoffVars
=============================================================================
