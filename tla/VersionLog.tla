----------------------------- MODULE VersionLog -----------------------------
(***************************************************************************)
(* What ingestion promises about one Source: a log in which every version  *)
(* key is written at most once and never rewritten, and, for a Source that *)
(* shows one version at a time, a current key that is always in the log.   *)
(* Only the deletion of the whole Source takes anything away.              *)
(***************************************************************************)
CONSTANTS LogKey, LogHash, Unwritten

VARIABLES logged, shown, oneCurrent

LogInit == oneCurrent \in BOOLEAN /\ logged = [k \in LogKey |-> Unwritten] /\ shown = {}

Shown(k) == IF oneCurrent THEN {k} ELSE shown \cup {k}

\* A snapshot is published under a key nobody used.
Write(k, h) == /\ logged[k] = Unwritten
               /\ \A j \in LogKey : logged[j] # h
               /\ logged' = [logged EXCEPT ![k] = h]
               /\ shown' = Shown(k)

\* A retained version is shown again.
Show(k) == /\ logged[k] # Unwritten /\ oneCurrent
           /\ shown' = {k}
           /\ UNCHANGED logged

Wipe == logged' = [k \in LogKey |-> Unwritten] /\ shown' = {}

LogNext == /\ \/ \E k \in LogKey, h \in LogHash : Write(k, h)
              \/ \E k \in LogKey : Show(k)
              \/ Wipe
           /\ UNCHANGED oneCurrent

LogSpec == LogInit /\ [][LogNext]_<<logged, shown, oneCurrent>>
=============================================================================
