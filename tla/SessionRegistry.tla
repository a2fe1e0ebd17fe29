-------------------------- MODULE SessionRegistry --------------------------
(***************************************************************************)
(* What the session map of a daemon promises, without saying how: every    *)
(* key has at most one current session, a session becomes current once in  *)
(* its life, and only for a key that has none; from then on it can only be *)
(* given up.  No step exchanges one session for another, so a session that *)
(* is current never loses its place to a second interpreter.               *)
(***************************************************************************)
CONSTANTS
    Keys,       \* routing keys: a label, or language + directory + interpreter
    Sessions,   \* identities of interpreter sessions
    None        \* no session

VARIABLES
    current,    \* the session of each key, or None
    ever        \* the sessions that have been current at some time

registryVars == <<current, ever>>

RegistryInit ==
    /\ current = [k \in Keys |-> None]
    /\ ever = {}

Enter(k, s) ==
    /\ current[k] = None
    /\ s \notin ever
    /\ current' = [current EXCEPT ![k] = s]
    /\ ever' = ever \cup {s}

Leave(ks) ==
    /\ current' = [k \in Keys |-> IF k \in ks THEN None ELSE current[k]]
    /\ UNCHANGED ever

RegistryNext ==
    \/ \E k \in Keys, s \in Sessions : Enter(k, s)
    \/ \E ks \in SUBSET Keys : Leave(ks)

RegistrySpec == RegistryInit /\ [][RegistryNext]_registryVars
=============================================================================
