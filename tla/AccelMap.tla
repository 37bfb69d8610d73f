------------------------------ MODULE AccelMap ------------------------------
(***************************************************************************)
(* What ZCSG(hash) promises to its clients: every cached script is stored  *)
(* under its real path, and any other name (a key made of the requested    *)
(* name, the directory, the include path...) is linked to one real path,   *)
(* whose script of the moment it finds.  Names are never forgotten until   *)
(* the cache restarts.                                                     *)
(***************************************************************************)
CONSTANTS Path, Key, Script, NoPath, NoScript

VARIABLES
    file,   \* the script stored for each real path
    link    \* the real path each other name is linked to

Init ==
    /\ file = [p \in Path |-> NoScript]
    /\ link = [k \in Key |-> NoPath]

Store(p, s) ==
    /\ file' = [file EXCEPT ![p] = s]
    /\ UNCHANGED link

Link(k, p) ==
    /\ file[p] # NoScript
    /\ link' = [link EXCEPT ![k] = p]
    /\ UNCHANGED file

Next ==
    \/ \E p \in Path, s \in Script : Store(p, s)
    \/ \E k \in Key, p \in Path : Link(k, p)

Spec == Init /\ [][Next]_<<file, link>>

\* The script that a lookup of a name returns.
Lookup(n) == IF n \in Path THEN file[n]
             ELSE IF link[n] = NoPath THEN NoScript ELSE file[link[n]]
=============================================================================
