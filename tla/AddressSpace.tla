---------------------------- MODULE AddressSpace -----------------------------
(***************************************************************************)
(* What paging promises: every page is mapped to something or not mapped.  *)
(* A page is mapped only if it was not, to what was asked for, and a call  *)
(* that fails changes nothing.  Tables do not appear.                      *)
(***************************************************************************)
CONSTANTS Page, Target, Unmapped, Nothing

VARIABLES
    space,      \* what each page is mapped to
    asked,      \* the mapping being asked for, or Nothing
    rc          \* what the last call returned

avars == <<space, asked, rc>>

AInit ==
    /\ space = [v \in Page |-> Unmapped]
    /\ asked = Nothing
    /\ rc = "OK"

OnlyPage(v) == \A u \in Page \ {v} : space'[u] = space[u]

AAsk ==
    /\ asked = Nothing
    /\ asked' \in [page : Page, target : Target]
    /\ UNCHANGED <<space, rc>>

(* The page asked for is mapped, or refused as mapped only if it is.       *)
AMap(v) ==
    /\ asked # Nothing /\ v = asked.page /\ asked' = Nothing
    /\ \/ /\ rc' = "OK"
          /\ space[v] = Unmapped /\ space'[v] = asked.target /\ OnlyPage(v)
       \/ rc' = "EXISTS" /\ space[v] # Unmapped /\ space' = space

(* A page is unmapped, or refused as not mapped only if it is not.         *)
AUnmap(v) ==
    /\ asked = Nothing /\ asked' = Nothing
    /\ \/ rc' = "OK" /\ space[v] # Unmapped /\ space'[v] = Unmapped /\ OnlyPage(v)
       \/ rc' = "NOT_FOUND" /\ space[v] = Unmapped /\ space' = space

AError == rc' \in {"INVAL", "NOMEM"} /\ space' = space /\ asked' = Nothing

ANext == AAsk \/ AError \/ \E v \in Page : AMap(v) \/ AUnmap(v)

ASpec == AInit /\ [][ANext]_avars
=============================================================================
