-------------------------- MODULE MC_SortStability --------------------------
(* The registry with thirteen expectations on one route, all unlimited and *)
(* without TTL, accepting the one payload: enough matches for sort.Slice   *)
(* to leave insertion sort for pdqsort, whose presorted check must keep    *)
(* the creation order of equal priorities.                                 *)
EXTENDS ExpectationsService

MCBodies == {"b1"}
MCComparators == {{"b1"}}

\* Only unlimited expectations are created in this scenario.
UnlimitedOnly ==
    \A i \in DOMAIN expectations : expectations[i].times.unlimited
=============================================================================
