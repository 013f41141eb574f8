---------------------------- MODULE MCFindHooks ----------------------------
(* Instances of FindHooks for TLC.                                         *)
EXTENDS FindHooks, TLC

CONSTANTS t1, t2, h1, h2,
          work, temp,           \* a directory to look into, and a filtered one
          dot, tmp, doc, bak    \* ".", and three file names

ListingDef == work :> <<dot, tmp, doc, bak>> @@ temp :> <<tmp, bak>>

(* All of temp is filtered; tmp is filtered everywhere, bak in temp alone. *)
FilteredDef == {<<work, tmp>>, <<temp, tmp>>, <<temp, bak>>}

=============================================================================
