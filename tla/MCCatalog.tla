------------------------------- MODULE MCCatalog -------------------------------
(* Instances of Catalog for TLC: a campaign with a character, two episodes *)
(* and a scene, whose line is spoken, silent or still to be written, and   *)
(* no catalog at all.                                                      *)
EXTENDS Catalog, TLC

Filled(line, speaks) ==
  [owner |-> [k \in Keys |->
      CASE k \in Campaigns -> Top
        [] k \in Characters \cup Episodes -> CHOOSE x \in Campaigns : TRUE
        [] k \in Scenes -> CHOOSE x \in Episodes : TRUE
        [] k \in Lines -> line
        [] k \in Beats -> Unborn],
   voice |-> [l \in Lines |-> speaks]]
Empty == [owner |-> [k \in Keys |-> Unborn], voice |-> [l \in Lines |-> Null]]

MCCatalogs ==
  {f \in {Filled(line, v) : line \in Scenes \cup {Unborn}, v \in LineVoices} : Consistent(f.owner, f.voice)}
    \cup {Empty}

Symmetry == Permutations(Requests)

===============================================================================
