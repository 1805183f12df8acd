---------------------------- MODULE MCFlowScenes ----------------------------
(* An instance of SupportFlow in which things overlap, in two scenes.      *)
EXTENDS MCSupportFlow

VARIABLE scene   \* what this behaviour is about

InFlight == {r \in Request : request[r].pc # "idle"}

Handling == {t \in Task : ~At(t, "free")}

\* Requests overlap; of the handlers it matters only that they end.
RequestsNext ==
  /\ scene = "requests"
  /\ DeskStep \/ \E t \in Task : FlowHandlerFails(t)
  /\ Cardinality(Handling') <= 1

\* One request after another overlaps with the handlers of the ones before.
HandlersOverlap ==
  /\ scene = "handlers"
  /\ FlowNext
  /\ Cardinality(InFlight') <= 1

ScenesSpec ==
  /\ FlowInit /\ scene \in {"requests", "handlers"}
  /\ [][(RequestsNext \/ HandlersOverlap) /\ UNCHANGED scene]_<<flowVars, scene>>

Symmetry == Permutations(Task) \union Permutations(Request)
=============================================================================
