------------------------ MODULE MCConversationScenes ------------------------
(* An instance of Conversations in two scenes.                             *)
EXTENDS MCConversations

VARIABLE scene   \* what this behaviour is about

\* Two handlers, or one together with agent changes by the routes and sockets.
Crowd == (pending = {} /\ joined = {}) \/ \E t \in Task : At(t, "free")

\* Everything, faults included, on a chain of two.
Faulty ==
  /\ scene = "faults"
  /\ ListenerNext
  /\ HasIndex(MaxIndex - 1)' \/ UNCHANGED <<task, conv>>
  /\ Crowd'

\* Handlers alone, on a longer chain: none fails and nothing closes the ticket.
Racing ==
  /\ scene = "racing"
  /\ \/ \E e \in Raised \ {"closed"} : Raise(e)
     \/ \E t \in Task : ListenerStep(t)

ScenesNext == (Faulty \/ Racing) /\ UNCHANGED scene

ScenesInit == ConvInit /\ BusInit /\ scene \in {"faults", "racing"}

ScenesSpec == ScenesInit /\ [][ScenesNext]_<<convSpecVars, scene>>

Symmetry == Permutations(Task) \union Permutations(Agent) \union Permutations(Message)

\* ChainSettled for handlers that race and do not fail, while nothing else saves
\* the conversations.
RacingSettles == scene = "racing" => ChainSettled
=============================================================================
