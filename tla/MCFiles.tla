------------------------------- MODULE MCFiles ------------------------------
(* The traffic of the instances: the files of a chat and the workers, and  *)
(* avatars that are set, replaced, cleared and purged.                     *)
EXTENDS Files

ChatTraffic ==
  [contexts |-> {"live_chat_message"},
   ops |-> {"confirm", "delete", "cleanup", "retention", "purge"}]

AvatarTraffic ==
  [contexts |-> {"user_avatar"},
   ops |-> {"set_avatar", "clear_avatar", "delete", "cleanup", "purge"}]

MCMixes == {ChatTraffic, AvatarTraffic}
=============================================================================
