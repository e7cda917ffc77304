-------------------------- MODULE ClientChannelsMC --------------------------
(* Clients, channels and passwords are interchangeable.                     *)
EXTENDS ClientChannels, TLC

Alike == Permutations(Client) \cup Permutations(Channel) \cup Permutations(Password)

=============================================================================
