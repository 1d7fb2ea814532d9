--------------------------- MODULE MCTwitchIrcServer ---------------------------
(***************************************************************************)
(* TLC instances of TwitchIrcServer.                                       *)
(***************************************************************************)
EXTENDS TwitchIrcServer, TLC

CONSTANTS forsen, pajlada, plugin

(* Two Twitch channels and one that a plugin made. *)
AllNames == {forsen, pajlada, plugin}
PluginNames == {plugin}

(* The Twitch channels are interchangeable. *)
NameSymmetry == Permutations({forsen, pajlada})
=============================================================================
