----------------------------- MODULE MCBotTurns -----------------------------
(* Instances of BotTurns for TLC. *)
EXTENDS BotTurns, TLC

\* The first message is a text, the second asks for a person.
TextThenPerson == [m \in Message |-> IF m = 2 THEN "person" ELSE "text"]
=============================================================================
