---------------------------- MODULE MCDifficulty ----------------------------
(* Instances of Difficulty for TLC: hex digits of base 2, bytes of base 4. *)
EXTENDS Difficulty

MCGenesisBits == <<5, 15>>
MCEasyBits == <<6, 31>>
(* Power is exponentiation.                                                *)
ASSUME \A b \in 1..5, n \in 0..8 : Power(b, n) = b ^ n

MCPace == {-1, 2, 8, 200}
=============================================================================
