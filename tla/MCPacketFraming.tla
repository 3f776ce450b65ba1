--------------------------- MODULE MCPacketFraming ----------------------------
(* Instance of PacketFraming for TLC: a buffer of 14 bytes.                *)
EXTENDS PacketFraming

(* A command that fills the buffer to its last byte, with the prefix as    *)
(* its data; one without data; one a byte too long.                        *)
SmallCommands == {[receiver |-> ECHO, data |-> Magic],
                  [receiver |-> PROC, data |-> <<>>],
                  [receiver |-> EXEC, data |-> <<2, 2, 2, 2, 2>>]}

OnePipePacket == << [receiver |-> <<82, 80, 73, 80>>, data |-> <<0, 70>>] >>
===============================================================================
