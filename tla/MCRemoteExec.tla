----------------------------- MODULE MCRemoteExec -----------------------------
(* RemoteExec for TLC.  A target t and a debugger d that attaches to it;   *)
(* the same program twice, under one name; and a device with no, one and   *)
(* too many processes for the agent's buffer.                              *)
EXTENDS RemoteExec

Target   == [name |-> <<7>>, path |-> <<7, 8>>, args |-> << <<1>>, <<>> >>,
             env |-> << <<9, 9>> >>, search |-> <<>>]
Debugger == [name |-> <<5>>, path |-> <<5>>, args |-> << PidArg, <<1>> >>,
             env |-> <<>>, search |-> <<8>>]

MCScripts == { <<>>, <<Target, Debugger>>, <<Debugger, Debugger>> }
MCTables  == { <<>>, << <<7, 8>> >>, << <<3>>, <<8>> >>, << <<3>>, <<3>>, <<8>> >> }
===============================================================================
