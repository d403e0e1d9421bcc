----------------------------- MODULE MCPerfTest -----------------------------
(***************************************************************************)
(* Small instances of PerfTest. Two data streams are the least number for  *)
(* which "all", "some" and "the next" stream differ; one stranger is enough*)
(* to hold the listener or to fail a handshake at any moment. The channel  *)
(* capacity, 5 in the code, is given relative to the number of streams.    *)
(***************************************************************************)
EXTENDS PerfTestInv, TLC

CONSTANT s1

NoFaults       == {}
NoStrangers    == {}
OneStranger    == {s1}
ServerCtrlC    == {<<"ctrlc", "server">>}
ClientCrash    == {<<"crash", "client">>}
ServerTrouble  == {<<"ctrlc", "server">>, <<"crash", "client">>}
Trouble        == {<<"ctrlc", "client">>, <<"crash", "client">>, <<"crash", "server">>,
                   <<"reset", "server">>, <<"stall", "server">>, <<"stall", "client">>,
                   <<"cut", "client">>}
=============================================================================
