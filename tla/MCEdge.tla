------------------------------ MODULE MCEdge ------------------------------
(* Two clients ask for one player by both keys; two slices on two days. *)
EXTENDS Edge

MCRatesOf == [gamemode \in {"competitive", "quickplay"} |->
               {[hero |-> "ana", winrate |-> -1, of |-> gamemode],
                [hero |-> "zed", winrate |-> 2, of |-> gamemode]}]
MCSlices == <<"pc-europe", "pc-asia">>
=============================================================================
