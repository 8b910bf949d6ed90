---------------------------- MODULE MCLiveRuntime ---------------------------
(* A pool thread or two and the event loop over two sources. The payloads   *)
(* hold a record without a time, one whose local time reads differently     *)
(* later on, one that is turned down and one that breaks the fetch.         *)
(* Beside them the sockets of the live feed, which share nothing with them: *)
(* the initial state chooses one side and only that one moves.              *)
EXTENDS LiveRuntime, WebSocketClients, TLC

CONSTANTS r1, r2, loop, A, s1, s2

VARIABLE side

Raw(use, stamp, zone) ==
    [use |-> use, sign |-> A, stamp |-> stamp, zone |-> zone, odd |-> FALSE,
     rain |-> TRUE]
Undated == Raw("fit", 0, "none")
Local   == Raw("fit", IstOffset, "naive")
Unfit   == Raw("unfit", 0, "none")
Broken  == Raw("broken", 0, "none")
MCRecords == {Undated, Local, Unfit, Broken}
MCPayloads == {<<Unfit, Undated>>, <<Local, Broken>>}
MCThreads == {r1, r2, loop}
MCSigns == {A}
MCSources == <<IMD, NWP>>
MCAnswers == {"payload", "denied", "limited"}
MCTicks == {IstOffset}
MCSymmetry == Permutations({r1, r2}) \cup Permutations({s1, s2})

LiveInit == side \in {"runtime", "sockets"} /\ Init /\ ClientsInit
LiveNext ==
    /\ side' = side
    /\ \/ side = "runtime" /\ Next /\ UNCHANGED clientVars
       \/ side = "sockets" /\ ClientsNext /\ UNCHANGED vars
LiveSpec == LiveInit /\ [][LiveNext]_<<side, vars, clientVars>>
=============================================================================
