--------------------------- MODULE MCPublicWarning ---------------------------
(* One run and one citizen. *)
EXTENDS PublicWarning

OneCitizen == <<"CUTTACK">>
RedEvents == [alert : Runs, severity : {"RED"}, status : {"WATCH"}]
TheArea == {{1}}
=============================================================================
