----------------------------- MODULE MCChannel ------------------------------
(* Model-checking instance of Channel: four instructions of two pieces. *)
EXTENDS Channel

Args == <<"VERSION_1_5_0", "hostname", "disable-copy", "enable-drive", "client-name",
          "console">>
=============================================================================
