----------------------------- MODULE MCExchanges -----------------------------
(***************************************************************************)
(* Three exchanges of requests that share nothing the model keeps: a file  *)
(* sent to the server and fetched from it, the drive devices share, and    *)
(* the assistant with its drafts.  Each behaviour follows one of them,     *)
(* [exchange], and leaves the others where they began, where none of the   *)
(* steps they are owed can be taken.                                       *)
(***************************************************************************)
EXTENDS FileTransfer, FileDrive, Assistant

VARIABLE exchange

exchangesVars == <<exchange, vars, driveVars, assistantVars>>

ExchangesInit ==
    /\ exchange \in {"transfer", "drive", "assistant"}
    /\ exchange # "drive" => folder = CHOOSE f \in [Shared -> Bytes] : TRUE
    /\ Init /\ DriveInit /\ AssistantInit

ExchangesNext ==
    /\ UNCHANGED exchange
    /\ IF exchange = "transfer" THEN Next ELSE UNCHANGED vars
    /\ IF exchange = "drive" THEN DriveNext ELSE UNCHANGED driveVars
    /\ IF exchange = "assistant" THEN AssistantNext ELSE UNCHANGED assistantVars

ExchangesSpec ==
    /\ ExchangesInit /\ [][ExchangesNext]_exchangesVars
    /\ TransferFairness /\ DriveFairness /\ AssistantFairness
=============================================================================
