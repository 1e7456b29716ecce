------------------------------- MODULE Tables --------------------------------
(***************************************************************************)
(* Tables of tools: functions from names, written in parts.                *)
(***************************************************************************)

\* The parts put together; no name is in two of them.
WholeTable(parts) ==
    [t \in UNION {DOMAIN part : part \in parts} |->
        (CHOOSE part \in parts : t \in DOMAIN part)[t]]
=============================================================================
