---------------------------- MODULE MC_TurnTrace ----------------------------
EXTENDS TurnTrace

CONSTANTS writer, critic, local, remote

(* Two agents side by side; one agent on two events.                        *)
MCWorks == {<<writer, critic>>, <<writer, writer>>}

MCSinks == <<remote, local>>
=============================================================================
