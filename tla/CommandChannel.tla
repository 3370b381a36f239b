--------------------------- MODULE CommandChannel ---------------------------
(***************************************************************************)
(* What hci_send_req (hci_tl.c:151) promises to its callers: commands to   *)
(* the second core are executed one at a time, each is answered before the *)
(* call returns, and the next one is sent only after that.                 *)
(***************************************************************************)
CONSTANTS Cmd,          (* a command, with the caller it belongs to         *)
          NoCmd         (* no command was ever sent                         *)

VARIABLES chan,         (* "idle", "sent" or "answered"                     *)
          last          (* the command the channel is or was last used for  *)

Init == chan = "idle" /\ last = NoCmd

Send == chan = "idle" /\ chan' = "sent" /\ last' \in Cmd

Answer == chan = "sent" /\ chan' = "answered" /\ UNCHANGED last

Return == chan = "answered" /\ chan' = "idle" /\ UNCHANGED last

Next == Send \/ Answer \/ Return

Spec == Init /\ [][Next]_<<chan, last>>

=============================================================================
