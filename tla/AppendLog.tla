------------------------------ MODULE AppendLog ------------------------------
(* What the append-only file promises while the system's writes are whole:  *)
(* the file always holds a beginning of the log, it only grows, and a       *)
(* restart continues from what the file holds.                              *)
EXTENDS Sequences, SequencesExt

VARIABLES log,    \* everything handed to the log, in order
          disk,   \* what has reached the file
          intact  \* no write has been lost or torn

Init == log = << >> /\ disk = << >> /\ intact = TRUE

Append_ == IsPrefix(log, log') /\ disk' = disk

Persist == IsPrefix(disk, disk') /\ IsPrefix(disk', log) /\ log' = log

Restart == disk' = disk /\ log' = disk

Next == intact' => intact /\ (Append_ \/ Persist \/ Restart)

Spec == Init /\ [][Next]_<<log, disk, intact>>
=============================================================================
