---------------------------- MODULE AtomicRecord ----------------------------
(***************************************************************************)
(* What the protected store promises to core::execute (ProtectedStore,     *)
(* Platform::load_record and save_record): a record that is replaced as a  *)
(* whole or not at all, also by a crash or a power loss; that is never     *)
(* replaced when it cannot be read; and that is on the medium once a save  *)
(* has answered Ok.                                                        *)
(***************************************************************************)

CONSTANTS
  Targets,     \* target records
  Missing,     \* RecordState::Missing
  Unreadable   \* a record that load rejects

Values == Targets \cup {Missing, Unreadable}

VARIABLES
  value,       \* what load sees
  durable,     \* what load would see after a power loss
  phase,       \* "idle", "saving", "replaced" or "answered"
  answer       \* "none", "ok", "error" or "unknown" (StoreDurabilityUnknown)

vars == <<value, durable, phase, answer>>

Init ==
  /\ value \in Values /\ durable = value
  /\ phase = "idle" /\ answer = "none"

\* A helper that holds the operation lock is asked to save.
Begin ==
  /\ phase = "idle" /\ phase' = "saving"
  /\ answer' = "none"
  /\ UNCHANGED <<value, durable>>

\* The single step at which the new record becomes visible.
Replace ==
  /\ phase = "saving" /\ value # Unreadable
  /\ value' \in Targets
  /\ phase' = "replaced"
  /\ UNCHANGED <<durable, answer>>

\* Ok means durable.
Succeed ==
  /\ phase = "replaced" /\ phase' = "answered" /\ answer' = "ok"
  /\ durable' = value
  /\ UNCHANGED value

\* The new record is visible and may or may not survive.
Doubt ==
  /\ phase = "replaced" /\ phase' = "answered" /\ answer' = "unknown"
  /\ UNCHANGED <<value, durable>>

\* Any other error means that nothing was replaced.
Refuse ==
  /\ phase = "saving" /\ phase' = "answered" /\ answer' = "error"
  /\ UNCHANGED <<value, durable>>

\* The helper ends, or dies at any point.
Stop ==
  /\ phase # "idle" /\ phase' = "idle" /\ answer' = "none"
  /\ UNCHANGED <<value, durable>>

\* The kernel writes back what it holds.
Flush == durable' = value /\ UNCHANGED <<value, phase, answer>>

\* What was not written back is lost.
PowerLoss ==
  /\ value' = durable
  /\ phase' = "idle" /\ answer' = "none"
  /\ UNCHANGED durable

Next ==
  \/ Begin \/ Replace \/ Succeed \/ Doubt \/ Refuse \/ Stop \/ Flush
  \/ PowerLoss

Spec == Init /\ [][Next]_vars

=============================================================================
