------------------------- MODULE FastEntryProperties -------------------------
(* What the engine's caps are worth when answers are lost or late and it restarts. *)
EXTENDS FastEntry

\* MAX_SIGNALS_PER_DAY bounds what the Worker holds of a day: per process of the day,
\* plus one signal for each answer that was lost (maybe_signal counts only when the
\* answer arrives), plus the one of a try that midnight overtook between
\* reset_day_counter and the POST, which is counted to the day before.
DayCap == posted <= MAX_SIGNALS_PER_DAY * lives + lost + carried /\ carried <= 1
=============================================================================
