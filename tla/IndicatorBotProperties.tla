----------------------- MODULE IndicatorBotProperties -----------------------
(* The risk promises of the paper ledger of indicator_bot.py. *)
EXTENDS IndicatorBot

\* What a day may lose is fixed before it is lost: whatever positions were carried
\* over midnight, opened after losses or closed in one run, the day's realised
\* loss stays within max_daily_loss_usdt plus what fills were worse than the stop
\* fill the budget counted with.
DailyLossBound == Loss(ledger) <= MaxDaily + ledger.gap

\* A stop is never loosened while its position is held, in the file as in a run,
\* through crashes and reloads included.
StopsOnlyTighten ==
  [][\A s \in Symbols :
       /\ s \in Held(file) /\ s \in Held(file') =>
            file'.pos[s].stop >= file.pos[s].stop
       /\ step # "idle" /\ step' # "idle" /\ s \in Held(ledger) /\ s \in Held(ledger') =>
            ledger'.pos[s].stop >= ledger.pos[s].stop]_vars

\* No position is held for ever: the hard time stop ends what stop, target and
\* fade did not.
PositionEnds == \A s \in Symbols : (s \in Held(file)) ~> (s \notin Held(file))
=============================================================================
