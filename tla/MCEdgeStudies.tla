--------------------------- MODULE MCEdgeStudies ---------------------------
EXTENDS EdgeStudiesProperties, ScannerPlans
MCSearches == {Scanner, ScannerV2, Orthogonal, EventDriven, EventDrivenV2, Premium, Metrics, LeadLag,
               RegimeSearch, ExtremeShocks, RoundThree}
MCSound == MCSearches \cup
           {Momentum, MomentumArchived, MomentumSegments, Systematic, Sideways,
            Fusion, FusionV2, UnderreactionOos, DeleveragingOos, WinRateAudit,
            FlowGate, Exhaustion, FrozenUntouched, TradingView, BreakoutRetest, PublicLab,
            IntradayValidation} \cup EvReplays
\* the studies whose proof has been read by what chose the rule
MCPrecision == {Precision}
MCLeaky == {Precision, UltraPrecision, Confirmation, RetestEntry, EvCandidate, FrozenOos, FrozenMultiyear,
            IntradayBarrier, VectorDiscovery, RawFlow, RawMetrics, TrueBook, TrueBookV2, TrueBookV3, DepthRound}
MCJoat == {BastionJoat}     \* two trades may share a bar
\* the studies whose verdicts are sound meet the static conditions, and each of
\* the others fails one
ASSUME SoundPlans == \A p \in MCSound : WellFormed(p) /\ SpacesRows(p) /\ KeepsApart(p)
ASSUME LeakyPlans == \A p \in MCLeaky : WellFormed(p) /\ ~KeepsApart(p)
ASSUME JoatPlan == \A p \in MCJoat : WellFormed(p) /\ ~SpacesRows(p)
=============================================================================
