------------------------------ MODULE Session -------------------------------
(***************************************************************************)
(* The programs that read one session file, each with a book of its own:   *)
(* the strategy with its simulator, the feature exporter and the           *)
(* microstructure exporter.  What one of them says is meant to be compared *)
(* with what another says of the same messages.                            *)
(***************************************************************************)
EXTENDS Strategy, MicroExport

sessionVars == <<feedVars, simVars, exportVars, strategyVars, microVars>>

SessionInit ==
  /\ FeedInit /\ ExportInit /\ StrategyInit /\ MicroInit
  /\ rule4 \in BOOLEAN /\ sim = NewSimulator

SessionMessage(m, ts) ==
  /\ Delivered(m, ts)
  /\ StrategyMessage(m, ts)
  /\ ExportMessage(m, ts)
  /\ MicroMessage(m, ts)
  /\ UNCHANGED rule4

SessionNext == \E m \in LegalMessages, d \in Delays : SessionMessage(m, now + d)

SessionSpec == SessionInit /\ [][SessionNext]_sessionVars

----------------------------------------------------------------------------
(* What the programs say of one another.                                   *)

\* The two programs cut the session into the same windows, and what the
\* strategy quotes on is what the exporter writes as the window's feature: it
\* quotes exactly where a window is kept and its queue imbalance has a sign.
SameWindow(k, x) ==
  /\ k.prev = x.prev /\ k.updates = x.win.updates /\ k.halted = x.halted
  /\ k.updates > 0 => k.win_start = x.win.start
  /\ k.win_halted = x.win.halted
QuotesFollowTheFeatures ==
  \A l \in Locates : LET k == maker[l]
                         x == exporter.sym[l]
                     IN
    /\ SameWindow(k, x)
    /\ ~lag1 => (k.quote.open <=> x.pending.have /\ x.pending.features.queue[1] # 0)
    /\ ~lag1 /\ k.quote.open => (k.quote.side = "B" <=> x.pending.features.queue[1] > 0)
=============================================================================
