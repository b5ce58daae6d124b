---------------------------- MODULE SourceLedger ----------------------------
(***************************************************************************)
(* What an investigation promises about its `sources`                      *)
(* (core/src/investigation.rs, SourceStatus; docs/ARCHITECTURE.md): a run  *)
(* of a source on an indicator is opened at most once and gets exactly one *)
(* verdict, verdicts are never revised, and the report is handed over only *)
(* when no run is open.  How runs are scheduled, interleaved and cut off   *)
(* is left to the engine, which implements this specification (Engine.tla, *)
(* Ledger).                                                                *)
(***************************************************************************)
EXTENDS Sequences, FiniteSets

CONSTANTS
  Run,       \* a source and the indicator it runs on
  Verdict,   \* the outcome of a run that was started
  Refusal,   \* the outcome of a source that cannot be started
  Unused,    \* the outcome of a source nothing was to be started for
  CutShort   \* the outcome of a run still open at the deadline

VARIABLES
  open,      \* runs that were started and have no verdict
  verdicts,  \* the verdicts of each run
  closed     \* the report was handed over

ledger == <<open, verdicts, closed>>

Init ==
  /\ open = {}
  /\ verdicts = [r \in Run |-> <<>>]
  /\ closed = FALSE

Untouched == {r \in Run \ open : verdicts[r] = <<>>}

Give(runs, v) == [r \in Run |-> IF r \in runs THEN <<v>> ELSE verdicts[r]]

(* A run is started: never twice. *)
Open(r) ==
  /\ ~closed
  /\ r \in Untouched
  /\ open' = open \cup {r}
  /\ UNCHANGED <<verdicts, closed>>

(* A run that is open gets its verdict. *)
Decide(r) ==
  /\ ~closed
  /\ r \in open
  /\ open' = open \ {r}
  /\ \E v \in Verdict : verdicts' = Give({r}, v)
  /\ UNCHANGED closed

(* A source that cannot be started is entered as refused. *)
Refuse(r) ==
  /\ ~closed
  /\ r \in Untouched
  /\ verdicts' = Give({r}, Refusal)
  /\ UNCHANGED <<open, closed>>

(* The deadline ends every open run at once. *)
CutAll ==
  /\ ~closed
  /\ open' = {}
  /\ verdicts' = Give(open, CutShort)
  /\ UNCHANGED closed

(* The report is closed, and may name sources that were not used. *)
Close ==
  /\ ~closed
  /\ open = {}
  /\ closed' = TRUE
  /\ \E runs \in SUBSET Untouched : verdicts' = Give(runs, Unused)
  /\ UNCHANGED open

Next ==
  \/ \E r \in Run : Open(r) \/ Decide(r) \/ Refuse(r)
  \/ CutAll
  \/ Close

Spec == Init /\ [][Next]_ledger
=============================================================================
