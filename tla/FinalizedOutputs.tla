-------------------------- MODULE FinalizedOutputs --------------------------
(***************************************************************************)
(* What the L2OutputOracle promises to the portal, with proposals,          *)
(* challenges and roles left out: a log of output proposals that only       *)
(* grows, in which every entry has waited out the finalization period and   *)
(* consecutive entries are one submission interval apart.                   *)
(***************************************************************************)
EXTENDS Integers

CONSTANTS Interval,   \* L2 blocks between two outputs
          Period      \* age at which an output may be relied on

VARIABLES clock, log

logVars == <<clock, log>>

\* The domain of the log is 1..n, every entry is old enough, and the block
\* numbers are equally spaced.
WellFormed(l, t) ==
  \A i \in DOMAIN l :
    /\ i \in Nat \ {0}
    /\ \A j \in 1 .. i : j \in DOMAIN l
    /\ t - l[i].timestamp >= Period
    /\ i > 1 => l[i].l2BlockNumber = l[i - 1].l2BlockNumber + Interval

Init == clock \in Nat /\ DOMAIN log = {}

\* Any number of entries may be appended; none is dropped or rewritten.
Extend ==
  /\ clock' >= clock
  /\ \A i \in DOMAIN log : i \in DOMAIN log' /\ log'[i] = log[i]
  /\ WellFormed(log', clock')

Spec == Init /\ [][Extend]_logVars
=============================================================================
