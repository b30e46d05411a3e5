------------------------------- MODULE IpcRaces -------------------------------
(* What do_ipc() keeps as long as two races it does not exclude have not      *)
(* happened: Ipc with a history variable that tells whether they have.  What  *)
(* they break is checked of Ipc alone.                                        *)
EXTENDS Ipc

\* history: a receiver has gone on with a sender that has left its list, or the
\* abort of a remote sender has crossed that by its dying receiver
VARIABLE raced

raceVars == <<vars, raced>>

RaceInit == Init /\ raced = FALSE

RaceNext == /\ Next
            /\ raced' = (raced \/ ~ PickedNeverGone' \/ ~ AbortsApart')

RaceSpec == RaceInit /\ [][RaceNext]_raceVars

FairRaceSpec == RaceSpec /\ Fairness

-----------------------------------------------------------------------------
(* A reply capability leads to a thread that waits for this very reply, as    *)
(* long as no receiver has gone on with a sender that has left its list and   *)
(* no two aborts have crossed (set_caller(), reset_caller(), across direct    *)
(* and remote transfers, timeouts, cancels and the death of a partner).       *)
CapLiveUntilRace == ~ raced => ReplyCapIsLive

(* Up to the first of these races do_ipc() implements synchronous IPC:        *)
(* messages are handed over between two calls that want each other, once per  *)
(* phase, and each caller is told what has happened.  No other race of        *)
(* timeouts, cancels, DRQs and deaths with a transfer breaks it.              *)
ImplementsUntilRace == R!Init /\ [][~ raced' => R!Next]_(R!vars)
=============================================================================
