----------------------------- MODULE PruneInfo -----------------------------
(***************************************************************************)
(* Which snapshots of a group prune keeps: src/backup/prune.rs.            *)
(*                                                                         *)
(* Snapshots are their backup times.  A retention option has a number and  *)
(* maps a backup time to a period (strftime_local of hour, day, ISO week,  *)
(* month, year; the time itself for keep-last).  No option and the number  *)
(* zero are the same thing: mark_selections then leaves at its first turn. *)
(***************************************************************************)
EXTENDS Integers, FiniteSets, Sequences

CONSTANTS Snapshots,  \* backup times that may occur
          Options,    \* retention options in the order they are processed
          Period      \* option, backup time -> period

ASSUME PruneAssumption ==
  /\ Snapshots \subseteq Nat
  /\ DOMAIN Period = {Options[i] : i \in 1 .. Len(Options)}
  /\ \A o \in DOMAIN Period : DOMAIN Period[o] = Snapshots

-----------------------------------------------------------------------------
(* remove_incomplete_snapshots: only the very newest snapshot is kept when *)
(* it is unfinished.                                                       *)
(* Mutant: whether a snapshot has a manifest is not looked at.             *)
Unfinished_Never(L, F, s) == FALSE

Unfinished(L, F, s) == s \in L \ F

IncompleteMark(L, F, s) ==
  IF ~Unfinished(L, F, s) THEN "none"
  ELSE IF \A t \in L : t <= s THEN "keepPartial" ELSE "remove"

(* mark_selections.  Candidates are looked at from the newest to the       *)
(* oldest.  Each is the first of its period, and kept, or a further one,   *)
(* and removed; the loop ends at the first that would be one period too    *)
(* many, and what is older stays unmarked.                                 *)
Included(L, m, sel) == {sel[s] : s \in {t \in L : m[t] = "keep"}}
Candidates(L, m, sel) == {s \in L : m[s] = "none" /\ sel[s] \notin Included(L, m, sel)}
PeriodsBefore(C, sel, s) == {sel[t] : t \in {u \in C : u > s}}

(* Mutants: one too many; every candidate counts, not every period.        *)
Ends_OneMore(C, sel, n, s) ==
  /\ sel[s] \notin PeriodsBefore(C, sel, s)
  /\ Cardinality(PeriodsBefore(C, sel, s)) > n

Ends(C, sel, n, s) ==
  /\ sel[s] \notin PeriodsBefore(C, sel, s)
  /\ Cardinality(PeriodsBefore(C, sel, s)) >= n

Visited(C, sel, n) == {s \in C : \A t \in C : t >= s => ~Ends(C, sel, n, t)}

MarkSelections(L, m, n, sel) ==
  LET C == Candidates(L, m, sel)
  IN [s \in Snapshots |->
        IF s \notin Visited(C, sel, n) THEN m[s]
        ELSE IF sel[s] \notin PeriodsBefore(C, sel, s) THEN "keep" ELSE "remove"]

(* keeps_something                                                         *)
KeepsSomething(k) == \E o \in DOMAIN k : k[o] > 0

(* What compute_prune_info returns for a list L of which F is finished.    *)
MarksAfter(L, F, k) ==
  LET m[i \in 0 .. Len(Options)] ==
        IF i = 0 THEN [s \in Snapshots |-> IncompleteMark(L, F, s)]
        ELSE MarkSelections(L, m[i - 1], k[Options[i]], Period[Options[i]])
  IN m[Len(Options)]
Kept(L, m) == {s \in L : m[s] \in {"keep", "keepPartial"}}
ComputePruneInfo(L, F, k) == Kept(L, MarksAfter(L, F, k))
=============================================================================
