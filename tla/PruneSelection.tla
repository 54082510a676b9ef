--------------------------- MODULE PruneSelection ---------------------------
(***************************************************************************)
(* compute_prune_info of src/backup/prune.rs for every list of snapshots   *)
(* and every choice of retention options, one step per option.             *)
(***************************************************************************)
EXTENDS PruneInfo

CONSTANT MaxKeep   \* bound: the number of an option

ASSUME SelectionAssumption == MaxKeep \in Nat

VARIABLES
  listed,   \* the snapshots of the group
  full,     \* those of them that have a manifest
  wanted,     \* option -> number
  mark,     \* PruneMark of each snapshot, "none" when it has no mark
  step      \* options processed

selVars == <<listed, full, wanted, mark, step>>

-----------------------------------------------------------------------------
SelInit ==
  /\ listed \in SUBSET Snapshots
  /\ full \in SUBSET listed
  /\ wanted \in [DOMAIN Period -> 0 .. MaxKeep]
  /\ mark = [s \in Snapshots |-> IncompleteMark(listed, full, s)]
  /\ step = 0

Select ==
  /\ step < Len(Options)
  /\ step' = step + 1
  /\ mark' = MarkSelections(listed, mark, wanted[Options[step + 1]],
                            Period[Options[step + 1]])
  /\ UNCHANGED <<listed, full, wanted>>

SelNext == Select

SelSpec == SelInit /\ [][SelNext]_selVars

-----------------------------------------------------------------------------
(* Properties.                                                             *)

Done == step = Len(Options)

(* Marks have their type, and stay once they are made.                     *)
SelTypeOK ==
  /\ mark \in [Snapshots -> {"none", "keep", "keepPartial", "remove"}]
  /\ step \in 0 .. Len(Options)
  /\ \A s \in Snapshots : s \notin listed => mark[s] = "none"
  /\ \A s \in listed \ full : mark[s] \in {"keepPartial", "remove"}

(* Whatever the options, as long as one of them keeps something the newest *)
(* finished snapshot is kept.                                              *)
NewestKept ==
  Done /\ KeepsSomething(wanted) /\ full # {} =>
     \E s \in full : mark[s] = "keep" /\ \A t \in full : t <= s

(* With a single option prune keeps the newest snapshot of each of the     *)
(* newest n periods that have one, and nothing else.                       *)
NewestOf(sel) == {s \in full : \A t \in full : sel[t] = sel[s] => t <= s}
NewestN(sel, n) == {s \in NewestOf(sel) :
                      Cardinality({t \in NewestOf(sel) : t > s}) < n}
OneOptionIsNewestN ==
  \A o \in DOMAIN Period :
     Done /\ (\A p \in DOMAIN Period \ {o} : wanted[p] = 0) =>
        {s \in full : mark[s] = "keep"} = NewestN(Period[o], wanted[o])

(* Prune is idempotent: run again on what it has kept, as the job does     *)
(* every day, it removes nothing more.                                     *)
PruneIsIdempotent ==
  Done /\ KeepsSomething(wanted) =>
     LET K == Kept(listed, mark) IN ComputePruneInfo(K, full \cap K, wanted) = K

(* An option keeps at most as many snapshots as its number, and at most    *)
(* one per period: two kept snapshots share a period of an option that     *)
(* kept one of them only when an earlier option kept the other.            *)
AtMostN ==
  [][step' # step =>
     LET new == {s \in listed : mark'[s] = "keep" /\ mark[s] # "keep"}
         sel == Period[Options[step']]
     IN /\ Cardinality(new) <= wanted[Options[step']]
        /\ \A s, t \in new : sel[s] = sel[t] => s = t
        /\ \A s \in new, t \in listed : mark[t] = "keep" => sel[s] # sel[t]]_selVars

(* All of this, for every list of snapshots and all retention options.     *)
SelectionIsRight == [](NewestKept /\ OneOptionIsNewestN /\ PruneIsIdempotent) /\ AtMostN
=============================================================================
