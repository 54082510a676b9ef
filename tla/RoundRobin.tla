----------------------------- MODULE RoundRobin -----------------------------
(***************************************************************************)
(* The statistics of the server (src/rrd/): a value that is measured again *)
(* and again is kept in rings of Entries slots, one per time frame and     *)
(* consolidation, in a cache that is saved to a file now and then.  An     *)
(* average is kept as the sum of its values, with the count the code keeps *)
(* beside it; a time frame is a resolution.  The values are gauges; what   *)
(* is derived from a counter is turned into one before it gets here.       *)
(***************************************************************************)
EXTENDS Integers

CONSTANTS Entries,      \* the slots of a ring, RRD_DATA_ENTRIES
          Resolutions,  \* the seconds of a slot, one per time frame
          Measures,     \* the values
          Steps,        \* the seconds between two measurements
          StartTime, EndTime, \* bounds of the clock, the first beyond one turn of every ring
          ClockMayGoBack

ASSUME RrdAssumption ==
  /\ Entries \in Nat \ {0} /\ Resolutions \subseteq Nat \ {0}
  /\ Measures \subseteq Int /\ Steps \subseteq Int
  /\ StartTime \in Nat /\ EndTime \in Nat /\ StartTime <= EndTime
  /\ \A r \in Resolutions : StartTime > Entries * r

VARIABLES rrdClock,
          rrdCache, \* the rings in memory, NoRrd before the first update
          saved,    \* the rings in the file
          measured, \* what was measured: a table with a slot for every r seconds since the epoch
          seenSaved \* what of it the file knows

rrdVars == <<rrdClock, rrdCache, saved, measured, seenSaved>>

Nan == [n |-> 0, sum |-> 0, max |-> 0]
NewRing == [last |-> 0, count |-> 0, data |-> [i \in 0..Entries - 1 |-> Nan]]
NewRrd == [r \in Resolutions |-> NewRing]
NoRrd == [r \in {} |-> NewRing]
Index(t, r) == (t \div r) % Entries

----------------------------------------------------------------------------
(* delete_old: the slots, from the oldest on, that are more than one turn  *)
(* before the new time.                                                    *)
MinTime(t, r) == ((t - Entries * r) \div r + 1) * r
delete_old_None(ring, t, r) == ring
delete_old(ring, t, r) ==
  LET oldest == IF ring.last > Entries * r THEN ring.last - Entries * r ELSE 0
      old == {k \in 1..Entries : \A j \in 1..k : oldest + j * r < MinTime(t, r)}
      gone == {(Index(oldest, r) + k) % Entries : k \in old}
  IN [ring EXCEPT !.data = [i \in DOMAIN @ |-> IF i \in gone THEN Nan ELSE @[i]]]

(* compute_new_value: the value starts a slot or joins the ones of it.     *)
StartsSlot(ring, t, r) ==
  \/ t < ring.last \/ t - ring.last > r     \* the unsigned difference
  \/ Index(t, r) # Index(ring.last, r) \/ ring.data[Index(t, r)] = Nan \/ ring.count = 0
compute_new_value(ring, t, v, r) ==
  LET i == Index(t, r) IN
  IF StartsSlot(ring, t, r)
  THEN [ring EXCEPT !.data[i] = [n |-> 1, sum |-> v, max |-> v], !.count = 1, !.last = t]
  ELSE [ring EXCEPT !.data[i] = [n |-> ring.count + 1, sum |-> @.sum + v, max |-> IF @.max > v THEN @.max ELSE v],
                    !.count = @ + 1, !.last = t]
update(rrd, t, v) == [r \in Resolutions |-> compute_new_value(delete_old(rrd[r], t, r), t, v, r)]

(* extract_data: the slots of one turn up to now, without the ones the     *)
(* ring does not reach.                                                    *)
extract_data(ring, t, r) ==
  LET end == r * (t \div r + 1)
      start == end - r * Entries
      rrdEnd == r * (ring.last \div r)
      rrdStart == rrdEnd - r * Entries
  IN [k \in 0..Entries - 1 |->
       LET s == start + k * r IN IF s < rrdStart \/ s > rrdEnd THEN Nan ELSE ring.data[Index(s, r)]]

----------------------------------------------------------------------------
Elapse == \E d \in Steps : (d < 0 => ClockMayGoBack) /\ rrdClock + d \in StartTime..EndTime /\ rrdClock' = rrdClock + d

\* every measurement counts in the one slot of its time, in every time frame
Nothing == [r \in Resolutions |-> [q \in 0..EndTime |-> Nan]]
Joined(x, v) == [n |-> x.n + 1, sum |-> x.sum + v, max |-> IF x.n > 0 /\ x.max > v THEN x.max ELSE v]
Noted(table, t, v) == [r \in Resolutions |-> [table[r] EXCEPT ![t \div r] = Joined(@, v)]]

(* update_value: the file is read when the value is not in the cache yet,  *)
(* and written when the caller says so.                                    *)
UpdateValue(v, save) ==
  LET old == IF rrdCache # NoRrd THEN rrdCache ELSE IF saved # NoRrd THEN saved ELSE NewRrd
      known == IF rrdCache # NoRrd THEN measured ELSE seenSaved
      new == update(old, rrdClock', v) IN
  /\ Elapse
  /\ rrdCache' = new
  /\ measured' = Noted(known, rrdClock', v)
  /\ IF save THEN saved' = new /\ seenSaved' = measured' ELSE UNCHANGED <<saved, seenSaved>>
Restart == rrdCache # NoRrd /\ rrdCache' = NoRrd /\ measured' = seenSaved /\ UNCHANGED <<rrdClock, saved, seenSaved>>

RrdInit == rrdClock = StartTime /\ rrdCache = NoRrd /\ saved = NoRrd /\ measured = Nothing /\ seenSaved = Nothing
RrdNext == (\E v \in Measures, save \in BOOLEAN : UpdateValue(v, save)) \/ Restart
RrdSpec == RrdInit /\ [][RrdNext]_rrdVars

----------------------------------------------------------------------------
(* What is shown is what was measured: a slot of the last turn shows the   *)
(* values of exactly its own time, none of them lost, and none of an       *)
(* earlier turn of the ring or from before a gap, for every time frame and *)
(* also after a restart (extract_cached_data at or after the last update). *)
Expected(s, r) == IF s \div r \in 0..EndTime THEN measured[r][s \div r] ELSE Nan
ShownWasMeasured ==
  rrdCache # NoRrd => \A r \in Resolutions, late \in 0..3 :
    LET t == rrdClock + late
        shown == extract_data(rrdCache[r], t, r)
        start == r * (t \div r + 1) - r * Entries
    IN \A k \in 0..Entries - 1 : shown[k] = Expected(start + k * r, r)
=============================================================================
