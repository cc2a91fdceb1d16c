------------------------------ MODULE Schedule ------------------------------
(***************************************************************************)
(* JobSchedule.next_run_at(): the next run of a schedule that has a run at *)
(* its anchor and then one per interval (services/scheduler.py).  Times    *)
(* are integers in the resolution of the clock.                            *)
(***************************************************************************)
EXTENDS Integers, TLAPS

NextRunAt(anchor, interval, now) ==
    LET elapsed   == (now - anchor) \div interval
        candidate == anchor + elapsed * interval
    IN  IF now <= anchor THEN anchor
        ELSE IF candidate < now THEN candidate + interval ELSE candidate

\* Run k of the schedule.
RunAt(anchor, interval, k) == anchor + k * interval

\* Of two runs the later one is at least as late.
LEMMA RunsAreOrdered ==
    ASSUME NEW anchor \in Int, NEW interval \in Nat \ {0},
           NEW j \in Int, NEW k \in Int, j <= k
    PROVE  RunAt(anchor, interval, j) <= RunAt(anchor, interval, k)
<1>1. (k - j) * interval >= 0
  OBVIOUS
<1>2. k * interval = j * interval + (k - j) * interval
  OBVIOUS
<1>. QED  BY <1>1, <1>2 DEF RunAt

\* next_run_at() returns a run of the schedule that is not before now, and no
\* run that is not before now comes before it: no run is skipped, at the
\* boundaries of the interval either.
THEOREM NextRunIsNext ==
    ASSUME NEW anchor \in Int, NEW interval \in Nat \ {0}, NEW now \in Int
    PROVE  /\ \E k \in Nat : NextRunAt(anchor, interval, now) = RunAt(anchor, interval, k)
           /\ NextRunAt(anchor, interval, now) >= now
           /\ \A k \in Nat : RunAt(anchor, interval, k) >= now
                 => RunAt(anchor, interval, k) >= NextRunAt(anchor, interval, now)
<1>1. CASE now <= anchor
  <2>1. NextRunAt(anchor, interval, now) = RunAt(anchor, interval, 0)
    BY <1>1 DEF NextRunAt, RunAt
  <2>2. \A k \in Nat : RunAt(anchor, interval, k) >= RunAt(anchor, interval, 0)
    BY RunsAreOrdered
  <2>3. RunAt(anchor, interval, 0) = anchor
    BY DEF RunAt
  <2>. QED  BY <1>1, <2>1, <2>2, <2>3
<1>2. CASE now > anchor
  <2>. DEFINE q == (now - anchor) \div interval
  <2>1. /\ q \in Nat
        /\ q * interval <= now - anchor
        /\ now - anchor < q * interval + interval
    BY <1>2, Z3
  <2>. DEFINE next == IF q * interval = now - anchor THEN q ELSE q + 1
  <2>. HIDE DEF q
  <2>2. /\ next \in Nat
        /\ next - 1 \in Int
        /\ RunAt(anchor, interval, next) >= now
        /\ RunAt(anchor, interval, next - 1) < now
    <3>1. (q + 1) * interval = q * interval + interval
      BY <2>1
    <3>2. (q - 1) * interval = q * interval - interval
      BY <2>1
    <3>. QED  BY <2>1, <3>1, <3>2 DEF RunAt
  <2>3. NextRunAt(anchor, interval, now) = RunAt(anchor, interval, next)
    <3>1. (q + 1) * interval = q * interval + interval
      BY <2>1
    <3>. QED  BY <1>2, <2>1, <3>1 DEF NextRunAt, RunAt, q
  <2>. HIDE DEF next
  <2>4. ASSUME NEW k \in Nat, RunAt(anchor, interval, k) >= now
        PROVE  RunAt(anchor, interval, k) >= RunAt(anchor, interval, next)
    <3>0. /\ RunAt(anchor, interval, k) \in Int
          /\ RunAt(anchor, interval, next - 1) \in Int
      BY <2>2 DEF RunAt
    <3>1. ASSUME k <= next - 1
          PROVE  FALSE
      <4>1. RunAt(anchor, interval, k) <= RunAt(anchor, interval, next - 1)
        BY <2>2, <3>1, RunsAreOrdered
      <4>. QED  BY <2>2, <2>4, <3>0, <4>1
    <3>. QED  BY <2>2, <3>1, RunsAreOrdered
  <2>. QED  BY <2>2, <2>3, <2>4
<1>. QED  BY <1>1, <1>2
=============================================================================
