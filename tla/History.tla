----------------------------------- MODULE History -----------------------------------
(*************************************************************************************)
(* The measurement history of internal/store: readings are stored in the finest tier, *)
(* housekeeping rolls every tier up into the next and deletes what is past its        *)
(* retention, and charts ask for the finest tier that will do.                        *)
(*                                                                                    *)
(* Time passes in buckets of the finest tier, 10 s.  A reading is its metric and the  *)
(* bucket it falls in; a row is the set of readings it aggregates, whose average,     *)
(* minimum and maximum nothing here depends on.                                        *)
(*************************************************************************************)
EXTENDS Integers, Sequences, FiniteSetsExt

CONSTANTS Width,   \* buckets of each tier, finest first
          Retain,  \* how long each tier keeps its rows, 0 for ever
          MaxAge,  \* a snapshot older than this is stale
          Points,  \* how many points a chart may ask for
          MaxNow,  \* bound: the last bucket
          MaxGap   \* how long nothing may be stored

Levels  == 1..Len(Width)
Last    == Len(Width)
Metrics == {"unit", "host"}
Times   == 0..MaxNow

Trunc(k, t) == (t \div Width[k]) * Width[k]

(* Every width divides the next, the last tier is kept for ever, and a snapshot is     *)
(* stale before the coarse bucket after its own is over. The others are kept at least  *)
(* until the coarse row they are the newest of has a successor; that takes longer when *)
(* nothing is stored for a while, the box being off or its database full, but Tiers    *)
(* keeps even the finest for two days.                                                 *)
ASSUME HistoryAssumption ==
    /\ Width \in Seq(Nat \ {0}) /\ Len(Width) >= 2 /\ Width[1] = 1
    /\ Retain \in Seq(Nat) /\ Len(Retain) = Len(Width) /\ Retain[Last] = 0
    /\ \A k \in 2..Last : Width[k] > Width[k - 1] /\ Width[k] % Width[k - 1] = 0
    /\ MaxAge \in 1..Width[2]
    /\ MaxNow \in Nat /\ MaxGap \in Nat \ {0} /\ Points \subseteq Nat
    /\ \A k \in 1..Last - 1 :
          Retain[k] >= 2 * Width[k + 1] - 1 + Trunc(k + 1, MaxGap - 1)

VARIABLES
    now,
    rows,  \* rows[k][m][b]: what tier k holds for metric m in the bucket that starts at b
    step,  \* of housekeeping: the statement that is next, 0 when it is not running
    at,    \* its idea of the time
    stored \* history: every reading that was stored

keepVars == <<step, at>>
vars == <<now, rows, keepVars, stored>>

NoRows == [m \in Metrics |-> [b \in Times |-> {}]]

TypeOK ==
    /\ now \in Times
    /\ rows \in [Levels -> [Metrics -> [Times -> SUBSET Times]]]
    /\ step \in 0..Last + Last - 1 /\ at \in Times
    /\ stored \subseteq Metrics \X Times

Init ==
    /\ now = 0 /\ rows = [k \in Levels |-> NoRows] /\ stored = {}
    /\ step = 0 /\ at = 0

Newest(S) == Max({0} \cup S)

Tick ==
    /\ now < MaxNow
    /\ now - Newest({r[2] : r \in stored}) < MaxGap
    /\ now' = now + 1
    /\ UNCHANGED <<rows, keepVars, stored>>

(* Store.Record, one transaction: a second reading in the same bucket replaces the      *)
(* first.  It may fail, and nothing is tried again.  The recorder does this and            *)
(* housekeeping in one loop.                                                            *)
Record(ms, b) ==
    /\ step = 0
    /\ rows' = [rows EXCEPT ![1] = [m \in Metrics |->
                    IF m \in ms THEN [rows[1][m] EXCEPT ![b] = {b}] ELSE rows[1][m]]]
    /\ stored' = stored \cup (ms \X {b})
    /\ UNCHANGED <<now, keepVars>>

(* A snapshot finished at taken and is not stale yet; the host's own readings go with   *)
(* it if there are any.                                                                 *)
RecordSnapshot ==
    \E taken \in Times, host \in SUBSET {"host"} :
        taken \in now - MaxAge .. now /\ Record({"unit"} \cup host, taken)

RecordHost == Record({"host"}, now)

---------------------------------------------------------------------------------------
(* Housekeeping                                                                        *)

NewestIn(tier) == Newest({b \in Times : \E m \in Metrics : tier[m][b] # {}})

(* rollupInto: the newest coarse bucket is redone, the one in progress left alone.     *)
Cutoff(k) == Trunc(k, at)

(* A mutant: the newest coarse bucket counts as done.                                  *)
FineDone(k, m, b) ==
    UNION {rows[k - 1][m][f] : f \in {t \in Times :
        /\ Trunc(k, t) = b
        /\ rows[k] = NoRows \/ t >= NewestIn(rows[k]) + Width[k]
        /\ t < Cutoff(k)}}

(* A mutant: what is redone begins a row late.                                         *)
FineFromNext(k, m, b) ==
    UNION {rows[k - 1][m][f] : f \in {t \in Times :
        /\ Trunc(k, t) = b
        /\ rows[k] = NoRows \/ t > NewestIn(rows[k])
        /\ t < Cutoff(k)}}

Fine(k, m, b) ==
    UNION {rows[k - 1][m][f] : f \in {t \in Times :
        /\ Trunc(k, t) = b
        /\ t >= NewestIn(rows[k]) /\ t < Cutoff(k)}}

RolledInto(k) ==
    IF NewestIn(rows[k]) >= Cutoff(k) THEN rows[k]
    ELSE [m \in Metrics |-> [b \in Times |->
             IF Fine(k, m, b) = {} THEN rows[k][m][b] ELSE Fine(k, m, b)]]

(* Prune, one statement for each tier that is not kept for ever.                       *)
Pruned(k) ==
    [m \in Metrics |-> [b \in Times |-> IF b < at - Retain[k] THEN {} ELSE rows[k][m][b]]]

BeginHousekeep ==
    /\ step = 0
    /\ step' = 2 /\ at' = now
    /\ UNCHANGED <<now, rows, stored>>

Rollup ==
    /\ step \in 2..Last
    /\ rows' = [rows EXCEPT ![step] = RolledInto(step)]
    /\ step' = step + 1
    /\ UNCHANGED <<now, at, stored>>

Prune ==
    /\ step > Last
    /\ LET k == step - Last IN
       /\ rows' = IF Retain[k] = 0 THEN rows ELSE [rows EXCEPT ![k] = Pruned(k)]
       /\ step' = IF k < Last - 1 THEN step + 1 ELSE 0
    /\ at' = IF step' = 0 THEN 0 ELSE at
    /\ UNCHANGED <<now, stored>>

(* An error ends the housekeeping, and so does the power.                              *)
GiveUp ==
    /\ step # 0
    /\ step' = 0 /\ at' = 0
    /\ UNCHANGED <<now, rows, stored>>

Next ==
    \/ Tick \/ RecordSnapshot \/ RecordHost
    \/ BeginHousekeep \/ Rollup \/ Prune \/ GiveUp

Spec == Init /\ [][Next]_vars

---------------------------------------------------------------------------------------
(* Charts: a window that ends now, handleSeries.                                       *)

(* A mutant: how far back a tier reaches is not asked.                                 *)
CoversAnyAge(k, from, points) == (now - from) \div Width[k] <= points

(* chooseTier: far enough back, and few enough points.                                 *)
Covers(k, from, points) ==
    /\ Retain[k] > 0 => now - from <= Retain[k]
    /\ (now - from) \div Width[k] <= points

ChooseTier(from, points) ==
    Min({Last} \cup {k \in Levels : Covers(k, from, points)})

(* read                                                                                *)
Read(m, k, from) == {b \in from..now : rows[k][m][b] # {}}

(* Query: towards finer data while there is nothing to draw.                           *)
Query(m, from, points) ==
    Max({1} \cup {k \in 1..ChooseTier(from, points) : Read(m, k, from) # {}})

---------------------------------------------------------------------------------------
(* Properties                                                                          *)

(* Rolling up and pruning, in any order of readings, late ones, housekeeping that stops *)
(* at any statement, never delete the last trace of a reading: some tier still has it,  *)
(* and the coarsest for ever (store.go's Rollup before Prune in housekeep).             *)
NothingIsLost ==
    \A r \in stored : \E k \in Levels : r[2] \in rows[k][r[1]][Trunc(k, r[2])]

(* The newest coarse bucket is computed again on every pass (rollupInto), from finer    *)
(* rows that are being pruned at the same time.  It never comes out with less in it     *)
(* than it had: a row is deleted whole or keeps what it aggregates.                     *)
RedoingLosesNothing ==
    [][\A k \in 2..Last, m \in Metrics, b \in Times :
          rows'[k][m][b] = {} \/ rows[k][m][b] \subseteq rows'[k][m][b]]_rows

(* Whatever window and number of points a chart asks for, and whichever tier that       *)
(* comes to (chooseTier, Query), the chart lacks no reading older than its tier's       *)
(* newest bucket, unless the reading's bucket began before the window.                  *)
ChartsAreWhole ==
    LET newest == [k \in Levels |-> NewestIn(rows[k])] IN
    \A m \in Metrics, from \in 0..now, points \in Points :
        LET best == ChooseTier(from, points)
            k    == Query(m, from, points)
        IN  \A r \in stored :
                (/\ r[1] = m
                 /\ Trunc(best, r[2]) >= from
                 /\ Trunc(k, r[2]) < newest[k])
                => r[2] \in rows[k][m][Trunc(k, r[2])]

=======================================================================================
