-------------------------- MODULE TelemetryProofs --------------------------
(***************************************************************************)
(* Proofs about the telemetry collector.  The invariant has four parts     *)
(* that each build on the types alone: the counts, the notes, the windows  *)
(* and, on the windows, the labels.                                        *)
(***************************************************************************)
EXTENDS Telemetry, WellFoundedInduction, TLAPS

USE TelemetryAssumption

---------------------------------------------------------------------------
(* Types.                                                                  *)

\* The event log grows with the times at which its lines were added.
LogTyped == events \in Seq(LogEvents) /\ known \in Seq(Nat)

TelTyped == TelTypeOK /\ LogTyped

\* The least of some natural numbers: the first hit of the labeler.
LEMMA LeastOf ==
  ASSUME NEW S \in SUBSET Nat, S # {}
  PROVE  \E i \in S : \A j \in S : i <= j
<1>1. PICK i \in S : \A j \in S : ~ (<<j, i>> \in OpToRel(<, Nat))
  BY NatLessThanWellFounded, WFMin, Zenon
<1>2. \A j \in S : ~ (j < i)
  BY <1>1 DEF OpToRel
<1>. QED BY <1>2

\* Noting something with natural amounts adds to every count.
LEMMA AddTyped ==
  ASSUME NEW c \in [Note -> Nat], NEW n, \A x \in DOMAIN n : n[x] \in Nat
  PROVE  /\ Add(c, n) \in [Note -> Nat]
         /\ \A x \in Note : Add(c, n)[x] >= c[x]
         /\ \A d \in [Note -> Nat] : \A x \in Note :
               Add(c, n)[x] - c[x] = Add(d, n)[x] - d[x]
<1>. DEFINE Plus(x) == IF x \in DOMAIN n THEN n[x] ELSE 0
<1>1. \A x \in Note : Plus(x) \in Nat
  OBVIOUS
<1>2. \A d : Add(d, n) = [x \in Note |-> d[x] + Plus(x)]
  BY DEF Add
<1>. HIDE DEF Plus
<1>. QED BY <1>1, <1>2

\* Adding two tables of counts.
LEMMA AddCounts ==
  ASSUME NEW c \in [Note -> Nat], NEW d \in [Note -> Nat]
  PROVE  /\ Add(c, d) \in [Note -> Nat]
         /\ \A x \in Note : Add(c, d)[x] = c[x] + d[x]
BY DEF Add

\* LabelWindow gives the label of a line of the log, or none; a window with a
\* hit has one of the two marks.
LEMMA LabelTyped ==
  ASSUME TelTyped, NEW start \in Nat, NEW end \in Nat
  PROVE  LabelWindow(start, end) \in
            [label : Labels, anomaly : {0, 1}, recovery : {0, 1}]
<1>. DEFINE hits == {i \in loadEvents :
                       /\ OfTarget(events[i])
                       /\ Active(events[i], start, end)
                             \/ Recovering(events[i], start, end)}
            first == events[CHOOSE i \in hits : \A j \in hits : i <= j]
<1>1. CASE hits = {}
  <2>. "normal" \in Labels
    BY DEF Labels
  <2>. LabelWindow(start, end) = [label |-> "normal", anomaly |-> 0, recovery |-> 0]
    BY <1>1 DEF LabelWindow
  <2>. QED OBVIOUS
<1>2. CASE hits # {}
  <2>1. hits \subseteq loadEvents /\ loadEvents \subseteq 1 .. Len(events)
    BY DEF loadEvents
  <2>2. PICK i \in hits : \A j \in hits : i <= j
    <3>. HIDE DEF hits
    <3>1. hits \in SUBSET Nat
      BY <2>1
    <3>. QED BY <1>2, <3>1, LeastOf
  <2>3. (CHOOSE j \in hits : \A k \in hits : j <= k) \in hits
    BY <2>2
  <2>4. first \in LogEvents
    <3>. HIDE DEF hits
    <3>1. (CHOOSE j \in hits : \A k \in hits : j <= k) \in 1 .. Len(events)
      BY <2>1, <2>3
    <3>. QED BY <3>1 DEF TelTyped, LogTyped
  <2>5. first.label \in Labels
    BY <2>4 DEF Labels
  <2>. HIDE DEF first
  <2>6. \/ LabelWindow(start, end) =
              [label |-> first.label, anomaly |-> 1, recovery |-> 0]
        \/ LabelWindow(start, end) =
              [label |-> first.label, anomaly |-> 0, recovery |-> 1]
    BY <1>2 DEF LabelWindow, first
  <2>. QED BY <2>5, <2>6
<1>. QED BY <1>1, <1>2

LEMMA InitTyped == TelInit => TelTyped
<1>1. NoSummary \in Summary
  BY DEF NoSummary, Summary
<1>2. NoSample \in Sample
  BY <1>1 DEF NoSample, Sample, Labels, Zero
<1>3. Zero \in [Counter -> Nat] /\ 0 \in Counter
  BY DEF Zero, Counter
<1>4. NoSummary.counts \in [Note -> Nat]
  BY DEF NoSummary
<1>5. ASSUME TelInit
      PROVE  /\ clock \in Nat /\ total \in [Counter -> Nat] /\ packets \in Nat
             /\ events \in Seq(LogEvents) /\ known \in Seq(Nat)
             /\ Len(events) = Len(known)
             /\ notes \in Nat /\ faults \in Nat
  BY <1>3, <1>5 DEF TelInit
<1>6. ASSUME TelInit
      PROVE  /\ acc \in Summary /\ backends \in Nat /\ pending \in Nat \cup {None}
             /\ tick \in Nat \cup {None} /\ opened \in Nat /\ pc \in PC
             /\ index \in Counter
             /\ previousStats \in [Counter -> Nat] /\ previousBackend \in Nat
  BY <1>1, <1>3, <1>6 DEF TelInit, PC
<1>7. ASSUME TelInit
      PROVE  /\ windowStart \in Nat /\ stats \in [Counter -> Nat]
             /\ win \in Sample /\ writerErr \in BOOLEAN
             /\ header \in {0, 1} /\ csv \in Seq(Sample)
  BY <1>2, <1>3, <1>7 DEF TelInit
<1>8. ASSUME TelInit
      PROVE  /\ base \in [Counter -> Nat] /\ reported \in [Counter -> Nat]
             /\ noted \in [Note -> Nat] /\ told \in [Note -> Nat] /\ rows \in Nat
             /\ lost \subseteq {"delta", "notes"} /\ refused \in BOOLEAN
  BY <1>3, <1>4, <1>8 DEF TelInit
<1>. QED
  BY <1>5, <1>6, <1>7, <1>8 DEF TelTyped, TelTypeOK, LogTyped

LEMMA TypedStep ==
  ASSUME TelTyped, [TelNext]_telVars
  PROVE  TelTyped'
<1>. USE DEF TelTyped, TelTypeOK, LogTyped
<1>1. NoSummary \in Summary /\ NoSummary.counts \in [Note -> Nat]
  BY DEF NoSummary, Summary
<1>2. NoSample \in Sample
  BY <1>1 DEF NoSample, Sample, Labels, Zero
<1>3. Zero \in [Counter -> Nat] /\ 0 \in Counter
  BY DEF Zero, Counter
<1>4. acc.counts \in [Note -> Nat] /\ win.summary.counts \in [Note -> Nat]
  BY DEF Summary, Sample
<1>5. NextStats \in [Counter -> Nat]
  BY DEF NextStats
<1>6. ASSUME NEW n, \A x \in DOMAIN n : n[x] \in Nat, NoteCounts(n),
             pending' \in Nat \cup {None}
      PROVE  TelTyped'
  <2>1. Add(acc.counts, n) \in [Note -> Nat] /\ Add(noted, n) \in [Note -> Nat]
    BY <1>4, <1>6, AddTyped
  <2>2. acc' \in Summary /\ noted' \in [Note -> Nat]
    BY <1>6, <2>1 DEF NoteCounts, Summary
  <2>. QED
    BY <1>6, <2>2, SMTT(60) DEF NoteCounts, worldVars, collVars, fileVars
<1>7. CASE Elapse
  BY <1>7 DEF Elapse, boundVars, noteVars, fileVars, histVars
<1>8. ASSUME NEW s \in Counter, CountPacket(s) PROVE TelTyped'
  <2>1. total' \in [Counter -> Nat]
    BY <1>8 DEF CountPacket
  <2>. QED
    BY SMTT(40), <1>8, <2>1 DEF CountPacket, boundVars, noteVars, collVars, fileVars, histVars
<1>9. ASSUME NEW e \in LogEvents, LogEvent(e) PROVE TelTyped'
  <2>1. events' \in Seq(LogEvents) /\ known' \in Seq(Nat)
        /\ Len(events') = Len(known')
    BY <1>9 DEF LogEvent
  <2>. QED
    BY <1>9, <2>1 DEF LogEvent, boundVars, noteVars, collVars, fileVars, histVars
<1>10. CASE Notes
  <2>1. ASSUME NEW f \in Flag, NoteEvent(f) PROVE TelTyped'
    <3>1. acc' \in Summary
      BY <2>1 DEF NoteEvent, Summary
    <3>. QED
      BY <2>1, <3>1, SMTT(60) DEF NoteEvent, worldVars, collVars, fileVars, histVars
  <2>2. ASSUME NEW n \in 0 .. MaxBackends, noteReconcile(n) PROVE TelTyped'
    <3>. DEFINE r == [reconciles |-> 1,
                      upserted |-> IF n \notin {0, backends} THEN 1 ELSE 0,
                      removed |-> IF n = 0 /\ backends # 0 THEN 1 ELSE 0]
    <3>1. NoteCounts(r) /\ pending' = n
      BY <2>2 DEF noteReconcile
    <3>2. \A x \in DOMAIN r : r[x] \in Nat
      OBVIOUS
    <3>3. n \in Nat
      OBVIOUS
    <3>. HIDE DEF r
    <3>. QED BY <1>6, <3>1, <3>2, <3>3
  <2>3. CASE PublishEntries
    BY <2>3 DEF PublishEntries, worldVars, boundVars, collVars, fileVars, histVars
  <2>4. ASSUME NEW d \in {0, 1}, NEW f \in {0, 1}, noteGC(d, f) PROVE TelTyped'
    <3>. DEFINE r == [gcruns |-> 1, gcct |-> d, gcfwd |-> f]
    <3>1. NoteCounts(r) /\ pending' = pending
      BY <2>4 DEF noteGC
    <3>2. \A x \in DOMAIN r : r[x] \in Nat
      OBVIOUS
    <3>. HIDE DEF r
    <3>. QED BY <1>6, <3>1, <3>2
  <2>. QED BY <1>10, <2>1, <2>2, <2>3, <2>4 DEF Notes
<1>11. CASE Start
  <2>1. PICK n \in 0 .. MaxBackends :
           /\ backends' = n
           /\ acc' = [NoSummary EXCEPT !.counts =
                         Add(NoSummary.counts,
                             [reconciles |-> 1, upserted |-> IF n > 0 THEN 1 ELSE 0])]
           /\ noted' = acc'.counts
    BY <1>11 DEF Start
  <2>. DEFINE r == [reconciles |-> 1, upserted |-> IF n > 0 THEN 1 ELSE 0]
  <2>2. \A x \in DOMAIN r : r[x] \in Nat
    OBVIOUS
  <2>3. acc' = [NoSummary EXCEPT !.counts = Add(NoSummary.counts, r)]
    BY <2>1
  <2>. HIDE DEF r
  <2>4. Add(NoSummary.counts, r) \in [Note -> Nat]
    BY <1>1, <2>2, AddTyped
  <2>5. backends' \in Nat /\ acc'.counts = Add(NoSummary.counts, r)
        /\ acc' \in Summary /\ noted' \in [Note -> Nat]
    <3>1. backends' \in Nat
      BY <2>1
    <3>2. acc'.counts = Add(NoSummary.counts, r) /\ acc' \in Summary
      BY <1>1, <2>3, <2>4 DEF Summary
    <3>. QED BY <2>1, <2>4, <3>1, <3>2
  <2>6. total' \in [Counter -> Nat] /\ header' \in {0, 1} /\ rows' \in Nat
    <3>1. total' \in [Counter -> Nat]
      BY <1>3, <1>11 DEF Start
    <3>2. header' \in {0, 1} /\ rows' = Len(csv)
      BY <1>11 DEF Start
    <3>. QED BY <3>1, <3>2
  <2>. QED
    BY <1>1, <1>2, <1>3, <1>11, <2>5, <2>6 DEF Start, boundVars, PC
<1>12. CASE captureBaseline
  BY <1>3, <1>5, <1>12 DEF captureBaseline, worldVars, boundVars, noteVars, fileVars, PC
<1>13. CASE ReadStat
  <2>1. index' \in Counter
    BY <1>13 DEF ReadStat, Counter
  <2>. QED
    BY <1>5, <1>13, <2>1
    DEF ReadStat, worldVars, boundVars, noteVars, fileVars, histVars
<1>14. CASE BeginWindow
  <2>1. win' \in Sample
    BY <1>2, <1>14 DEF BeginWindow, Sample
  <2>. QED
    BY <1>3, <1>14, <2>1
    DEF BeginWindow, worldVars, boundVars, noteVars, fileVars, histVars, PC
<1>15. CASE Diff
  <2>1. diff(NextStats, previousStats) \in [Counter -> Nat]
    BY <1>5 DEF diff
  <2>2. win' \in Sample
    BY <1>15, <2>1 DEF Diff, Sample
  <2>. QED
    BY <1>3, <1>5, <1>15, <2>2
    DEF Diff, worldVars, boundVars, noteVars, fileVars, histVars, PC
<1>16. CASE CountEntries
  BY <1>16
  DEF CountEntries, worldVars, boundVars, noteVars, fileVars, histVars, PC
<1>17. CASE consume
  <2>1. win' \in Sample
    BY <1>17 DEF consume, Sample
  <2>. QED
    BY <1>1, <1>17, <2>1 DEF consume, worldVars, boundVars, fileVars, histVars, PC
<1>18. CASE currentTelemetryTargetState
  <2>1. win' \in Sample
    BY <1>18 DEF currentTelemetryTargetState, Sample
  <2>. QED
    BY <1>18, <2>1 DEF currentTelemetryTargetState, worldVars, boundVars,
                       noteVars, fileVars, histVars, PC
<1>19. CASE Label
  <2>. DEFINE l == LabelWindow(win.start, win.end)
  <2>0. win.start \in Nat /\ win.end \in Nat /\ win.total \in Nat
    BY DEF Sample
  <2>1. l \in [label : Labels, anomaly : {0, 1}, recovery : {0, 1}]
    BY <2>0, LabelTyped
  <2>2. /\ win' = [win EXCEPT !.label = l.label, !.anomaly = l.anomaly,
                               !.recovery = l.recovery,
                               !.backendDelta = win.total - previousBackend]
        /\ previousBackend' = win.total
    BY <1>19 DEF Label
  <2>. HIDE DEF l
  <2>3. win' \in Sample
    <3>1. l.label \in Labels /\ l.anomaly \in {0, 1} /\ l.recovery \in {0, 1}
          /\ win.total - previousBackend \in Int
      BY <2>0, <2>1
    <3>. QED BY <2>2, <3>1 DEF Sample
  <2>. QED
    BY <1>19, <2>0, <2>2, <2>3
    DEF Label, worldVars, boundVars, noteVars, fileVars, histVars, PC
<1>20. CASE WriteSample
  <2>1. win.end \in Nat /\ win.delta \in [Counter -> Nat]
    BY DEF Sample
  <2>2. reported' \in [Counter -> Nat]
    <3>1. reported' = [s \in Counter |-> reported[s] + win.delta[s]]
      BY <1>20 DEF WriteSample
    <3>. QED BY SMTT(40), <2>1, <3>1
  <2>3. told' \in [Note -> Nat]
    BY <1>4, <1>20, AddCounts DEF WriteSample
  <2>. QED
    BY SMTT(40), <1>2, <1>20, <2>1, <2>2, <2>3
    DEF WriteSample, worldVars, boundVars, noteVars, PC
<1>21. CASE SkipWindow
  <2>1. win.end \in Nat /\ TakenAlong \subseteq {"delta", "notes"}
    BY DEF Sample, TakenAlong
  <2>. QED
    BY <1>2, <1>3, <1>21, <2>1, SMTT(60)
    DEF SkipWindow, worldVars, noteVars, fileVars, PC
<1>22. CASE WriteRefused
  <2>1. win.end \in Nat /\ TakenAlong \subseteq {"delta", "notes"}
    BY DEF Sample, TakenAlong
  <2>. QED
    BY <1>2, <1>22, <2>1
    DEF WriteRefused, worldVars, boundVars, noteVars, fileVars, PC
<1>23. CASE Kill
  BY <1>1, <1>2, <1>3, <1>23, SMTT(60) DEF Kill, worldVars, fileVars, histVars, PC
<1>24. CASE UNCHANGED telVars
  BY <1>24 DEF telVars, worldVars, boundVars, noteVars, collVars, fileVars, histVars
<1>. QED
  BY <1>7, <1>8, <1>9, <1>10, <1>11, <1>12, <1>13, <1>14, <1>15, <1>16, <1>17,
     <1>18, <1>19, <1>20, <1>21, <1>22, <1>23, <1>24
  DEF TelNext, runTelemetry, collectWindow

\* TelTypeOK: the types of the collector's state; in particular no counter is
\* read beyond the last one, and every count stays a natural number.
THEOREM TelTypeCorrect == TelSpec => []TelTypeOK
<1>1. TelTyped => TelTypeOK
  BY DEF TelTyped
<1>. QED BY <1>1, InitTyped, TypedStep, PTL DEF TelSpec

---------------------------------------------------------------------------
(* The counts.                                                             *)

Collecting == {"stats", "ctcount", "fwdcount", "consume", "target", "label", "write"}

\* The snapshots of a process never run ahead of the counters or behind each
\* other, also not while one is read.
CountsInv ==
    /\ DeltasTelescope
    /\ pc = "baseline" =>
          /\ reported = Zero
          /\ \A s \in Counter : s < index => stats[s] <= total[s]
    /\ Running => \A s \in Counter : /\ base[s] <= previousStats[s]
                                      /\ previousStats[s] <= total[s]
    /\ pc = "stats" => \A s \in Counter : s < index =>
          previousStats[s] <= stats[s] /\ stats[s] <= total[s]

InHand == {"ctcount", "fwdcount", "consume", "target", "label", "write"}

\* The values of the counts, one counter at a time.
LEMMA CountsTyped ==
  ASSUME TelTyped, NEW s \in Counter
  PROVE  /\ total[s] \in Nat /\ previousStats[s] \in Nat /\ stats[s] \in Nat
         /\ base[s] \in Nat /\ reported[s] \in Nat /\ win.delta[s] \in Nat
         /\ DeltaInHand(s) \in Nat
         /\ index \in Nat /\ index <= StatCount - 1 /\ s \in Nat /\ s <= StatCount - 1
         /\ NextStats[s] = (IF s = index THEN total[s] ELSE stats[s])
<1>1. win.delta \in [Counter -> Nat]
  BY DEF TelTyped, TelTypeOK, Sample
<1>2. index \in Nat /\ index <= StatCount - 1 /\ s \in Nat /\ s <= StatCount - 1
  BY DEF TelTyped, TelTypeOK, Counter
<1>3. NextStats[s] = (IF s = index THEN total[s] ELSE stats[s])
  BY DEF TelTyped, TelTypeOK, NextStats
<1>. QED BY <1>1, <1>2, <1>3 DEF TelTyped, TelTypeOK, DeltaInHand

LEMMA CountsStep ==
  ASSUME TelTyped, TelTyped', CountsInv, [TelNext]_telVars
  PROVE  CountsInv'
<1>1. ASSUME UNCHANGED <<base, reported, lost, pc, index, previousStats, stats, win>>,
             \A s \in Counter : total[s] <= total'[s]
      PROVE  CountsInv'
  <2>1. \A s \in Counter : /\ total[s] \in Nat /\ total'[s] \in Nat
                           /\ previousStats[s] \in Nat /\ stats[s] \in Nat
    BY DEF TelTyped, TelTypeOK
  <2>2. DeltasTelescope'
    BY <1>1 DEF CountsInv, DeltasTelescope, Running, DeltaInHand
  <2>. QED BY <1>1, <2>1, <2>2 DEF CountsInv, Running
<1>2. ASSUME UNCHANGED <<base, reported, lost, pc, index, previousStats, stats, win, total>>
      PROVE  CountsInv'
  <2>1. \A s \in Counter : total[s] <= total'[s]
    <3>1. \A s \in Counter : total[s] \in Nat
      BY DEF TelTyped, TelTypeOK
    <3>. QED BY <1>2, <3>1
  <2>. QED BY <1>1, <1>2, <2>1
<1>3. CASE Elapse \/ (\E e \in LogEvents : LogEvent(e)) \/ Notes
  BY <1>2, <1>3 DEF Elapse, LogEvent, Notes, NoteEvent, noteReconcile, noteGC,
                    NoteCounts, PublishEntries, worldVars, collVars, histVars
<1>4. ASSUME NEW s \in Counter, CountPacket(s) PROVE CountsInv'
  <2>1. \A t \in Counter : total[t] <= total'[t]
    <3>1. total \in [Counter -> Nat] /\ total' = [total EXCEPT ![s] = @ + 1]
      BY <1>4 DEF CountPacket, TelTyped, TelTypeOK
    <3>2. \A t \in Counter : total[t] \in Nat
                              /\ total'[t] = (IF t = s THEN total[t] + 1 ELSE total[t])
      BY <3>1
    <3>. QED BY <3>2
  <2>. QED BY <1>1, <1>4, <2>1 DEF CountPacket, collVars, histVars
<1>5. CASE Start
  <2>1. pc' = "baseline" /\ reported' = Zero /\ index' = 0
    BY <1>5 DEF Start
  <2>2. \A s \in Counter : ~ (s < 0)
    BY DEF Counter
  <2>. QED BY <2>1, <2>2 DEF CountsInv, DeltasTelescope, Running
<1>6. CASE Kill
  BY <1>6 DEF Kill, CountsInv, DeltasTelescope, Running
<1>7. CASE ReadStat
  <2>1. /\ pc \in {"baseline", "stats"} /\ stats' = NextStats /\ index' = index + 1
        /\ UNCHANGED <<base, reported, lost, pc, previousStats, win, total>>
    BY <1>7 DEF ReadStat, worldVars, histVars
  <2>2. DeltasTelescope'
    BY <2>1 DEF CountsInv, DeltasTelescope, Running, DeltaInHand
  <2>3. ASSUME NEW s \in Counter, s < index'
        PROVE  /\ stats'[s] <= total[s]
               /\ pc = "stats" => previousStats[s] <= stats'[s]
    BY <2>1, <2>3, CountsTyped DEF CountsInv, Running
  <2>. QED BY <2>1, <2>2, <2>3 DEF CountsInv, Running
<1>8. CASE captureBaseline
  <2>1. /\ pc = "baseline" /\ index = StatCount - 1 /\ pc' = "wait"
        /\ previousStats' = NextStats /\ base' = NextStats
        /\ UNCHANGED <<reported, lost, total>>
    BY <1>8 DEF captureBaseline, worldVars
  <2>2. ASSUME NEW s \in Counter
        PROVE  /\ NextStats[s] \in Nat /\ NextStats[s] <= total[s]
               /\ reported[s] = 0 /\ DeltaInHand(s)' = 0
    <3>1. NextStats[s] \in Nat /\ NextStats[s] <= total[s]
      BY <2>1, CountsTyped DEF CountsInv
    <3>2. reported[s] = 0
      BY <2>1 DEF CountsInv, Zero
    <3>. QED BY <2>1, <3>1, <3>2 DEF DeltaInHand
  <2>. QED BY <2>1, <2>2 DEF CountsInv, DeltasTelescope, Running
<1>9. CASE BeginWindow
  <2>1. /\ pc = "wait" /\ pc' = "stats" /\ index' = 0
        /\ UNCHANGED <<base, reported, lost, previousStats, total>>
    BY <1>9 DEF BeginWindow, worldVars, histVars
  <2>2. \A s \in Counter : ~ (s < 0)
    BY DEF Counter
  <2>3. DeltasTelescope'
    BY <2>1 DEF CountsInv, DeltasTelescope, Running, DeltaInHand
  <2>. QED BY <2>1, <2>2, <2>3 DEF CountsInv, Running
<1>10. CASE Diff
  <2>1. /\ pc = "stats" /\ index = StatCount - 1 /\ pc' = "ctcount"
        /\ win'.delta = diff(NextStats, previousStats) /\ previousStats' = NextStats
        /\ UNCHANGED <<base, reported, lost, total>>
    BY <1>10 DEF Diff, worldVars, histVars, TelTyped, TelTypeOK, Sample
  <2>2. ASSUME NEW s \in Counter
        PROVE  /\ NextStats[s] \in Nat /\ previousStats[s] <= NextStats[s]
               /\ NextStats[s] <= total[s]
    BY <2>1, CountsTyped DEF CountsInv, Running
  <2>3. ASSUME NEW s \in Counter
        PROVE  /\ DeltaInHand(s) = 0
               /\ DeltaInHand(s)' = NextStats[s] - previousStats[s]
    <3>1. diff(NextStats, previousStats)[s] = NextStats[s] - previousStats[s]
      BY <2>2, CountsTyped DEF diff
    <3>. QED BY <2>1, <3>1 DEF DeltaInHand
  <2>4. DeltasTelescope'
    <3>. SUFFICES ASSUME NEW s \in Counter
                  PROVE  LET sum == reported[s] + DeltaInHand(s)'
                         IN  /\ sum <= NextStats[s] - base[s]
                             /\ "delta" \notin lost => sum = NextStats[s] - base[s]
      BY <2>1 DEF DeltasTelescope
    <3>1. LET sum == reported[s] + DeltaInHand(s)
          IN  /\ sum <= previousStats[s] - base[s]
              /\ "delta" \notin lost => sum = previousStats[s] - base[s]
      BY <2>1 DEF CountsInv, DeltasTelescope, Running
    <3>. QED BY <2>2, <2>3, <3>1, CountsTyped
  <2>5. \A s \in Counter : base[s] <= NextStats[s]
    BY <2>1, <2>2, CountsTyped DEF CountsInv, Running
  <2>. QED BY <2>1, <2>2, <2>4, <2>5 DEF CountsInv, Running
<1>11. ASSUME UNCHANGED <<base, reported, lost, previousStats, total>>,
              win'.delta = win.delta, pc \in InHand, pc' \in InHand
       PROVE  CountsInv'
  <2>1. \A s \in Counter : DeltaInHand(s)' = DeltaInHand(s)
    BY <1>11 DEF DeltaInHand, InHand
  <2>2. Running /\ Running' /\ pc' # "baseline" /\ pc' # "stats"
    BY <1>11 DEF Running, InHand
  <2>3. DeltasTelescope'
    BY <1>11, <2>1, <2>2 DEF CountsInv, DeltasTelescope
  <2>. QED BY <1>11, <2>2, <2>3 DEF CountsInv
<1>12. CASE CountEntries \/ consume \/ currentTelemetryTargetState
  <2>1. win'.delta = win.delta
    BY <1>12 DEF CountEntries, consume, currentTelemetryTargetState,
                 TelTyped, TelTypeOK, Sample
  <2>2. UNCHANGED <<base, reported, lost, previousStats, total>>
        /\ pc \in InHand /\ pc' \in InHand
    BY <1>12 DEF CountEntries, consume, currentTelemetryTargetState,
                 worldVars, histVars, InHand
  <2>. QED BY <1>11, <2>1, <2>2
<1>13. CASE Label
  <2>1. win'.delta = win.delta
    <3>. DEFINE l == LabelWindow(win.start, win.end)
    <3>1. win' = [win EXCEPT !.label = l.label, !.anomaly = l.anomaly,
                             !.recovery = l.recovery,
                             !.backendDelta = win.total - previousBackend]
      BY <1>13 DEF Label
    <3>. HIDE DEF l
    <3>. QED BY <3>1 DEF TelTyped, TelTypeOK, Sample
  <2>2. UNCHANGED <<base, reported, lost, previousStats, total>>
        /\ pc \in InHand /\ pc' \in InHand
    BY <1>13 DEF Label, worldVars, histVars, InHand
  <2>. QED BY <1>11, <2>1, <2>2
<1>14. CASE WriteSample
  <2>1. /\ pc = "write" /\ pc' = "wait"
        /\ reported' = [s \in Counter |-> reported[s] + win.delta[s]]
        /\ UNCHANGED <<base, lost, previousStats, total>>
    BY <1>14 DEF WriteSample, worldVars
  <2>2. ASSUME NEW s \in Counter
        PROVE  reported'[s] + DeltaInHand(s)' = reported[s] + DeltaInHand(s)
    BY <2>1, CountsTyped DEF DeltaInHand
  <2>3. DeltasTelescope'
    BY <2>1, <2>2 DEF CountsInv, DeltasTelescope, Running
  <2>. QED BY <2>1, <2>3 DEF CountsInv, Running
<1>15. CASE SkipWindow \/ WriteRefused
  <2>1. /\ pc \in {"stats", "ctcount", "fwdcount", "label", "write"} /\ pc' = "wait"
        /\ UNCHANGED <<base, reported, previousStats, total>>
        /\ lost' = lost \cup TakenAlong
    BY <1>15 DEF SkipWindow, WriteRefused, worldVars
  <2>2. /\ "delta" \in lost => "delta" \in lost'
        /\ pc # "stats" => "delta" \in lost'
    BY <2>1 DEF TakenAlong
  <2>3. ASSUME NEW s \in Counter
        PROVE  /\ DeltaInHand(s)' = 0
               /\ pc = "stats" => DeltaInHand(s) = 0
    BY <2>1 DEF DeltaInHand
  <2>4. ASSUME NEW s \in Counter
        PROVE  /\ reported[s] <= previousStats[s] - base[s]
               /\ "delta" \notin lost' => reported[s] = previousStats[s] - base[s]
    BY <2>1, <2>2, <2>3, CountsTyped DEF CountsInv, DeltasTelescope, Running
  <2>5. DeltasTelescope'
    BY <2>1, <2>3, <2>4, CountsTyped DEF DeltasTelescope
  <2>. QED BY <2>1, <2>5 DEF CountsInv, Running
<1>16. CASE UNCHANGED telVars
  BY <1>2, <1>16 DEF telVars, worldVars, collVars, histVars
<1>. QED
  BY <1>3, <1>4, <1>5, <1>6, <1>7, <1>8, <1>9, <1>10, <1>12, <1>13, <1>14, <1>15, <1>16
  DEF TelNext, runTelemetry, collectWindow

\* DeltasTelescope: the deltas of the samples add up to what the counters did
\* since the baseline.
THEOREM DeltasTelescopeHolds == TelSpec => []DeltasTelescope
<1>1. TelInit => CountsInv
  BY DEF TelInit, CountsInv, DeltasTelescope, Running
<1>2. CountsInv => DeltasTelescope
  BY DEF CountsInv
<1>. QED
  BY <1>1, <1>2, InitTyped, TypedStep, CountsStep, PTL DEF TelSpec

---------------------------------------------------------------------------
(* The notes.                                                              *)

\* NotesConserved from the start of a process, of which the first note is made
\* before its baseline.
NotesInv ==
    Up => \A n \in Note :
             LET sum == told[n] + acc.counts[n] + NoteInHand(n)
             IN  sum <= noted[n] /\ ("notes" \notin lost => sum = noted[n])

LEMMA NotesStep ==
  ASSUME TelTyped, TelTyped', NotesInv, [TelNext]_telVars
  PROVE  NotesInv'
<1>1. ASSUME told' = told, acc'.counts = acc.counts, noted' = noted, lost' = lost,
             Up' => Up, \A n \in Note : NoteInHand(n)' = NoteInHand(n)
      PROVE  NotesInv'
  BY <1>1 DEF NotesInv
<1>2. /\ \A n \in Note : /\ told[n] \in Nat /\ acc.counts[n] \in Nat
                          /\ noted[n] \in Nat /\ NoteInHand(n) \in Nat
                          /\ win.summary.counts[n] \in Nat
      /\ acc.counts \in [Note -> Nat] /\ noted \in [Note -> Nat]
      /\ told \in [Note -> Nat] /\ win.summary.counts \in [Note -> Nat]
      /\ win.summary \in Summary
  BY DEF TelTyped, TelTypeOK, NoteInHand, Summary, Sample
<1>3. /\ \A n \in Note : NoSummary.counts[n] = 0
      /\ NoSummary.counts \in [Note -> Nat]
  BY DEF NoSummary
<1>4. ASSUME NEW n, \A x \in DOMAIN n : n[x] \in Nat, NoteCounts(n)
      PROVE  NotesInv'
  <2>1. /\ acc'.counts = Add(acc.counts, n) /\ noted' = Add(noted, n)
        /\ told' = told /\ lost' = lost /\ pc' = pc /\ win' = win /\ Up
    BY <1>4 DEF NoteCounts, collVars, TelTyped, TelTypeOK, Summary
  <2>2. \A x \in Note : Add(noted, n)[x] - noted[x]
                          = Add(acc.counts, n)[x] - acc.counts[x]
    BY <1>2, <1>4, AddTyped
  <2>3. \A x \in Note : Add(noted, n)[x] \in Nat /\ Add(acc.counts, n)[x] \in Nat
    BY <1>2, <1>4, AddTyped
  <2>4. \A x \in Note : NoteInHand(x)' = NoteInHand(x)
    BY <2>1 DEF NoteInHand
  <2>. DEFINE a == Add(acc.counts, n)
              b == Add(noted, n)
  <2>. HIDE DEF a, b
  <2>5. ASSUME NEW x \in Note
        PROVE  LET sum == told[x] + a[x] + NoteInHand(x)
               IN  sum <= b[x] /\ ("notes" \notin lost => sum = b[x])
    <3>1. /\ b[x] - noted[x] = a[x] - acc.counts[x]
          /\ b[x] \in Nat /\ a[x] \in Nat
      BY <2>2, <2>3 DEF a, b
    <3>2. LET sum == told[x] + acc.counts[x] + NoteInHand(x)
          IN  sum <= noted[x] /\ ("notes" \notin lost => sum = noted[x])
      BY <2>1 DEF NotesInv
    <3>3. /\ told[x] \in Nat /\ acc.counts[x] \in Nat /\ noted[x] \in Nat
          /\ NoteInHand(x) \in Nat
      BY <1>2
    <3>4. \A t, c, h, o, y, z \in Nat :
             z - o = y - c => /\ t + c + h <= o => t + y + h <= z
                              /\ t + c + h = o => t + y + h = z
      OBVIOUS
    <3>. QED BY <3>1, <3>2, <3>3, <3>4
  <2>. QED BY <2>1, <2>4, <2>5 DEF NotesInv, a, b
<1>5. ASSUME UNCHANGED <<acc, told, noted, lost, win, pc>>
      PROVE  NotesInv'
  BY <1>1, <1>5 DEF Up, NoteInHand
<1>6. CASE Elapse \/ (\E s \in Counter : CountPacket(s))
           \/ (\E e \in LogEvents : LogEvent(e)) \/ PublishEntries \/ ReadStat
  BY <1>5, <1>6 DEF Elapse, CountPacket, LogEvent, PublishEntries, ReadStat,
                    noteVars, collVars, histVars
<1>7. ASSUME NEW f \in Flag, NoteEvent(f) PROVE NotesInv'
  <2>1. acc'.counts = acc.counts /\ UNCHANGED <<told, noted, lost, win, pc>>
    BY <1>7 DEF NoteEvent, collVars, histVars, TelTyped, TelTypeOK, Summary
  <2>. QED BY <1>1, <2>1 DEF Up, NoteInHand
<1>8. ASSUME NEW n \in 0 .. MaxBackends, noteReconcile(n) PROVE NotesInv'
  <2>. DEFINE r == [reconciles |-> 1,
                    upserted |-> IF n \notin {0, backends} THEN 1 ELSE 0,
                    removed |-> IF n = 0 /\ backends # 0 THEN 1 ELSE 0]
  <2>1. NoteCounts(r)
    BY <1>8 DEF noteReconcile
  <2>2. \A x \in DOMAIN r : r[x] \in Nat
    OBVIOUS
  <2>. HIDE DEF r
  <2>. QED BY <1>4, <2>1, <2>2
<1>9. ASSUME NEW d \in {0, 1}, NEW f \in {0, 1}, noteGC(d, f) PROVE NotesInv'
  <2>. DEFINE r == [gcruns |-> 1, gcct |-> d, gcfwd |-> f]
  <2>1. NoteCounts(r)
    BY <1>9 DEF noteGC
  <2>2. \A x \in DOMAIN r : r[x] \in Nat
    OBVIOUS
  <2>. HIDE DEF r
  <2>. QED BY <1>4, <2>1, <2>2
<1>10. CASE Start
  <2>1. noted' = acc'.counts /\ told' = NoSummary.counts /\ pc' = "baseline"
    BY <1>10 DEF Start
  <2>2. \A n \in Note : NoteInHand(n)' = 0
    BY <2>1 DEF NoteInHand
  <2>3. \A n \in Note : noted'[n] \in Nat
    BY DEF TelTyped, TelTypeOK
  <2>. QED BY <1>3, <2>1, <2>2, <2>3 DEF NotesInv
<1>11. CASE captureBaseline \/ BeginWindow \/ Diff \/ CountEntries
  <2>1. UNCHANGED <<acc, told, noted, lost>> /\ Up
        /\ pc \notin {"target", "label", "write"} /\ pc' \notin {"target", "label", "write"}
    BY <1>11 DEF captureBaseline, BeginWindow, Diff, CountEntries, noteVars, histVars, Up
  <2>. QED BY <1>1, <2>1 DEF NoteInHand
<1>12. CASE consume
  <2>1. /\ acc' = NoSummary /\ win'.summary = acc /\ pc = "consume" /\ pc' = "target"
        /\ UNCHANGED <<told, noted, lost>>
    BY <1>12 DEF consume, histVars, TelTyped, TelTypeOK, Sample
  <2>2. \A n \in Note : NoteInHand(n) = 0 /\ NoteInHand(n)' = acc.counts[n]
    BY <2>1 DEF NoteInHand
  <2>3. \A n \in Note : acc'.counts[n] = 0
    BY <1>3, <2>1
  <2>. QED BY <1>2, <2>1, <2>2, <2>3 DEF NotesInv, Up
<1>13. CASE currentTelemetryTargetState
  <2>1. /\ UNCHANGED <<acc, told, noted, lost>> /\ win'.summary = win.summary
        /\ pc = "target" /\ pc' = "label"
    BY <1>13 DEF currentTelemetryTargetState, noteVars, histVars,
                 TelTyped, TelTypeOK, Sample
  <2>. QED BY <1>1, <2>1 DEF NoteInHand, Up
<1>14. CASE Label
  <2>1. /\ UNCHANGED <<acc, told, noted, lost>> /\ win'.summary = win.summary
        /\ pc = "label" /\ pc' = "write"
    <3>. DEFINE l == LabelWindow(win.start, win.end)
    <3>1. win' = [win EXCEPT !.label = l.label, !.anomaly = l.anomaly,
                             !.recovery = l.recovery,
                             !.backendDelta = win.total - previousBackend]
      BY <1>14 DEF Label
    <3>. HIDE DEF l
    <3>2. win'.summary = win.summary
      BY <3>1 DEF TelTyped, TelTypeOK, Sample
    <3>. QED BY <1>14, <3>2 DEF Label, noteVars, histVars
  <2>. QED BY <1>1, <2>1 DEF NoteInHand, Up
<1>15. CASE WriteSample
  <2>1. /\ told' = Add(told, win.summary.counts) /\ UNCHANGED <<acc, noted, lost>>
        /\ pc = "write" /\ pc' = "wait"
    BY <1>15 DEF WriteSample, noteVars
  <2>2. \A n \in Note : told'[n] = told[n] + win.summary.counts[n]
    BY <1>2, <2>1, AddCounts
  <2>3. \A n \in Note : NoteInHand(n) = win.summary.counts[n] /\ NoteInHand(n)' = 0
    BY <2>1 DEF NoteInHand
  <2>. QED BY <1>2, <2>1, <2>2, <2>3 DEF NotesInv, Up
<1>16. CASE SkipWindow \/ WriteRefused
  <2>1. /\ UNCHANGED <<acc, told, noted>> /\ pc' = "wait" /\ Up
        /\ lost' = lost \cup TakenAlong
    BY <1>16 DEF SkipWindow, WriteRefused, noteVars, Up
  <2>2. \A n \in Note : NoteInHand(n)' = 0
    BY <2>1 DEF NoteInHand
  <2>3. CASE pc \in {"label", "write"}
    <3>1. "notes" \in lost'
      BY <2>1, <2>3 DEF TakenAlong
    <3>. QED BY <1>2, <2>1, <2>2, <3>1 DEF NotesInv
  <2>4. CASE pc \notin {"label", "write"}
    <3>1. \A n \in Note : NoteInHand(n) = 0
      BY <1>16, <2>4 DEF SkipWindow, WriteRefused, NoteInHand
    <3>2. "notes" \in lost => "notes" \in lost'
      BY <2>1
    <3>. QED BY <1>2, <2>1, <2>2, <3>1, <3>2 DEF NotesInv
  <2>. QED BY <2>3, <2>4
<1>17. CASE Kill
  BY <1>17 DEF Kill, NotesInv, Up
<1>18. CASE UNCHANGED telVars
  BY <1>5, <1>18 DEF telVars, noteVars, collVars, histVars
<1>. QED
  BY <1>6, <1>7, <1>8, <1>9, <1>10, <1>11, <1>12, <1>13, <1>14, <1>15, <1>16,
     <1>17, <1>18
  DEF TelNext, Notes, runTelemetry, collectWindow

\* NotesConserved: what the other goroutines note is in exactly one sample, or
\* waits for the next one.
THEOREM NotesConservedHolds == TelSpec => []NotesConserved
<1>1. TelInit => NotesInv
  BY DEF TelInit, NotesInv, Up
<1>2. NotesInv => NotesConserved
  BY DEF NotesInv, NotesConserved, Running, Up
<1>. QED
  BY <1>1, <1>2, InitTyped, TypedStep, NotesStep, PTL DEF TelSpec

---------------------------------------------------------------------------
(* The windows.                                                            *)

\* A window in progress starts where the last one ended, and ends no later than
\* the tick that waits, if one waits.
WindowsInv ==
    /\ WindowsDisjoint
    /\ \A i \in 1 .. Len(csv) : csv[i].end <= clock
    /\ Running => /\ windowStart <= clock
                  /\ \A i \in 1 .. Len(csv) : csv[i].end <= windowStart
    /\ tick # None =>
          /\ Running
          /\ windowStart < tick /\ tick <= clock
    /\ pc \in Collecting =>
          /\ win.start = windowStart
          /\ win.start < win.end /\ win.end <= clock
          /\ tick # None => win.end < tick

LEMMA WindowsStep ==
  ASSUME TelTyped, TelTyped', WindowsInv, [TelNext]_telVars
  PROVE  WindowsInv'
<1>1. /\ clock \in Nat /\ clock' \in Nat /\ tick \in Nat \cup {None}
      /\ windowStart \in Nat /\ None \notin Nat
      /\ win.start \in Nat /\ win.end \in Nat
      /\ csv \in Seq(Sample) /\ Len(csv) \in Nat
      /\ \A i \in 1 .. Len(csv) : csv[i].start \in Nat /\ csv[i].end \in Nat
  <2>1. \A w \in Sample : w.start \in Nat /\ w.end \in Nat
    BY DEF Sample
  <2>2. csv \in Seq(Sample) /\ win \in Sample
    BY DEF TelTyped, TelTypeOK
  <2>3. Len(csv) \in Nat /\ \A i \in 1 .. Len(csv) : csv[i] \in Sample
    BY <2>2
  <2>. QED BY <2>1, <2>2, <2>3 DEF TelTyped, TelTypeOK
<1>2. ASSUME UNCHANGED <<clock, csv, tick, windowStart, pc, win>>
      PROVE  WindowsInv'
  BY <1>2 DEF WindowsInv, WindowsDisjoint, Running
<1>3. ASSUME UNCHANGED <<clock, csv, tick, windowStart>>, pc \in Collecting,
             pc' \in Collecting, win'.start = win.start, win'.end = win.end
      PROVE  WindowsInv'
  BY <1>3 DEF WindowsInv, WindowsDisjoint, Running, Collecting
<1>4. ASSUME UNCHANGED <<clock, csv>>, tick' = None, pc' \in {"down", "baseline"}
      PROVE  WindowsInv'
  BY <1>4 DEF WindowsInv, WindowsDisjoint, Running, Collecting
<1>5. CASE Elapse
  <2>1. /\ clock' = clock + 1 /\ UNCHANGED <<csv, windowStart, pc, win>>
        /\ tick' = tick \/ (tick' = clock + 1 /\ pc \notin {"down", "baseline"})
    BY <1>5 DEF Elapse, fileVars
  <2>2. /\ tick' # None => Running'
        /\ \A i \in 1 .. Len(csv) : csv[i].end <= clock'
        /\ Running' => windowStart' <= clock'
        /\ tick' # None => windowStart' < tick' /\ tick' <= clock'
        /\ pc' \in Collecting =>
              win.end <= clock' /\ (tick' # None => win.end < tick')
    BY <1>1, <2>1 DEF WindowsInv, Running, Collecting
  <2>. QED BY <2>1, <2>2 DEF WindowsInv, WindowsDisjoint, Running
<1>6. CASE (\E s \in Counter : CountPacket(s)) \/ (\E e \in LogEvents : LogEvent(e))
           \/ Notes
  BY <1>2, <1>6 DEF CountPacket, LogEvent, Notes, NoteEvent, noteReconcile, noteGC,
                    NoteCounts, PublishEntries, worldVars, collVars, fileVars
<1>7. CASE Start
  BY <1>4, <1>7 DEF Start
<1>8. CASE captureBaseline
  <2>1. /\ pc = "baseline" /\ pc' = "wait" /\ windowStart' = clock
        /\ UNCHANGED <<clock, csv, tick>>
    BY <1>8 DEF captureBaseline, worldVars, fileVars
  <2>2. tick = None
    BY <2>1 DEF WindowsInv, Running
  <2>. QED BY <1>1, <2>1, <2>2 DEF WindowsInv, WindowsDisjoint, Running, Collecting
<1>9. CASE ReadStat
  BY <1>2, <1>9 DEF ReadStat, worldVars, fileVars
<1>10. CASE BeginWindow
  <2>1. /\ pc = "wait" /\ pc' = "stats" /\ tick # None /\ tick' = None
        /\ win'.start = windowStart /\ win'.end = tick
        /\ UNCHANGED <<clock, csv, windowStart>>
    BY <1>10 DEF BeginWindow, worldVars, fileVars, NoSample
  <2>. QED BY <1>1, <2>1 DEF WindowsInv, WindowsDisjoint, Running, Collecting
<1>11. CASE Diff \/ CountEntries \/ consume \/ currentTelemetryTargetState
  <2>1. win'.start = win.start /\ win'.end = win.end
    BY <1>11 DEF Diff, CountEntries, consume, currentTelemetryTargetState,
                 TelTyped, TelTypeOK, Sample
  <2>2. UNCHANGED <<clock, csv, tick, windowStart>>
        /\ pc \in Collecting /\ pc' \in Collecting
    BY <1>11 DEF Diff, CountEntries, consume, currentTelemetryTargetState,
                 worldVars, fileVars, Collecting
  <2>. QED BY <1>3, <2>1, <2>2
<1>12. CASE Label
  <2>1. win'.start = win.start /\ win'.end = win.end
    <3>. DEFINE l == LabelWindow(win.start, win.end)
    <3>1. win' = [win EXCEPT !.label = l.label, !.anomaly = l.anomaly,
                             !.recovery = l.recovery,
                             !.backendDelta = win.total - previousBackend]
      BY <1>12 DEF Label
    <3>. HIDE DEF l
    <3>. QED BY <3>1 DEF TelTyped, TelTypeOK, Sample
  <2>2. UNCHANGED <<clock, csv, tick, windowStart>>
        /\ pc \in Collecting /\ pc' \in Collecting
    BY <1>12 DEF Label, worldVars, fileVars, Collecting
  <2>. QED BY <1>3, <2>1, <2>2
<1>13. CASE SkipWindow \/ WriteRefused
  <2>1. /\ pc \in Collecting /\ pc' = "wait" /\ windowStart' = win.end
        /\ UNCHANGED <<clock, csv, tick>>
    BY <1>13 DEF SkipWindow, WriteRefused, worldVars, fileVars, Collecting
  <2>2. Running
    BY <2>1 DEF Running, Collecting
  <2>. QED
    BY <1>1, <2>1, <2>2 DEF WindowsInv, WindowsDisjoint, Running, Collecting
<1>14. CASE WriteSample
  <2>1. /\ pc \in Collecting /\ pc' = "wait" /\ windowStart' = win.end
        /\ UNCHANGED <<clock, tick>> /\ csv' = Append(csv, win) /\ Running
    BY <1>14 DEF WriteSample, worldVars, Collecting, Running
  <2>2. /\ Len(csv') = Len(csv) + 1 /\ csv'[Len(csv) + 1] = win
        /\ \A i \in 1 .. Len(csv) : csv'[i] = csv[i]
    BY <1>1, <2>1
  <2>3. \A i \in 1 .. Len(csv') :
           \/ i \in 1 .. Len(csv) /\ csv'[i] = csv[i]
           \/ i = Len(csv) + 1 /\ csv'[i] = win
    BY SMTT(40), <1>1, <2>2
  <2>4. win.start < win.end /\ win.end <= clock /\ win.start = windowStart
        /\ (tick # None => win.end < tick /\ tick <= clock)
        /\ \A i \in 1 .. Len(csv) : csv[i].end <= windowStart
    BY <2>1 DEF WindowsInv
  <2>5. \A i \in 1 .. Len(csv') :
           csv'[i].start < csv'[i].end /\ csv'[i].end <= clock /\ csv'[i].end <= win.end
    BY <1>1, <2>3, <2>4 DEF WindowsInv, WindowsDisjoint
  <2>6. \A i, j \in 1 .. Len(csv') : i < j => csv'[i].end <= csv'[j].start
    <3>. SUFFICES ASSUME NEW i \in 1 .. Len(csv'), NEW j \in 1 .. Len(csv'), i < j
                  PROVE  csv'[i].end <= csv'[j].start
      OBVIOUS
    <3>1. i \in 1 .. Len(csv)
      BY <1>1, <2>2
    <3>2. CASE j \in 1 .. Len(csv)
      BY <2>2, <3>1, <3>2 DEF WindowsInv, WindowsDisjoint
    <3>3. CASE j = Len(csv) + 1
      BY <2>2, <2>4, <3>1, <3>3
    <3>. QED BY <1>1, <2>2, <3>2, <3>3
  <2>. QED
    BY <1>1, <2>1, <2>4, <2>5, <2>6 DEF WindowsInv, WindowsDisjoint, Running, Collecting
<1>15. CASE Kill
  BY <1>4, <1>15 DEF Kill, worldVars, fileVars
<1>16. CASE UNCHANGED telVars
  BY <1>2, <1>16 DEF telVars, worldVars, collVars, fileVars
<1>. QED
  BY <1>5, <1>6, <1>7, <1>8, <1>9, <1>10, <1>11, <1>12, <1>13, <1>14, <1>15, <1>16
  DEF TelNext, runTelemetry, collectWindow

LEMMA InitWindows == TelInit => WindowsInv
BY DEF TelInit, WindowsInv, WindowsDisjoint, Running, Collecting

\* WindowsDisjoint: the windows in the file follow each other, whatever was
\* skipped, dropped or started again between them.
THEOREM WindowsDisjointHolds == TelSpec => []WindowsDisjoint
<1>1. WindowsInv => WindowsDisjoint
  BY DEF WindowsInv
<1>. QED
  BY <1>1, InitTyped, TypedStep, InitWindows, WindowsStep, PTL DEF TelSpec

---------------------------------------------------------------------------
(* The labels.                                                             *)

\* KnownEventLabelled for one sample.
Labelled(w) ==
    \A k \in 1 .. Len(events) :
        (/\ k \in loadEvents
         /\ OfTarget(events[k])
         /\ known[k] < w.end
         /\ w.start < events[k].end /\ events[k].start < w.end)
        => w.anomaly + w.recovery = 1

LabelsInv ==
    /\ \A i \in 1 .. Len(csv) : Labelled(csv[i])
    /\ pc = "write" => Labelled(win)

\* A window that touches an event of the target has one of the two marks.
LEMMA LabelHit ==
  ASSUME NEW start, NEW end, NEW k \in loadEvents,
         OfTarget(events[k]),
         start < events[k].end, end > events[k].start
  PROVE  LET l == LabelWindow(start, end) IN l.anomaly + l.recovery = 1
<1>. DEFINE hits == {i \in loadEvents :
                       /\ OfTarget(events[i])
                       /\ Active(events[i], start, end)
                             \/ Recovering(events[i], start, end)}
            first == events[CHOOSE i \in hits : \A j \in hits : i <= j]
<1>1. Active(events[k], start, end)
  BY DEF Active, rangesOverlap
<1>2. hits # {}
  BY <1>1
<1>3. \/ LabelWindow(start, end) =
            [label |-> first.label, anomaly |-> 1, recovery |-> 0]
      \/ LabelWindow(start, end) =
            [label |-> first.label, anomaly |-> 0, recovery |-> 1]
  BY <1>2 DEF LabelWindow
<1>. HIDE DEF first, hits
<1>. QED BY <1>3

LEMMA LabelsStep ==
  ASSUME TelTyped, TelTyped', WindowsInv, LabelsInv, [TelNext]_telVars
  PROVE  LabelsInv'
<1>1. /\ win.start \in Nat /\ win.end \in Nat
      /\ csv \in Seq(Sample) /\ Len(csv) \in Nat
      /\ Len(events) \in Nat /\ Len(known) = Len(events)
  <2>1. csv \in Seq(Sample) /\ win \in Sample /\ events \in Seq(LogEvents)
        /\ Len(known) = Len(events)
    BY DEF TelTyped, TelTypeOK, LogTyped
  <2>. QED BY <2>1 DEF Sample
<1>2. ASSUME UNCHANGED <<events, known>>
      PROVE  \A w : Labelled(w) => Labelled(w)'
  BY <1>2 DEF Labelled, loadEvents
<1>3. ASSUME UNCHANGED <<events, known, csv>>, pc' # "write" \/ UNCHANGED <<pc, win>>
      PROVE  LabelsInv'
  <2>1. \A i \in 1 .. Len(csv) : Labelled(csv[i])'
    BY <1>2, <1>3 DEF LabelsInv
  <2>2. pc' = "write" => Labelled(win)'
    BY <1>2, <1>3 DEF LabelsInv
  <2>. QED BY <1>3, <2>1, <2>2 DEF LabelsInv, Labelled, loadEvents
<1>4. CASE Elapse \/ (\E s \in Counter : CountPacket(s)) \/ Notes
  BY <1>3, <1>4 DEF Elapse, CountPacket, Notes, NoteEvent, noteReconcile, noteGC,
                    NoteCounts, PublishEntries, worldVars, collVars, fileVars
<1>5. ASSUME NEW e \in LogEvents, LogEvent(e) PROVE LabelsInv'
  <2>1. /\ events' = Append(events, e) /\ known' = Append(known, clock)
        /\ UNCHANGED <<csv, win, pc>>
    BY <1>5 DEF LogEvent, collVars, fileVars
  <2>2. /\ Len(events') = Len(events) + 1
        /\ \A k \in 1 .. Len(events) : events'[k] = events[k] /\ known'[k] = known[k]
        /\ known'[Len(events) + 1] = clock
    BY <1>1, <2>1 DEF TelTyped, LogTyped
  <2>. DEFINE LabelledNext(w) ==
                 \A k \in 1 .. Len(events') :
                    (/\ k \in loadEvents' /\ OfTarget(events'[k])
                     /\ known'[k] < w.end
                     /\ w.start < events'[k].end /\ events'[k].start < w.end)
                    => w.anomaly + w.recovery = 1
  <2>3. ASSUME NEW w \in Sample, Labelled(w), w.end <= clock
        PROVE  LabelledNext(w)
    <3>. SUFFICES ASSUME NEW k \in 1 .. Len(events'),
                         k \in loadEvents', OfTarget(events'[k]),
                         known'[k] < w.end,
                         w.start < events'[k].end, events'[k].start < w.end
                  PROVE  w.anomaly + w.recovery = 1
      OBVIOUS
    <3>1. k # Len(events) + 1
      <4>1. w.end \in Nat /\ clock \in Nat
        BY DEF Sample, TelTyped, TelTypeOK
      <4>. QED BY <2>2, <2>3, <4>1
    <3>2. k \in 1 .. Len(events)
      BY <1>1, <2>2, <3>1
    <3>3. k \in loadEvents
      BY <2>2, <3>2 DEF loadEvents
    <3>. QED BY <2>2, <2>3, <3>2, <3>3 DEF Labelled
  <2>4. ASSUME NEW i \in 1 .. Len(csv) PROVE LabelledNext(csv[i])
    <3>1. csv[i] \in Sample
      BY <1>1
    <3>2. Labelled(csv[i]) /\ csv[i].end <= clock
      BY DEF LabelsInv, WindowsInv
    <3>. HIDE DEF LabelledNext
    <3>. QED BY <2>3, <3>1, <3>2
  <2>5. ASSUME pc = "write" PROVE LabelledNext(win)
    <3>1. win \in Sample
      BY DEF TelTyped, TelTypeOK
    <3>2. Labelled(win) /\ win.end <= clock
      BY <2>5 DEF LabelsInv, WindowsInv, Collecting
    <3>. HIDE DEF LabelledNext
    <3>. QED BY <2>3, <3>1, <3>2
  <2>. QED BY <2>1, <2>4, <2>5 DEF LabelsInv, Labelled
<1>6. CASE Start \/ captureBaseline \/ ReadStat \/ BeginWindow \/ Diff
           \/ CountEntries \/ consume \/ currentTelemetryTargetState
           \/ SkipWindow \/ WriteRefused \/ Kill
  <2>1. UNCHANGED <<events, known, csv>> /\ pc' # "write"
    BY <1>6 DEF Start, captureBaseline, ReadStat, BeginWindow, Diff, CountEntries,
                consume, currentTelemetryTargetState, SkipWindow, WriteRefused, Kill,
                worldVars, fileVars
  <2>. QED BY <1>3, <2>1
<1>7. CASE Label
  <2>. DEFINE l == LabelWindow(win.start, win.end)
  <2>1. /\ win' = [win EXCEPT !.label = l.label, !.anomaly = l.anomaly,
                              !.recovery = l.recovery,
                              !.backendDelta = win.total - previousBackend]
        /\ UNCHANGED <<events, known, csv>>
    BY <1>7 DEF Label, worldVars, fileVars
  <2>. HIDE DEF l
  <2>2. /\ win'.start = win.start /\ win'.end = win.end
        /\ win'.anomaly = l.anomaly /\ win'.recovery = l.recovery
    BY <2>1 DEF TelTyped, TelTypeOK, Sample
  <2>3. Labelled(win')
    BY <1>1, <2>2, LabelHit DEF Labelled, l
  <2>4. \A i \in 1 .. Len(csv) : Labelled(csv[i])
    BY DEF LabelsInv
  <2>. QED BY <2>1, <2>3, <2>4 DEF LabelsInv, Labelled, loadEvents
<1>8. CASE WriteSample
  <2>1. /\ csv' = Append(csv, win) /\ pc = "write" /\ pc' = "wait"
        /\ UNCHANGED <<events, known>>
    BY <1>8 DEF WriteSample, worldVars
  <2>2. \A i \in 1 .. Len(csv') : csv'[i] = win \/ \E j \in 1 .. Len(csv) : csv'[i] = csv[j]
    BY <1>1, <2>1
  <2>3. \A i \in 1 .. Len(csv') : Labelled(csv'[i])
    BY <2>1, <2>2 DEF LabelsInv
  <2>. QED BY <2>1, <2>3 DEF LabelsInv, Labelled, loadEvents
<1>9. CASE UNCHANGED telVars
  BY <1>3, <1>9 DEF telVars, worldVars, collVars, fileVars
<1>. QED
  BY <1>4, <1>5, <1>6, <1>7, <1>8, <1>9 DEF TelNext, runTelemetry, collectWindow

\* KnownEventLabelled: a window that overlaps an event which was in the log
\* before the window ended is never labelled as normal.
THEOREM KnownEventLabelledHolds == TelSpec => []KnownEventLabelled
<1>1. TelInit => LabelsInv
  BY DEF TelInit, LabelsInv
<1>2. LabelsInv => KnownEventLabelled
  BY DEF LabelsInv, Labelled, KnownEventLabelled
<1>. QED
  BY <1>1, <1>2, InitTyped, TypedStep, InitWindows, WindowsStep, LabelsStep, PTL
  DEF TelSpec

=============================================================================
