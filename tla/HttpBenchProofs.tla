--------------------------- MODULE HttpBenchProofs ---------------------------
(* The benchmark counts what it measures, for any number of threads, any    *)
(* warmup and any duration.                                                 *)
EXTENDS HttpBench, TLAPS

ThreadState ==
    [at : {"new", "check", "sample", "wait", "read", "close", "done"},
     connection : BOOLEAN, current : Nat, in_measurement : BOOLEAN]

RequestRow == [worker : Worker, started : Nat, ts : Nat, ok : BOOLEAN]

BenchTyped ==
    /\ clock \in Nat
    /\ thread \in [Worker -> ThreadState]
    /\ sockets \in [Worker -> Nat]
    /\ request_rows \subseteq RequestRow

\* A thread has a socket as long as it has a connection, waits on one, and ends
\* without.
Connected ==
    \A w \in Worker :
        /\ sockets[w] = IF thread[w].connection THEN 1 ELSE 0
        /\ thread[w].at \in {"new", "done"} => ~thread[w].connection
        /\ thread[w].at \in {"wait", "read"} => thread[w].connection

\* What a thread has decided about its request is what the clock said, so the
\* list and the requests are the same at any time.
Recorded ==
    /\ request_rows = sent
    /\ \A w \in Worker :
          thread[w].at \in {"wait", "read"}
          => (thread[w].in_measurement <=> thread[w].current >= measure_start)

\* A thread that passed the check had no late row when it did, and the clock
\* does not go back.
OnceLate ==
    /\ \A row \in request_rows : row.started >= measure_start /\ row.ts <= clock
    /\ \A w \in Worker : thread[w].at \in {"sample", "wait", "read"} =>
          \A row \in request_rows : row.worker = w => row.ts <= measure_end
    /\ \A row, other \in request_rows :
          row.worker = other.worker /\ row.ts > measure_end /\ other.ts > measure_end
          => row = other

BenchInv == BenchTyped /\ Connected /\ Recorded /\ OnceLate

LEMMA MeasureTimes == measure_start \in Nat /\ measure_end \in Nat
BY BenchAssumption DEF BenchAssumption, measure_start, measure_end

LEMMA FreshThreads ==
    ASSUME clock' = 0, request_rows' = {}, sent' = {},
           sockets' = [w \in Worker |-> 0],
           NEW at \in {"new", "check"},
           thread' = [w \in Worker |-> [NotStarted EXCEPT !.at = at]]
    PROVE  BenchInv'
BY DEF BenchInv, BenchTyped, Connected, Recorded, OnceLate, NotStarted, ThreadState

LEMMA InitBench == BenchInit => BenchInv
BY DEF BenchInit, BenchInv, BenchTyped, Connected, Recorded, OnceLate, NotStarted, ThreadState

LEMMA StepBench == BenchInv /\ [BenchNext]_benchVars => BenchInv'
<1> SUFFICES ASSUME BenchInv, [BenchNext]_benchVars PROVE BenchInv'
  OBVIOUS
<1> USE MeasureTimes
<1>1. CASE StartThreads
  <2>1. thread' = [w \in Worker |-> [NotStarted EXCEPT !.at = "check"]]
    BY <1>1 DEF StartThreads
  <2> QED BY <1>1, <2>1, FreshThreads DEF StartThreads
<1>2. CASE StopThreads
  <2>1. thread' = [w \in Worker |-> [NotStarted EXCEPT !.at = "new"]]
    BY <1>2 DEF StopThreads, NotStarted
  <2> QED BY <1>2, <2>1, FreshThreads DEF StopThreads
<1>3. CASE BenchTick
  BY <1>3 DEF BenchTick, BenchInv, BenchTyped, Connected, Recorded, OnceLate, RequestRow
<1>4. ASSUME NEW w \in Worker, CheckDeadline(w) PROVE BenchInv'
  <2>1. BenchTyped' /\ Connected' /\ Recorded'
    BY <1>4 DEF CheckDeadline, Goto, BenchInv, BenchTyped, Connected, Recorded, ThreadState
  <2>2. thread'[w].at = "sample" => clock < measure_end
    BY <1>4 DEF CheckDeadline, Goto, BenchInv, BenchTyped, ThreadState
  <2>3. \A v \in Worker \ {w} : thread'[v] = thread[v]
    BY <1>4 DEF CheckDeadline, Goto, BenchInv, BenchTyped
  <2>4. thread'[w].at \in {"sample", "close"}
    BY <1>4 DEF CheckDeadline, Goto, BenchInv, BenchTyped, ThreadState
  <2>5. OnceLate'
    BY <1>4, <2>2, <2>3, <2>4
    DEF CheckDeadline, BenchInv, BenchTyped, OnceLate, RequestRow
  <2> QED BY <2>1, <2>5 DEF BenchInv
<1>5. ASSUME NEW w \in Worker, Send(w) PROVE BenchInv'
  <2>1. BenchTyped'
    <3>1. InMeasurement(clock) \in BOOLEAN
      BY DEF InMeasurement, BenchInv, BenchTyped
    <3> DEFINE next == [thread[w] EXCEPT !.at = "wait", !.connection = TRUE, !.current = clock,
                                          !.in_measurement = InMeasurement(clock)]
    <3>2. next \in ThreadState
      BY <3>1 DEF BenchInv, BenchTyped, ThreadState
    <3>3. thread' = [thread EXCEPT ![w] = next] /\ UNCHANGED <<clock, request_rows>>
      BY <1>5 DEF Send, Goto
    <3>4. sockets' \in [Worker -> Nat]
      BY <1>5 DEF Send, BenchInv, BenchTyped
    <3> HIDE DEF next
    <3> QED BY <3>2, <3>3, <3>4 DEF BenchInv, BenchTyped
  <2>2. Connected'
    BY <1>5 DEF Send, Goto, BenchInv, BenchTyped, Connected, ThreadState
  <2>3. Recorded'
    BY <1>5 DEF Send, Goto, InMeasurement, BenchInv, BenchTyped, Recorded, ThreadState
  <2>4. OnceLate'
    BY <1>5 DEF Send, Goto, BenchInv, BenchTyped, OnceLate, ThreadState
  <2> QED BY <2>1, <2>2, <2>3, <2>4 DEF BenchInv
<1>6. ASSUME NEW w \in Worker, Receive(w) PROVE BenchInv'
  <2>1. PICK ok \in BOOLEAN, raised \in BOOLEAN :
          /\ thread' = [thread EXCEPT ![w] = [NotStarted EXCEPT !.at = "check", !.connection = ~raised]]
          /\ request_rows' = request_rows \union RecordedRows(w, ok)
          /\ sent' = sent \union {row \in {RowOf(w, ok)} : row.started >= measure_start}
          /\ sockets' = IF raised THEN [sockets EXCEPT ![w] = @ - 1] ELSE sockets
    BY <1>6 DEF Receive, Goto, CloseOnError
  <2>2. thread[w].at \in {"wait", "read"} /\ clock' = clock
    BY <1>6 DEF Receive
  <2>3. RowOf(w, ok) \in RequestRow
    BY DEF RowOf, RequestRow, BenchInv, BenchTyped, ThreadState
  <2>4. RowOf(w, ok).started = thread[w].current /\ RowOf(w, ok).ts = clock
        /\ RowOf(w, ok).worker = w
    BY DEF RowOf
  <2>5. thread[w].in_measurement <=> thread[w].current >= measure_start
    BY <2>2 DEF BenchInv, Recorded
  <2>6. BenchTyped'
    <3>1. thread' \in [Worker -> ThreadState]
      BY <2>1 DEF NotStarted, BenchInv, BenchTyped, ThreadState
    <3>2. request_rows' \subseteq RequestRow
      BY <2>1, <2>3 DEF RecordedRows, BenchInv, BenchTyped
    <3>3. sockets' \in [Worker -> Nat]
      <4>1. sockets[w] = 1
        BY <2>2 DEF BenchInv, Connected
      <4> QED BY <2>1, <4>1 DEF BenchInv, BenchTyped
    <3> QED BY <2>2, <3>1, <3>2, <3>3 DEF BenchInv, BenchTyped
  <2>7. Connected'
    <3>1. sockets[w] = 1
      BY <2>2 DEF BenchInv, Connected
    <3>2. sockets'[w] = IF raised THEN 0 ELSE 1
      BY <2>1, <3>1 DEF BenchInv, BenchTyped
    <3>3. thread'[w].connection = ~raised /\ thread'[w].at = "check"
      BY <2>1 DEF NotStarted, BenchInv, BenchTyped
    <3>4. \A v \in Worker \ {w} : thread'[v] = thread[v] /\ sockets'[v] = sockets[v]
      BY <2>1 DEF BenchInv, BenchTyped
    <3> QED BY <3>2, <3>3, <3>4 DEF BenchInv, Connected
  <2>8. Recorded'
    <3>1. RecordedRows(w, ok) = {row \in {RowOf(w, ok)} : row.started >= measure_start}
      BY <2>4, <2>5 DEF RecordedRows
    <3>2. request_rows' = sent'
      BY <2>1, <3>1 DEF BenchInv, Recorded
    <3>3. \A v \in Worker : thread'[v].at \in {"wait", "read"} => thread'[v] = thread[v]
      BY <2>1 DEF NotStarted, BenchInv, BenchTyped, ThreadState
    <3> QED BY <3>2, <3>3 DEF BenchInv, Recorded
  <2>9. OnceLate'
    <3>1. \A row \in request_rows' : row \in request_rows \/ row = RowOf(w, ok)
      BY <2>1 DEF RecordedRows
    <3>2. RowOf(w, ok) \in request_rows' /\ RowOf(w, ok) \notin request_rows
          => thread[w].current >= measure_start
      BY <2>1, <2>5 DEF RecordedRows
    <3>3. \A row \in request_rows : row.worker = w => row.ts <= measure_end
      BY <2>2 DEF BenchInv, OnceLate
    <3>4. \A v \in Worker : thread'[v].at \in {"sample", "wait", "read"} => v # w /\ thread'[v] = thread[v]
      BY <2>1 DEF NotStarted, BenchInv, BenchTyped, ThreadState
    <3>5. \A row \in request_rows' : row.started >= measure_start /\ row.ts <= clock'
      BY <2>2, <2>4, <3>1, <3>2 DEF BenchInv, BenchTyped, OnceLate, RequestRow
    <3>6. \A v \in Worker : thread'[v].at \in {"sample", "wait", "read"} =>
            \A row \in request_rows' : row.worker = v => row.ts <= measure_end
      BY <2>4, <3>1, <3>4 DEF BenchInv, OnceLate
    <3>7. \A row, other \in request_rows' :
            row.worker = other.worker /\ row.ts > measure_end /\ other.ts > measure_end
            => row = other
      <4> SUFFICES ASSUME NEW row \in request_rows', NEW other \in request_rows',
                          row.worker = other.worker, row.ts > measure_end, other.ts > measure_end
                   PROVE  row = other
        OBVIOUS
      <4>1. row \in RequestRow /\ other \in RequestRow
        BY <2>6 DEF BenchTyped
      <4>2. CASE row \in request_rows /\ other \in request_rows
        BY <4>2 DEF BenchInv, OnceLate
      <4>3. CASE row \notin request_rows /\ other \notin request_rows
        BY <3>1, <4>3
      <4>4. CASE row \in request_rows /\ other \notin request_rows
        BY <2>4, <3>1, <3>3, <4>1, <4>4 DEF RequestRow
      <4>5. CASE row \notin request_rows /\ other \in request_rows
        BY <2>4, <3>1, <3>3, <4>1, <4>5 DEF RequestRow
      <4> QED BY <4>2, <4>3, <4>4, <4>5
    <3> QED BY <3>5, <3>6, <3>7 DEF OnceLate, measure_start, measure_end
  <2> QED BY <2>6, <2>7, <2>8, <2>9 DEF BenchInv
<1>7. ASSUME NEW w \in Worker, Close(w) PROVE BenchInv'
  <2>1. sockets[w] = (IF thread[w].connection THEN 1 ELSE 0) /\ sockets[w] \in Nat
    BY DEF BenchInv, BenchTyped, Connected
  <2>2. thread' = [thread EXCEPT ![w] = [NotStarted EXCEPT !.at = "done"]]
        /\ sockets' = [sockets EXCEPT ![w] = 0] /\ UNCHANGED <<clock, request_rows>>
    <3>1. (IF thread[w].connection THEN sockets[w] - 1 ELSE sockets[w]) = 0
      BY <2>1
    <3> QED BY <1>7, <3>1 DEF Close, Goto
  <2>3. BenchTyped'
    BY <2>2 DEF NotStarted, BenchInv, BenchTyped, ThreadState
  <2>4. Connected'
    BY <2>2 DEF NotStarted, BenchInv, BenchTyped, Connected
  <2>5. Recorded' /\ OnceLate'
    BY <1>7 DEF Close, Goto, NotStarted, BenchInv, BenchTyped, Recorded, OnceLate, ThreadState
  <2> QED BY <2>3, <2>4, <2>5 DEF BenchInv
<1>8. CASE UNCHANGED benchVars
  BY <1>8 DEF benchVars, BenchInv, BenchTyped, Connected, Recorded, OnceLate, measure_start, measure_end
<1>9. ASSUME NEW w \in Worker, Drip(w) PROVE BenchInv'
  <2> DEFINE next == [thread[w] EXCEPT !.at = "read"]
  <2>1. next \in ThreadState
    BY DEF BenchInv, BenchTyped, ThreadState
  <2>2. /\ thread' = [thread EXCEPT ![w] = next] /\ thread[w].at = "wait"
        /\ UNCHANGED <<clock, request_rows, sent, sockets>>
    BY <1>9 DEF Drip, Goto
  <2>3. BenchTyped'
    <3> HIDE DEF next
    <3> QED BY <2>1, <2>2 DEF BenchInv, BenchTyped
  <2>4. Connected' /\ Recorded' /\ OnceLate'
    BY <2>2 DEF BenchInv, BenchTyped, Connected, Recorded, OnceLate, ThreadState
  <2> QED BY <2>3, <2>4 DEF BenchInv
<1> QED BY <1>1, <1>2, <1>3, <1>4, <1>5, <1>6, <1>7, <1>8, <1>9 DEF BenchNext, BenchStep, worker

LEMMA BenchInvariant == BenchSpec => []BenchInv
BY InitBench, StepBench, PTL DEF BenchSpec

\* Every row the benchmark counts began in the measurement, and a thread has at
\* most one that was answered after it (phase5_http_bench.py:92), whatever the
\* number of threads and the durations.
THEOREM RowsOfTheMeasurement == BenchSpec => []LateRows
<1>1. BenchInv => LateRows
  BY DEF BenchInv, OnceLate, LateRows
<1> QED BY <1>1, BenchInvariant, PTL

\* The list holds each request of the measurement, failed ones too, and each
\* thread closes the connections it opens (phase5_http_bench.py:60, 106).
THEOREM NothingUncounted == BenchSpec => []EveryRequestCounted
<1>1. BenchInv => EveryRequestCounted
  BY DEF BenchInv, BenchTyped, Connected, Recorded, EveryRequestCounted, ThreadState
<1> QED BY <1>1, BenchInvariant, PTL

=============================================================================
