----------------------------- MODULE HttpBench -----------------------------
(* phase5_http_bench.py: worker threads that send requests one after the    *)
(* other over a kept connection until the measurement is over, and record   *)
(* those that began after the warmup. Time is the monotonic clock since the *)
(* start of the script; a request takes at least one tick.                  *)
EXTENDS Naturals, FiniteSets

CONSTANTS
    Worker,    \* the threads (--concurrency of them)
    Warmup,    \* --warmup-seconds, in ticks
    Duration,  \* --duration-seconds, in ticks
    LastTick   \* bound of the clock

ASSUME BenchAssumption ==
    /\ IsFiniteSet(Worker)
    /\ Warmup \in Nat /\ Duration \in Nat
    /\ LastTick \in Nat /\ LastTick > Warmup + Duration

VARIABLES
    clock,
    thread,        \* the state of each thread
    request_rows,  \* what the threads recorded
    sent,          \* ghost: every request that began in the measurement
    sockets        \* ghost: connections of a thread that are open

benchVars == <<clock, thread, request_rows, sent, sockets>>

measure_start == Warmup
measure_end == Warmup + Duration

\* A thread that does not run.
NotStarted == [at |-> "new", connection |-> FALSE, current |-> 0, in_measurement |-> FALSE]

BenchInit ==
    /\ clock = 0
    /\ thread = [w \in Worker |-> NotStarted]
    /\ request_rows = {}
    /\ sent = {}
    /\ sockets = [w \in Worker |-> 0]

\* main starts the threads of a new launch.
StartThreads ==
    /\ clock' = 0
    /\ thread' = [w \in Worker |-> [NotStarted EXCEPT !.at = "check"]]
    /\ request_rows' = {}
    /\ sent' = {}
    /\ sockets' = [w \in Worker |-> 0]

\* The threads are daemons: they, and their sockets, go with the process.
StopThreads ==
    /\ clock' = 0
    /\ thread' = [w \in Worker |-> NotStarted]
    /\ request_rows' = {}
    /\ sent' = {}
    /\ sockets' = [w \in Worker |-> 0]

Joined == \A w \in Worker : thread[w].at = "done"
Benching == \E w \in Worker : thread[w].at \notin {"new", "done"}

Goto(w, state) == thread' = [thread EXCEPT ![w] = state]

\* Mutant of CheckDeadline: a thread goes on as long as it is connected.
CheckConnection(w) ==
    /\ thread[w].at = "check"
    /\ Goto(w, [thread[w] EXCEPT !.at = IF clock < measure_end \/ thread[w].connection
                                          THEN "sample" ELSE "close"])
    /\ UNCHANGED <<clock, request_rows, sent, sockets>>

\* while time.monotonic() < measure_end; the clock is read again for current.
CheckDeadline(w) ==
    /\ thread[w].at = "check"
    /\ Goto(w, [thread[w] EXCEPT !.at = IF clock < measure_end THEN "sample" ELSE "close"])
    /\ UNCHANGED <<clock, request_rows, sent, sockets>>

\* Mutant of InMeasurement: the other end of the interval.
NotOver(current) == current < measure_end

InMeasurement(current) == current >= measure_start

\* current and in_measurement, then request_once up to the request: it opens a
\* connection if the last one was dropped.
Send(w) ==
    /\ thread[w].at = "sample"
    /\ Goto(w, [thread[w] EXCEPT !.at = "wait", !.connection = TRUE, !.current = clock,
                                 !.in_measurement = InMeasurement(clock)])
    /\ sockets' = [sockets EXCEPT ![w] = IF thread[w].connection THEN @ ELSE @ + 1]
    /\ UNCHANGED <<clock, request_rows, sent>>

RowOf(w, ok) == [worker |-> w, started |-> thread[w].current, ts |-> clock, ok |-> ok]

\* Mutant of RecordedRows: failed requests are left out.
SuccessRows(w, ok) == IF thread[w].in_measurement /\ ok THEN {RowOf(w, ok)} ELSE {}

\* The rows a request leaves for the list: one, if it is measured.
RecordedRows(w, ok) == IF thread[w].in_measurement THEN {RowOf(w, ok)} ELSE {}

CloseOnError(w) == sockets' = [sockets EXCEPT ![w] = @ - 1]

\* A piece of an answer comes in time, and not the last one: the timeout of two
\* seconds is of each operation of the socket, response.read() has none.
Drip(w) ==
    /\ thread[w].at = "wait"
    /\ Goto(w, [thread[w] EXCEPT !.at = "read"])
    /\ UNCHANGED <<clock, request_rows, sent, sockets>>

\* The answer, of any status, or an exception: the connection is then closed
\* and a new one is opened for the next request. The row is appended under the
\* lock.
Receive(w) ==
    /\ thread[w].at \in {"wait", "read"}
    /\ clock > thread[w].current \/ clock = LastTick
    /\ \E ok \in BOOLEAN, raised \in BOOLEAN :
          /\ raised => ~ok
          /\ Goto(w, [NotStarted EXCEPT !.at = "check", !.connection = ~raised])
          /\ request_rows' = request_rows \union RecordedRows(w, ok)
          /\ sent' = sent \union {row \in {RowOf(w, ok)} : row.started >= measure_start}
          /\ IF raised THEN CloseOnError(w) ELSE UNCHANGED sockets
    /\ UNCHANGED clock

\* finally: what is still connected is closed, the thread ends.
Close(w) ==
    /\ thread[w].at = "close"
    /\ Goto(w, [NotStarted EXCEPT !.at = "done"])
    /\ sockets' = [sockets EXCEPT ![w] = IF thread[w].connection THEN @ - 1 ELSE @]
    /\ UNCHANGED <<clock, request_rows, sent>>

BenchTick ==
    /\ Benching
    /\ clock < LastTick
    /\ clock' = clock + 1
    /\ UNCHANGED <<thread, request_rows, sent, sockets>>

worker(w) == CheckDeadline(w) \/ Send(w) \/ Drip(w) \/ Receive(w) \/ Close(w)

\* What a thread does whatever the server does: a server that says nothing at
\* all is given up after two seconds, one that sends piece after piece is not.
GoesOn(w) ==
    \/ CheckDeadline(w) \/ Send(w) \/ Close(w)
    \/ thread[w].at = "wait" /\ Receive(w)

BenchStep == BenchTick \/ \E w \in Worker : worker(w)

BenchNext == StartThreads \/ StopThreads \/ BenchStep

BenchSpec == BenchInit /\ [][BenchNext]_benchVars

---------------------------------------------------------------------------
(* Properties *)

\* What the benchmark divides by the length of the measurement is of the
\* measurement: every row began after the warmup, and a thread, which looks at
\* the clock before each request, has at most one that was answered late
\* (phase5_http_bench.py:92).
LateRows ==
    /\ \A row \in request_rows : row.started >= measure_start
    /\ \A row, other \in request_rows :
          row.worker = other.worker /\ row.ts > measure_end /\ other.ts > measure_end
          => row = other

\* When the threads are joined, the list holds every request that began in the
\* measurement, failed ones too, and no connection is left open; a thread never
\* has two (phase5_http_bench.py:60, 106).
EveryRequestCounted ==
    /\ \A w \in Worker : sockets[w] \in {0, 1} /\ (thread[w].at = "done" => sockets[w] = 0)
    /\ Joined => request_rows = sent

=============================================================================
