------------------------- MODULE TelemetryDelivery -------------------------
(***************************************************************************)
(* How a measurement reaches the server: the latest-value slot and the     *)
(* backoff of components/pm_telemetry/pm_telemetry.c, the scheduler, the   *)
(* Wi-Fi recovery and the network task of                                  *)
(* components/pm_network/pm_network_v2.c, and the measurement task that    *)
(* fills the slot.  The Wi-Fi driver and the server are external.          *)
(*                                                                         *)
(* Time advances in ticks, and deadlines are kept relative to the present: *)
(* due is next_telemetry_us minus now, wait is next_attempt_us minus now.  *)
(* The network task polls every 100 ms, so a tick never passes it by while *)
(* it has something to do.  A sample is its sequence number; commands and  *)
(* results that travel with it are CommandRuntime's.                       *)
(***************************************************************************)
EXTENDS Integers, FiniteSets

CONSTANTS Second,         \* ticks of the first backoff, 1000 ms in the code
          MaxExponent,    \* where the doubling stops, 6 in the code
          Cap,            \* the longest delay, 60000 ms in the code
          Word,           \* how many values a uint32_t has
          MaxFailures,    \* where the failure counters saturate, UINT32_MAX
          Periods,        \* the cadences the server may choose, in ticks
          FirstPeriod,    \* CONFIG_PM_TELEMETRY_INTERVAL_SECONDS
          RequestTimeout, \* the longest request, in ticks
          JoinTimeout,    \* the longest wait for an association, in ticks
          MaxSequence,    \* stands for UINT64_MAX, where an offer is refused
          MaxOutages      \* bound on the outages of a behaviour

ASSUME TelemetryAssumption ==
    /\ Second \in Nat \ {0} /\ MaxExponent \in Nat
    /\ Cap \in Nat \ {0} /\ Word \in Nat \ {0} /\ MaxFailures \in Nat \ {0}
    /\ Periods \subseteq Nat \ {0} /\ FirstPeriod \in Periods
    /\ \E p \in Periods : \A q \in Periods : q <= p
    /\ RequestTimeout \in Nat /\ JoinTimeout \in Nat
    /\ MaxSequence \in Nat \ {0} /\ MaxOutages \in Nat

VARIABLES pending,   \* slot->pending, 0 when absent
          inFlight,  \* slot->in_flight, 0 when absent
          next,      \* slot->next_sequence
          replaced,  \* slot->replaced_pending
          failed,    \* slot->failed_transmissions
          accepted,  \* how many samples the task knows to be accepted
          wire,      \* requests that may still reach the server
          stored,    \* samples the server has committed
          pc,        \* where the network task is
          due,       \* ticks until the next telemetry, negative when overdue
          period,    \* the cadence
          srv,       \* server_backoff
          wifi,      \* wifi_backoff
          spent,     \* ticks the current request or association has taken
          link,      \* the Wi-Fi driver
          bits,      \* s_wifi_events
          outage,    \* whether the access point or the server fails the sensor
          outages    \* outages so far (bounded)

slotVars == <<pending, inFlight, next, replaced, failed, accepted>>
serverVars == <<wire, stored>>
timers == <<due, period, srv, wifi, spent>>
wifiVars == <<link, bits>>
world == <<outage, outages>>
vars == <<slotVars, serverVars, pc, timers, wifiVars, world>>

Least(a, b) == IF a <= b THEN a ELSE b
Greatest(a, b) == IF a >= b THEN a ELSE b
LongestPeriod == CHOOSE p \in Periods : \A q \in Periods : q <= p

\* The longest time a deadline can lie in the past before it is set anew.
MaxLag == Greatest(RequestTimeout, 1)

Backoff == [failures : 0 .. MaxFailures, wait : 0 .. Cap]

\* The type invariant: no backoff exceeds its cap, no deadline lies further in
\* the past than one request takes, and the failure counters saturate.
TypeOK ==
    /\ pending \in 0 .. MaxSequence /\ inFlight \in 0 .. MaxSequence
    /\ next \in 1 .. MaxSequence
    /\ replaced \in Nat /\ failed \in Nat /\ accepted \in Nat
    /\ wire \in SUBSET (1 .. MaxSequence) /\ stored \in SUBSET (1 .. MaxSequence)
    /\ pc \in {"connect", "joining", "loop", "request"}
    /\ due \in -MaxLag .. Greatest(Cap, LongestPeriod) /\ period \in Periods
    /\ srv \in Backoff /\ wifi \in Backoff
    /\ spent \in 0 .. Greatest(RequestTimeout, JoinTimeout)
    /\ link \in {"down", "joining", "up"}
    /\ bits \in SUBSET {"connected", "failed"}
    /\ outage \in BOOLEAN /\ outages \in 0 .. MaxOutages

-----------------------------------------------------------------------------
(***************************************************************************)
(* Backoff and cadence.                                                    *)
(***************************************************************************)
Reset == [failures |-> 0, wait |-> 0]

\* pm_telemetry_backoff_fail(): a shift of a 32-bit word, capped, with jitter.
Delay(failures, random) ==
    LET base == (Second * 2 ^ Least(failures, MaxExponent)) % Word
        capped == Least(base, Cap)
        jittered == capped - (capped \div 8) + (random % ((capped \div 4) + 1))
    IN  Least(jittered, Cap)

Failed(b, random) == [failures |-> Least(b.failures + 1, MaxFailures),
                      wait |-> Delay(b.failures, random)]

\* Fault of NextFixedDeadline: the cadence starts anew with every completion.
DeadlineFromNow(previous, now, length) == now + length

\* pm_telemetry_next_fixed_deadline(), in absolute times.
NextFixedDeadline(previous, now, length) ==
    IF previous < 0 \/ now < 0 \/ length <= 0 THEN now
    ELSE IF previous > now THEN previous
    ELSE previous + ((now - previous) \div length + 1) * length

\* The same relative to the present; MaxLag keeps the times positive.
NextDue(length) == NextFixedDeadline(MaxLag + due, MaxLag, length) - MaxLag

-----------------------------------------------------------------------------
\* pm_network_start(): the task, its scheduler and an empty slot.
Init ==
    /\ pending = 0 /\ inFlight = 0 /\ next = 1
    /\ replaced = 0 /\ failed = 0 /\ accepted = 0
    /\ wire = {} /\ stored = {}
    /\ pc = "connect"
    /\ due = 0 /\ period = FirstPeriod /\ srv = Reset /\ wifi = Reset /\ spent = 0
    /\ link = "down" /\ bits = {}
    /\ outage = FALSE /\ outages = 0

(***************************************************************************)
(* The measurement task: pm_network_publish_live().                        *)
(***************************************************************************)
\* Fault of Offer: a sample that finds the slot taken is not counted.
OfferUncounted ==
    /\ next < MaxSequence
    /\ pending' = next /\ next' = next + 1
    /\ UNCHANGED <<inFlight, replaced, failed, accepted, serverVars, pc, timers,
                   wifiVars, world>>

Offer ==
    /\ next < MaxSequence
    /\ pending' = next /\ next' = next + 1
    /\ replaced' = IF pending # 0 THEN replaced + 1 ELSE replaced
    /\ UNCHANGED <<inFlight, failed, accepted, serverVars, pc, timers, wifiVars,
                   world>>

-----------------------------------------------------------------------------
(***************************************************************************)
(* Wi-Fi recovery: connect_wifi_bounded() and the first half of the loop.  *)
(***************************************************************************)
WifiFailed ==
    /\ \E random \in 0 .. Cap : wifi' = Failed(wifi, random)
    /\ pc' = "connect" /\ spent' = 0
    /\ UNCHANGED <<due, period, srv>>

\* Both event bits are cleared, then the driver is asked to associate.  A station
\* that has an address already associates anew, or stays up and signals nothing:
\* that is the driver's choice.
Connect ==
    /\ pc = "connect" /\ wifi.wait = 0
    /\ bits' = {}
    /\ link' = "joining" \/ (link = "up" /\ link' = "up")
    /\ pc' = "joining" /\ spent' = 0
    /\ UNCHANGED <<slotVars, serverVars, due, period, srv, wifi, world>>

\* esp_wifi_connect() returns an error.
ConnectRefused ==
    /\ pc = "connect" /\ wifi.wait = 0 /\ outage
    /\ bits' = {}
    /\ WifiFailed
    /\ UNCHANGED <<slotVars, serverVars, link, world>>

\* Fault of Joined: only the Wi-Fi backoff is reset.
JoinedKeepsBackoff ==
    /\ pc = "joining" /\ "connected" \in bits
    /\ wifi' = Reset /\ due' = 0
    /\ pc' = "loop" /\ spent' = 0
    /\ UNCHANGED <<slotVars, serverVars, srv, period, wifiVars, world>>

\* CONNECTED was signalled: both backoffs are reset and telemetry is due.
Joined ==
    /\ pc = "joining" /\ "connected" \in bits
    /\ wifi' = Reset /\ srv' = Reset /\ due' = 0
    /\ pc' = "loop" /\ spent' = 0
    /\ UNCHANGED <<slotVars, serverVars, period, wifiVars, world>>

\* FAILED was signalled, or the wait timed out.
NotJoined ==
    /\ pc = "joining" /\ "connected" \notin bits
    /\ "failed" \in bits \/ spent = JoinTimeout
    /\ WifiFailed
    /\ UNCHANGED <<slotVars, serverVars, wifiVars, world>>

\* The CONNECTED bit has gone.
LinkLost ==
    /\ pc = "loop" /\ "connected" \notin bits
    /\ pc' = "connect"
    /\ UNCHANGED <<slotVars, serverVars, timers, wifiVars, world>>

-----------------------------------------------------------------------------
(***************************************************************************)
(* Telemetry: send_current_telemetry() and pm_network_telemetry_complete().*)
(***************************************************************************)
TelemetryDue == /\ pc = "loop" /\ "connected" \in bits
                /\ due <= 0 /\ srv.wait = 0

\* pm_telemetry_begin_send(): the pending sample goes out.
Send ==
    /\ TelemetryDue
    /\ inFlight = 0 /\ pending # 0
    /\ inFlight' = pending /\ pending' = 0
    /\ wire' = wire \cup {pending}
    /\ pc' = "request" /\ spent' = 0
    /\ UNCHANGED <<next, replaced, failed, accepted, stored, due, period, srv,
                   wifi, wifiVars, world>>

Succeeded(length) ==
    /\ period' = length
    /\ srv' = Reset /\ due' = NextDue(length)
    /\ pc' = "loop" /\ spent' = 0
    /\ UNCHANGED wifi

\* ESP_ERR_NOT_FOUND, nothing to send, counts as success.
NothingToSend ==
    /\ TelemetryDue
    /\ inFlight # 0 \/ pending = 0
    /\ Succeeded(period)
    /\ UNCHANGED <<slotVars, serverVars, wifiVars, world>>

\* The response was authenticated and validated; it carries the cadence.
Accepted ==
    /\ pc = "request" /\ inFlight \in stored
    /\ \E length \in Periods : Succeeded(length)
    /\ inFlight' = 0 /\ accepted' = accepted + 1
    /\ UNCHANGED <<pending, next, replaced, failed, serverVars, wifiVars, world>>

\* Faults of Rejected: the sample is kept in flight, or put back to be sent again.
RejectedKeeps ==
    /\ pc = "request" /\ outage
    /\ \E random \in 0 .. Cap : srv' = Failed(srv, random)
    /\ due' = srv'.wait
    /\ pc' = "loop" /\ spent' = 0
    /\ failed' = failed + 1
    /\ UNCHANGED <<pending, inFlight, next, replaced, accepted, serverVars, period,
                   wifi, wifiVars, world>>
RejectedRetries ==
    /\ pc = "request" /\ outage
    /\ \E random \in 0 .. Cap : srv' = Failed(srv, random)
    /\ due' = srv'.wait
    /\ pc' = "loop" /\ spent' = 0
    /\ inFlight' = 0 /\ pending' = inFlight
    /\ replaced' = IF pending # 0 THEN replaced + 1 ELSE replaced
    /\ UNCHANGED <<next, failed, accepted, serverVars, period, wifi, wifiVars, world>>

\* No request, no response, or one that does not validate: the sample is dropped.
Rejected ==
    /\ pc = "request" /\ outage
    /\ \E random \in 0 .. Cap : srv' = Failed(srv, random)
    /\ due' = srv'.wait
    /\ pc' = "loop" /\ spent' = 0
    /\ inFlight' = 0 /\ failed' = failed + 1
    /\ UNCHANGED <<pending, next, replaced, accepted, serverVars, period, wifi,
                   wifiVars, world>>

-----------------------------------------------------------------------------
(***************************************************************************)
(* The world: driver events, the server, outages and the passing of time.  *)
(***************************************************************************)
\* IP_EVENT_STA_GOT_IP.
GotIp ==
    /\ link = "joining"
    /\ link' = "up" /\ bits' = (bits \ {"failed"}) \cup {"connected"}
    /\ UNCHANGED <<slotVars, serverVars, pc, timers, world>>

\* WIFI_EVENT_STA_DISCONNECTED.
Disconnected ==
    /\ outage /\ link # "down"
    /\ link' = "down" /\ bits' = (bits \ {"connected"}) \cup {"failed"}
    /\ UNCHANGED <<slotVars, serverVars, pc, timers, world>>

\* A request reaches the server, perhaps after the sensor gave up on it.
ServerStores(s) ==
    /\ s \in wire
    /\ wire' = wire \ {s} /\ stored' = stored \cup {s}
    /\ UNCHANGED <<slotVars, pc, timers, wifiVars, world>>

OutageBegins ==
    /\ ~outage /\ outages < MaxOutages
    /\ outage' = TRUE /\ outages' = outages + 1
    /\ UNCHANGED <<slotVars, serverVars, pc, timers, wifiVars>>

OutageEnds ==
    /\ outage /\ outage' = FALSE
    /\ UNCHANGED <<slotVars, serverVars, pc, timers, wifiVars, outages>>

Later(b) == [b EXCEPT !.wait = IF @ > 0 THEN @ - 1 ELSE 0]

\* An access point and a server that work answer before the task gives up.
InTime(limit) == spent < IF outage THEN limit ELSE limit - 1

\* The task is waiting: for a backoff, a deadline, the driver or the server.
Idle ==
    \/ pc = "connect" /\ wifi.wait > 0
    \/ pc = "joining" /\ bits = {} /\ (InTime(JoinTimeout) \/ (link = "up" /\ spent < JoinTimeout))
    \/ pc = "loop" /\ "connected" \in bits /\ ~TelemetryDue
    \/ pc = "request" /\ InTime(RequestTimeout)

Tick ==
    /\ Idle
    /\ due' = Greatest(due - 1, -MaxLag)
    /\ srv' = Later(srv) /\ wifi' = Later(wifi)
    /\ spent' = IF pc \in {"joining", "request"} THEN spent + 1 ELSE spent
    /\ UNCHANGED <<slotVars, serverVars, pc, period, wifiVars, world>>

-----------------------------------------------------------------------------
NetworkTask == \/ Connect \/ ConnectRefused \/ Joined \/ NotJoined \/ LinkLost
               \/ Send \/ NothingToSend \/ Accepted \/ Rejected

Next == \/ Offer \/ NetworkTask \/ GotIp \/ Disconnected
        \/ \E s \in wire : ServerStores(s)
        \/ OutageBegins \/ OutageEnds \/ Tick

Spec == Init /\ [][Next]_vars

\* The network task is scheduled and time passes; an access point and a server
\* that work answer.  Nothing is assumed of outages.
FairSpec == /\ Spec
            /\ WF_vars(NetworkTask) /\ WF_vars(Tick)
            /\ WF_vars(GotIp) /\ WF_vars(\E s \in wire : ServerStores(s))

-----------------------------------------------------------------------------
(***************************************************************************)
(* Properties.                                                             *)
(***************************************************************************)
\* No sample disappears unnoticed: every sequence number issued since the boot is
\* resident in the slot or counted as replaced, failed or accepted, whatever the
\* measurement task does while a request is under way.
EverySampleAccounted ==
    next - 1 = replaced + failed + accepted
                  + Cardinality({s \in {pending, inFlight} : s # 0})

\* docs/NETWORK_RELIABILITY.md:11 "recovery never waits for an old gap or
\* backlog": a request carries the newest sample, and one never sent before.
NewestIsSent ==
    [][inFlight' \notin {0, inFlight} =>
          inFlight' = next - 1 /\ inFlight' \notin wire \cup stored]_vars

\* next_telemetry_us and server_backoff.next_attempt_us are kept together: a
\* request whose deadline has come is never held up by a stale backoff
\* (docs/NETWORK_RELIABILITY.md:7 "the newest reading is immediately eligible").
TimersAgree == pc = "loop" => srv.wait <= Greatest(due, 0)

\* docs/NETWORK_RELIABILITY.md:11 "request latency does not accumulate into
\* cadence drift": a completed request leaves the next deadline in the future,
\* within one period, and a whole number of periods after the last one.
CadenceKept ==
    [][Accepted \/ NothingToSend =>
          0 < due' /\ due' <= period' /\ (due' - due) % period' = 0]_vars

\* connect_wifi_bounded() cleared the bit of an address that had come too late, and
\* the driver does not signal it again.
Unheard == pc = "joining" /\ link = "up" /\ bits = {}

\* A waiting sample is sent once the network works: no backoff and no association
\* timeout leaves the task waiting for ever, only a driver that is up and silent.
DeliveryResumes == (pending # 0 /\ ~outage) ~> (pending = 0 \/ outage \/ Unheard)

=============================================================================
