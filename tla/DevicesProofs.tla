---------------------------- MODULE DevicesProofs ----------------------------
(***************************************************************************)
(* The safety properties of simulated time and of the devices, for every   *)
(* geometry and speed of the disk, every period of the timer and of the    *)
(* serial line, and any number of characters.                              *)
(***************************************************************************)
EXTENDS Devices, ListProofs

-----------------------------------------------------------------------------
(* The inductive invariant *)

Modes == {"SYSTEM_MODE", "USER_MODE", "IDLE_MODE"}
Interrupts == [key : Nat, item : Types]
DiskStates == [active : BOOLEAN, lastSector : Sectors, bufferInit : Nat]
LastTick == MaxTicks + 2 * TimerTime

\* The clock and the list; only the last interrupt of the timer is later than
\* the bound on time.
ClockType ==
  /\ totalTicks \in Nat
  /\ totalTicks <= IF at = "halted" THEN LastTick ELSE MaxTicks
  /\ pending \in Seq(Interrupts)
  /\ \A m \in Members(pending) : m.item = "TIMER_INT" => m.key <= LastTick
  /\ disk \in DiskStates
  /\ machine \in Machines

CpuType ==
  /\ level \in {"ON", "OFF"} /\ yieldOnReturn \in BOOLEAN
  /\ status \in Modes /\ old \in {"SYSTEM_MODE", "USER_MODE"}
  /\ at \in {"run", "tick", "idle", "idling", "halted", "exited"}
  /\ thread \in {"running", "waiting", "ready", "gone"}

\* What the place in the code says of the mode, of the interrupt level and of
\* the thread.
Places ==
  /\ at \in {"run", "tick"} => thread = "running" /\ status # "IDLE_MODE"
  /\ at \in {"tick", "idle", "idling"} => level = "OFF"
  /\ at = "idle" => thread \in {"waiting", "gone"}
  /\ at = "idling" => thread # "running"
  /\ thread = "waiting" => disk.active

\* Each device has its interrupt in the list, once, as long as it is at work.
Expected(type) ==
  CASE type = "DISK_INT" -> disk.active
    [] type = "ACIA_SEND_INT" -> acia.outputStateRegister = "FULL"
    [] type = "ACIA_RECEIVE_INT" -> machine.acia
    [] type = "TIMER_INT" -> machine.timer # "none"

PendingInv ==
  /\ InOrder(pending)
  /\ \A type \in Types : Single(pending, type) /\ (Occurs(pending, type) <=> Expected(type))

\* The serial line: the registers, what is in them and what went over it.
LineType ==
  /\ acia \in [inputRegister : Nat, inputStateRegister : {"EMPTY", "FULL"},
               outputRegister : Nat, outputStateRegister : {"EMPTY", "FULL"},
               mode : SUBSET {"REC_INTERRUPT", "SEND_INTERRUPT"}]
  /\ line \in Seq(Characters) /\ got \in Seq(Characters) /\ sent \in Seq(Characters)
  /\ arrived \in 0..MaxChars /\ put \in 0..MaxChars

OutputInv ==
  /\ put = Len(sent) + (IF acia.outputStateRegister = "FULL" THEN 1 ELSE 0)
  /\ \A i \in 1..Len(sent) : sent[i] = i
  /\ acia.outputRegister = IF acia.outputStateRegister = "FULL" THEN put ELSE 0

\* The characters got, the one in the register and those on the line are in the
\* order of their arrival.
InputInv ==
  /\ acia.inputStateRegister = "FULL" => acia.inputRegister \in 1..arrived
  /\ acia.inputStateRegister = "EMPTY" => acia.inputRegister = 0
  /\ \A i \in 1..Len(got) : got[i] <= arrived
  /\ \A j \in 1..Len(line) : line[j] <= arrived
  /\ \A i, j \in 1..Len(got) : i < j => got[i] < got[j]
  /\ \A i, j \in 1..Len(line) : i < j => line[i] < line[j]
  /\ \A i \in 1..Len(got), j \in 1..Len(line) : got[i] < line[j]
  /\ acia.inputStateRegister = "FULL" =>
       /\ \A i \in 1..Len(got) : got[i] < acia.inputRegister
       /\ \A j \in 1..Len(line) : acia.inputRegister < line[j]

Requests == [issued : Nat, sector : Sectors, writing : BOOLEAN, from : Nat, since : Nat]

\* A time t is followed by the sector boundary time.
NextBoundary(t, time) ==
  \E b \in Nat : time = RotationTime * b /\ t <= time /\ time < t + RotationTime

\* What the driver's last request left: the head is over its sector, and the
\* track buffer starts at the first sector boundary since the head is there; its
\* interrupt, as long as it is pending, has the right time.
DiskInv ==
  /\ request \in Requests
  /\ disk.lastSector = request.sector
  /\ NextBoundary(SeekEnd(request), disk.bufferInit)
  /\ \A m \in Members(pending) : m.item = "DISK_INT" => EndsAt(request, m.key)

\* OnTime, over the elements of the list.
InTime ==
  at = "run" /\ level = "ON" =>
    /\ \A m \in Members(pending) : m.key > totalTicks
    /\ ~yieldOnReturn

IInv ==
  /\ ClockType /\ CpuType /\ LineType
  /\ Places
  /\ PendingInv
  /\ OutputInv /\ InputInv
  /\ DiskInv
  /\ InTime
  /\ HaltOnlyWhenQuiet

\* The constants, one fact per constant.
LEMMA Constants ==
  /\ SeekTime \in Nat /\ SeekTime > 0 /\ RotationTime \in Nat /\ RotationTime > 0
  /\ SectorsPerTrack \in Nat /\ SectorsPerTrack > 0 /\ NumTracks \in Nat /\ NumTracks > 0
  /\ TimerTime \in Nat /\ TimerTime > 0 /\ CheckTime \in Nat /\ CheckTime > 0
  /\ SendTime \in Nat /\ SendTime > 0
  /\ MaxTicks \in Nat /\ MaxChars \in Nat /\ Accesses \subseteq Nat
  /\ LastTick \in Nat /\ MaxTicks <= LastTick
  /\ \A m \in Machines : /\ m.timer \in {"none", "fixed", "random"}
                         /\ m.acia \in BOOLEAN /\ m.sectors \subseteq Sectors
BY DevicesAssumption DEF LastTick

\* The timer's next expiry, set at most twice TimerTime after a time the clock
\* still has, is not past the last tick.
LEMMA TimerBound ==
  \A t \in Nat, n \in 1..(2 * TimerTime) : t <= MaxTicks => t + n <= LastTick
<1>1. TimerTime \in Nat /\ MaxTicks \in Nat
  BY Constants
<1>2. \A a, b, t \in Nat : \A n \in 1..(2 * b) : t <= a => t + n <= a + 2 * b
  OBVIOUS
<1> QED BY ONLY <1>1, <1>2 DEF LastTick

-----------------------------------------------------------------------------
(* The time of a disk request *)

\* Products of naturals are naturals.
LEMMA Product ==
  ASSUME NEW a \in Nat, NEW b \in Nat
  PROVE  a * b \in Nat
OBVIOUS

\* A remainder is smaller than the divisor.
LEMMA Remainder ==
  ASSUME NEW a \in Int, NEW b \in Nat, b > 0
  PROVE  a % b \in 0..(b - 1)
OBVIOUS

\* A quotient of naturals is a natural.
LEMMA Quotient ==
  ASSUME NEW a \in Nat, NEW b \in Nat, b > 0
  PROVE  a \div b \in Nat
OBVIOUS

\* A number is its quotient times the divisor and its remainder.
LEMMA Division ==
  ASSUME NEW x \in Int, NEW r \in Nat, r > 0
  PROVE  /\ x \div r \in Int /\ x % r \in 0..(r - 1)
         /\ x = r * (x \div r) + (x % r)
<1>1. \A a, b \in Int : b > 0 => a = b * (a \div b) + (a % b)
  OBVIOUS
<1>2. x \div r \in Int /\ x % r \in 0..(r - 1)
  OBVIOUS
<1> QED BY <1>1, <1>2

\* Different multiples are at least the factor apart.
LEMMA Distinct ==
  ASSUME NEW a \in Int, NEW b \in Int, NEW r \in Nat, a < b
  PROVE  r * a + r <= r * b
<1>1. PICK c \in Nat : b = a + 1 + c
  <2>1. b - a - 1 \in Nat /\ b = a + 1 + (b - a - 1)
    OBVIOUS
  <2> QED BY <2>1
<1>2. r * (a + 1 + c) = r * a + r + r * c
  OBVIOUS
<1>3. r * c \in Nat /\ r * a \in Int
  OBVIOUS
<1> QED BY <1>1, <1>2, <1>3

\* Multiples of one factor are ordered as what they are multiples of.
LEMMA MultipleOrder ==
  ASSUME NEW a \in Int, NEW b \in Int, NEW r \in Nat, r > 0
  PROVE  /\ r * a \in Int /\ r * b \in Int
         /\ a <= b <=> r * a <= r * b
         /\ a < b <=> r * a < r * b
<1>1. a < b => r * a + r <= r * b
  BY Distinct
<1>2. b < a => r * b + r <= r * a
  BY Distinct
<1>3. r * a \in Int /\ r * b \in Int /\ (a = b => r * a = r * b)
  OBVIOUS
<1> QED BY <1>1, <1>2, <1>3

\* A multiple is divided without a remainder.
LEMMA ExactQuotient ==
  ASSUME NEW a \in Int, NEW r \in Nat, r > 0
  PROVE  (r * a) \div r = a /\ (r * a) % r = 0
<1>1. PICK x \in Int : x = r * a
  OBVIOUS
<1>2. PICK q \in Int, m \in 0..(r - 1) : q = x \div r /\ m = x % r /\ x = r * q + m
  BY Division
<1>3. ~(a < q) 
  <2>1. a < q => r * a + r <= r * q
    BY Distinct
  <2> QED BY <1>1, <1>2, <2>1
<1>4. ~(q < a) 
  <2>1. q < a => r * q + r <= r * a
    BY Distinct
  <2> QED BY <1>1, <1>2, <2>1
<1>5. q = a /\ m = 0
  BY <1>1, <1>2, <1>3, <1>4
<1> QED BY <1>1, <1>2, <1>5

\* Different numbers with one remainder are at least the divisor apart.
LEMMA SameRemainder ==
  ASSUME NEW x \in Int, NEW y \in Int, NEW r \in Nat, r > 0,
         x % r = y % r, x < y
  PROVE  x + r <= y
<1>0. /\ x \div r \in Int /\ x % r \in Int /\ x = r * (x \div r) + (x % r)
      /\ y \div r \in Int /\ y = r * (y \div r) + (y % r)
  BY Division
<1>1. PICK p \in Int, q \in Int, m \in Int : x = r * p + m /\ y = r * q + m
  BY <1>0, Zenon
<1>2. p < q
  <2>1. p < q <=> r * p < r * q
    BY MultipleOrder
  <2>2. r * p \in Int /\ r * q \in Int
    OBVIOUS
  <2> QED BY <1>1, <2>1, <2>2
<1>3. r * p + r <= r * q
  BY <1>2, Distinct
<1>4. r * p \in Int /\ r * q \in Int
  OBVIOUS
<1> QED BY <1>1, <1>3, <1>4

\* The remainder of a multiple and a number smaller than the divisor.
LEMMA RemainderOf ==
  ASSUME NEW q \in Int, NEW r \in Nat, r > 0, NEW m \in 0..(r - 1)
  PROVE  (r * q + m) % r = m
<1>1. PICK x \in Int : x = r * q + m
  OBVIOUS
<1>2. PICK p \in Int, k \in 0..(r - 1) : k = x % r /\ x = r * p + k
  BY Division
<1>3. r * p \in Int /\ r * q \in Int
  OBVIOUS
<1>4. ~(p < q)
  <2>1. p < q => r * p + r <= r * q
    BY Distinct
  <2> QED BY <1>1, <1>2, <1>3, <2>1
<1>5. ~(q < p)
  <2>1. q < p => r * q + r <= r * p
    BY Distinct
  <2> QED BY <1>1, <1>2, <1>3, <2>1
<1> QED BY <1>1, <1>2, <1>3, <1>4, <1>5

\* ModuloDiff is the number of sector periods from a period to the next one that
\* brings the sector under the head.
LEMMA NextPass ==
  ASSUME NEW to \in Nat, NEW from \in Nat
  PROVE  /\ ModuloDiff(to, from) \in 0..(SectorsPerTrack - 1)
         /\ (from + ModuloDiff(to, from)) % SectorsPerTrack = to % SectorsPerTrack
         /\ \A n \in Nat : from <= n /\ n % SectorsPerTrack = to % SectorsPerTrack =>
              from + ModuloDiff(to, from) <= n
<1>1. PICK S \in Nat : S = SectorsPerTrack /\ S > 0
  BY Constants
<1>0. /\ to % S \in 0..(S - 1) /\ from % S \in 0..(S - 1) /\ from \div S \in Int
      /\ from = S * (from \div S) + (from % S)
  BY <1>1, Division
<1>2. PICK t \in 0..(S - 1), f \in 0..(S - 1), p \in Int :
        t = to % S /\ f = from % S /\ from = S * p + f
  BY <1>0, Zenon
<1>3. PICK d : d = IF t >= f THEN t - f ELSE t - f + S
  OBVIOUS
<1>4. d \in 0..(S - 1)
  BY <1>1, <1>2, <1>3
<1>5. (t - f + S) % S = d
  <2>1. CASE t >= f
    <3>1. (S * 1 + d) % S = d
      BY <1>1, <1>4, RemainderOf
    <3>2. S * 1 + d = t - f + S
      BY <1>3, <2>1
    <3> QED BY <3>1, <3>2
  <2>2. CASE ~(t >= f)
    <3>1. (S * 0 + d) % S = d
      BY <1>1, <1>4, RemainderOf
    <3>2. S * 0 + d = t - f + S
      BY <1>3, <2>2
    <3> QED BY <3>1, <3>2
  <2> QED BY <2>1, <2>2
<1>6. ModuloDiff(to, from) = d
  BY <1>1, <1>2, <1>5 DEF ModuloDiff
<1>7. (from + d) % S = t
  <2>1. CASE t >= f
    <3>1. (S * p + t) % S = t
      BY <1>1, <1>2, RemainderOf
    <3>2. from + d = S * p + t
      BY <1>2, <1>3, <2>1
    <3> QED BY <3>1, <3>2
  <2>2. CASE ~(t >= f)
    <3>1. (S * (p + 1) + t) % S = t
      BY <1>1, <1>2, RemainderOf
    <3>2. S * (p + 1) = S * p + S
      OBVIOUS
    <3>3. from + d = S * (p + 1) + t
      BY <1>2, <1>3, <2>2, <3>2
    <3> QED BY <3>1, <3>3
  <2> QED BY <2>1, <2>2
<1>8. ASSUME NEW n \in Nat, from <= n, n % S = t, n < from + d
      PROVE  FALSE
  <2>1. from + d \in Int /\ n \in Int
    BY <1>4
  <2>2. n + S <= from + d
    BY <1>1, <1>7, <1>8, <2>1, SameRemainder
  <2> QED BY <1>4, <1>8, <2>2
<1>9. \A n \in Nat : from <= n /\ n % S = t => from + d <= n
  BY <1>4, <1>8
<1> QED BY ONLY <1>1, <1>2, <1>4, <1>6, <1>7, <1>9

\* The rounding of Disk::ComputeLatency gives the first multiple not before t.
LEMMA RoundUp ==
  ASSUME NEW t \in Nat, NEW r \in Nat, r > 0
  PROVE  \E a \in Nat : /\ t + (IF t % r > 0 THEN r - (t % r) ELSE 0) = r * a
                        /\ t <= r * a /\ r * a < t + r
<1>1. PICK q \in Int, m \in 0..(r - 1) : q = t \div r /\ m = t % r /\ t = r * q + m
  BY Division
<1>2. q \in Nat
  BY <1>1
<1>3. CASE m > 0
  <2>1. q + 1 \in Nat /\ r * (q + 1) = r * q + r
    BY <1>2
  <2> QED BY <1>1, <1>3, <2>1
<1>4. CASE ~(m > 0)
  <2>1. m = 0 /\ r * q \in Int
    BY <1>1, <1>4
  <2>2. t = r * q /\ t <= r * q /\ r * q < t + r
    BY <1>1, <2>1
  <2>3. t + (IF t % r > 0 THEN r - (t % r) ELSE 0) = r * q
    BY <1>1, <2>1, <2>2
  <2> QED BY <1>2, <2>2, <2>3, Zenon
<1> QED BY <1>3, <1>4

\* Every part of the latency of a request is a natural number, and a request
\* takes at least the time to read its sector.
LEMMA Latency ==
  ASSUME totalTicks \in Nat, disk \in DiskStates, NEW s \in Sectors, NEW w \in BOOLEAN
  PROVE  /\ TimeToSeek(s) \in Nat
         /\ TimeAfter(s) \in Nat
         /\ ComputeLatency(s, w) \in Nat
         /\ ComputeLatency(s, w) >= RotationTime
<1> USE Constants
<1>1. s \in Nat /\ disk.lastSector \in Nat
  BY DEF DiskStates, Sectors
<1>2. s \div SectorsPerTrack \in Nat /\ disk.lastSector \div SectorsPerTrack \in Nat
  BY <1>1, Quotient
<1>3. Abs((s \div SectorsPerTrack) - (disk.lastSector \div SectorsPerTrack)) \in Nat
  BY <1>2 DEF Abs
<1>4. TimeToSeek(s) \in Nat
  BY <1>3, Product DEF TimeToSeek
<1>5. Rotation(s) \in Nat
  <2>1. (totalTicks + TimeToSeek(s)) % RotationTime \in 0..(RotationTime - 1)
    BY <1>4, Remainder
  <2> QED BY <2>1 DEF Rotation
<1>6. TimeAfter(s) \in Nat
  BY <1>4, <1>5 DEF TimeAfter
<1>7. TimeAfter(s) \div RotationTime \in Nat
  BY <1>6, Quotient
<1> DEFINE from == TimeAfter(s) \div RotationTime
<1>8. ModuloDiff(s, from) \in Nat
  <2> HIDE DEF from
  <2>1. from \in Nat
    BY <1>7 DEF from
  <2>2. s % SectorsPerTrack \in Int /\ from % SectorsPerTrack \in Int
    BY <1>1, <2>1, Remainder
  <2>3. (s % SectorsPerTrack) - (from % SectorsPerTrack) + SectorsPerTrack \in Int
    BY <2>2
  <2>4. ModuloDiff(s, from) \in 0..(SectorsPerTrack - 1)
    BY <2>3, Remainder DEF ModuloDiff
  <2> QED BY <2>4
<1>9. ModuloDiff(s, from) * RotationTime \in Nat
  BY <1>8, Product
<1> HIDE DEF from
<1>10. ComputeLatency(s, w) \in Nat /\ ComputeLatency(s, w) >= RotationTime
  BY <1>4, <1>5, <1>9 DEF ComputeLatency, from
<1> QED BY <1>4, <1>6, <1>10

-----------------------------------------------------------------------------
(* When a disk request ends *)

\* The track of a sector of the disk.
LEMMA TrackRange ==
  ASSUME NEW s \in Sectors
  PROVE  Track(s) \in Nat /\ Track(s) < NumTracks
<1> USE Constants
<1>1. PICK S \in Nat, N \in Nat : S = SectorsPerTrack /\ N = NumTracks /\ S > 0
  OBVIOUS
<1>2. s \in Nat /\ s < S * N /\ S * N \in Nat
  BY <1>1 DEF Sectors
<1>3. s \div S \in Nat
  BY <1>1, <1>2, Quotient
<1>4. PICK q \in Nat : q = s \div S
  BY <1>3
<1>5. s % S \in 0..(S - 1) /\ s = S * q + (s % S)
  BY <1>1, <1>2, <1>4, Division
<1>6. S * q \in Int /\ S * q < S * N
  BY <1>2, <1>5
<1>7. q < N <=> S * q < S * N
  BY <1>1, MultipleOrder
<1> QED BY <1>1, <1>4, <1>6, <1>7 DEF Track

\* The head needs no time exactly when it is on the track, and never more than
\* across all tracks.
LEMMA SeekRange ==
  ASSUME NEW p \in Nat, NEW q \in Nat, p < NumTracks, q < NumTracks
  PROVE  /\ SeekTime * Abs(p - q) \in Nat
         /\ SeekTime * Abs(p - q) <= SeekTime * NumTracks
         /\ SeekTime * Abs(p - q) = 0 <=> p = q
<1> USE Constants
<1>0. Abs(p - q) \in Nat /\ Abs(p - q) <= NumTracks /\ (Abs(p - q) = 0 <=> p = q)
  BY DEF Abs
<1>1. PICK x \in Nat : x = Abs(p - q) /\ x <= NumTracks /\ (x = 0 <=> p = q)
  BY <1>0, Zenon
<1>2. PICK t \in Nat, n \in Nat : t = SeekTime /\ n = NumTracks /\ t > 0
  OBVIOUS
<1>3. t * x \in Nat
  BY Product
<1>4. x <= n <=> t * x <= t * n
  BY <1>2, MultipleOrder
<1>5. 0 < x <=> t * 0 < t * x
  BY <1>2, MultipleOrder
<1>6. t * 0 = 0
  OBVIOUS
<1>7. t * x = 0 <=> x = 0
  BY <1>3, <1>5, <1>6
<1> QED BY <1>1, <1>2, <1>3, <1>4, <1>7

\* The periods from a sector boundary on, for a request: a is the boundary that
\* follows the time the head is on the track.
LEMMA FirstPass ==
  ASSUME NEW s \in Nat, NEW h \in Nat, NEW a \in Nat, NEW m \in Nat,
         h <= RotationTime * a, RotationTime * a < h + RotationTime
  PROVE  /\ m * RotationTime >= h <=> m >= a
         /\ a <= h
<1>1. PICK R \in Nat : R = RotationTime /\ R > 0
  BY Constants
<1>2. R * a \in Nat /\ R * m \in Nat /\ m * R = R * m
  BY Product
<1>3. m < a => R * m + R <= R * a
  BY Distinct
<1>4. a <= m <=> R * a <= R * m
  BY <1>1, MultipleOrder
<1>5. m * R >= h <=> m >= a
  BY <1>1, <1>2, <1>3, <1>4
<1>6. h < a => R * h + R <= R * a
  BY Distinct
<1>7. 1 <= R => h * 1 <= h * R
  <2>1. CASE h = 0
    BY <2>1
  <2>2. CASE h > 0
    BY <2>2, MultipleOrder
  <2> QED BY <2>1, <2>2
<1>8. h * R = R * h /\ h * R \in Nat /\ h * 1 = h
  BY Product
<1> QED BY <1>1, <1>2, <1>5, <1>6, <1>7, <1>8

\* A request made now, r, ends at the time ComputeLatency says, and UpdateLast
\* keeps the start of the track buffer.
LEMMA RequestTiming ==
  ASSUME totalTicks \in Nat, totalTicks <= MaxTicks, disk \in DiskStates,
         request \in Requests, disk.lastSector = request.sector,
         NextBoundary(SeekEnd(request), disk.bufferInit),
         NEW s \in Sectors, NEW w \in BOOLEAN, NEW r,
         r = [issued |-> totalTicks, sector |-> s, writing |-> w,
              from |-> Track(request.sector), since |-> SeekEnd(request)]
  PROVE  /\ r \in Requests
         /\ NextBoundary(SeekEnd(r), UpdateLast(s).bufferInit)
         /\ EndsAt(r, totalTicks + ComputeLatency(s, w))
<1>1. PICK T \in Nat, R \in Nat, S \in Nat :
        /\ T = totalTicks /\ T <= MaxTicks
        /\ R = RotationTime /\ R > 0 /\ S = SectorsPerTrack /\ S > 0
  BY Constants
<1>2. /\ s \in Nat /\ request.sector \in Sectors /\ request.issued \in Nat
      /\ request.from \in Nat /\ request.since \in Nat
  BY Constants DEF Requests, Sectors
<1>3. /\ Track(s) \in Nat /\ Track(s) < NumTracks
      /\ Track(request.sector) \in Nat /\ Track(request.sector) < NumTracks
  BY <1>2, TrackRange
<1>4. PICK seek \in Nat :
        /\ seek = SeekTime * Abs(Track(s) - Track(request.sector))
        /\ seek <= SeekTime * NumTracks
        /\ seek = 0 <=> Track(s) = Track(request.sector)
  BY <1>3, SeekRange
<1>5. TimeToSeek(s) = seek
  BY <1>4 DEF TimeToSeek, Track
<1>6. PICK b \in Nat : /\ disk.bufferInit = R * b /\ SeekEnd(request) <= R * b
                       /\ R * b < SeekEnd(request) + R
  BY <1>1 DEF NextBoundary
<1>7. SeekEnd(request) \in Nat
  <2>1. Abs(Track(request.sector) - request.from) \in Nat
    BY <1>2, <1>3 DEF Abs
  <2>2. SeekTime * Abs(Track(request.sector) - request.from) \in Nat
    BY <2>1, Constants, Product
  <2> QED BY <1>2, <2>2 DEF SeekEnd
<1>8. PICK since \in Nat : since = SeekEnd(request) /\ since <= R * b /\ R * b < since + R
  BY <1>6, <1>7
<1>9. /\ r.issued = T /\ r.sector = s /\ r.writing = w
      /\ r.from = Track(request.sector) /\ r.since = since /\ r \in Requests
  BY <1>1, <1>3, <1>8 DEF Requests
<1>10. PICK a \in Nat : TimeAfter(s) = R * a /\ T + seek <= R * a /\ R * a < T + seek + R
  <2>1. T + seek \in Nat
    OBVIOUS
  <2>2. \E a \in Nat :
          /\ (T + seek) + (IF (T + seek) % R > 0 THEN R - ((T + seek) % R) ELSE 0) = R * a
          /\ T + seek <= R * a /\ R * a < (T + seek) + R
    BY ONLY <1>1, <2>1, RoundUp
  <2>3. TimeAfter(s) = (T + seek) + (IF (T + seek) % R > 0 THEN R - ((T + seek) % R) ELSE 0)
    BY ONLY <1>1, <1>5 DEF TimeAfter, Rotation
  <2> QED BY <2>2, <2>3
<1>11. TimeAfter(s) \div R = a
  BY <1>1, <1>10, ExactQuotient
<1>12. PICK d \in 0..(S - 1) :
         /\ d = ModuloDiff(s, a) /\ (a + d) % S = s % S
         /\ \A n \in Nat : a <= n /\ n % S = s % S => a + d <= n
  BY ONLY <1>1, <1>2, NextPass
<1>13. PICK head \in Nat : head = T + seek
  OBVIOUS
<1>14. head = IF Track(r.sector) = r.from THEN r.issued ELSE SeekEnd(r)
  BY <1>4, <1>9, <1>13 DEF SeekEnd
<1>15. (\A m \in Nat : m * R >= head <=> m >= a) /\ a <= head
  BY ONLY <1>1, <1>2, <1>10, <1>13, FirstPass
<1>16. \A n : n \in Passes(s) <=> n \in 0..LastPass /\ n % S = s % S
  BY <1>1 DEF Passes
<1>17. LastPass \in Nat /\ a + S <= LastPass
  <2>1. SeekTime * NumTracks \in Nat
    BY Constants
  <2> QED BY <1>1, <1>4, <1>13, <1>15, <2>1, Constants DEF LastPass
<1>18. NextBoundary(SeekEnd(r), UpdateLast(s).bufferInit)
  <2>1. CASE seek = 0
    <3>1. SeekEnd(r) = since /\ UpdateLast(s).bufferInit = R * b
      BY <1>4, <1>5, <1>6, <1>9, <2>1 DEF SeekEnd, UpdateLast
    <3> QED BY <1>1, <1>8, <3>1 DEF NextBoundary
  <2>2. CASE seek # 0
    <3>1. SeekEnd(r) = T + seek /\ UpdateLast(s).bufferInit = R * a
      BY <1>4, <1>5, <1>9, <1>10, <2>2 DEF SeekEnd, UpdateLast
    <3> QED BY <1>1, <1>10, <3>1 DEF NextBoundary
  <2> QED BY <2>1, <2>2
<1>19. Buffered(s) <=> \E n \in Passes(s) : b <= n /\ n < a
  <2>1. PICK e \in 0..(S - 1) :
          /\ e = ModuloDiff(s, b) /\ (b + e) % S = s % S
          /\ \A n \in Nat : b <= n /\ n % S = s % S => b + e <= n
    BY ONLY <1>1, <1>2, NextPass
  <2>2. disk.bufferInit \div R = b
    BY <1>1, <1>6, ExactQuotient
  <2>3. (TimeAfter(s) - disk.bufferInit) \div R = a - b
    <3>1. R * a - R * b = R * (a - b) /\ a - b \in Int
      OBVIOUS
    <3>2. (R * (a - b)) \div R = a - b
      BY <1>1, <3>1, ExactQuotient
    <3> QED BY <1>6, <1>10, <3>1, <3>2
  <2>4. Buffered(s) <=> a - b > e
    BY <1>1, <2>1, <2>2, <2>3 DEF Buffered
  <2>5. ASSUME NEW n \in Passes(s), b <= n, n < a
        PROVE  a - b > e
    <3>1. n \in Nat /\ n % S = s % S
      BY <1>16, <1>17
    <3>2. b + e <= n
      BY <2>1, <2>5, <3>1
    <3> QED BY <2>5, <3>1, <3>2
  <2>6. ASSUME a - b > e
        PROVE  b + e \in Passes(s) /\ b <= b + e /\ b + e < a
    <3>1. b + e \in Nat /\ b <= b + e /\ b + e < a
      BY <2>6
    <3>2. b + e \in 0..LastPass
      BY <1>1, <1>17, <3>1
    <3> QED BY <1>16, <2>1, <3>1, <3>2
  <2> QED BY <2>4, <2>5, <2>6
<1>20. Seen(r) <=> seek = 0 /\ Buffered(s)
  <2>1. (\A m \in Nat : m * R >= since <=> m >= b) /\ b <= since
    BY ONLY <1>1, <1>2, <1>8, FirstPass
  <2>2. \A m \in Nat : (m + 1) * R < T + R <=> ~(m * R >= T)
    <3>1. \A m, k \in Nat : (m + 1) * k = m * k + k /\ m * k \in Nat
      OBVIOUS
    <3>2. \A m \in Nat : (m + 1) * R = m * R + R /\ m * R \in Nat
      BY <3>1
    <3> QED BY <3>2
  <2>3. \A n \in Passes(s) : n \in Nat
    BY <1>16, <1>17
  <2>4. Track(r.sector) = r.from <=> seek = 0
    BY <1>4, <1>9
  <2>5. CASE seek = 0
    <3>1. \A m \in Nat : (m + 1) * R < T + R <=> m < a
      BY <1>13, <1>15, <2>2, <2>5
    <3>2. \A n \in Passes(s) :
            n * R >= since /\ (n + 1) * R < T + R <=> b <= n /\ n < a
      BY <2>1, <2>3, <3>1
    <3> QED BY <1>1, <1>9, <1>19, <2>4, <2>5, <3>2 DEF Seen
  <2>6. CASE seek # 0
    BY <2>4, <2>6 DEF Seen
  <2> QED BY <2>5, <2>6
<1>21. CASE ~w /\ Seen(r)
  <2>1. ComputeLatency(s, w) = R
    BY <1>1, <1>5, <1>20, <1>21 DEF ComputeLatency
  <2>2. EndsAt(r, T + R)
    BY <1>1, <1>9, <1>21 DEF EndsAt
  <2> QED BY <1>1, <1>9, <1>18, <2>1, <2>2
<1>22. CASE ~(~w /\ Seen(r))
  <2>1. ComputeLatency(s, w) = TimeToSeek(s) + Rotation(s) + d * R + R
    BY <1>1, <1>5, <1>11, <1>12, <1>20, <1>22 DEF ComputeLatency
  <2>2. T + ComputeLatency(s, w) = (a + d + 1) * R
    <3>1. T + seek + Rotation(s) = R * a
      BY <1>1, <1>5, <1>10 DEF TimeAfter
    <3>2. Rotation(s) \in Int
      <4>1. (T + seek) % R \in 0..(R - 1)
        BY <1>1, Remainder
      <4> QED BY <1>1, <1>5, <4>1 DEF Rotation
    <3>3. (a + d + 1) * R = R * a + d * R + R /\ d * R \in Int /\ R * a \in Int
      OBVIOUS
    <3> QED BY <1>5, <2>1, <3>1, <3>2, <3>3
  <2>3. PICK n \in Nat : n = a + d
    OBVIOUS
  <2>4. n \in Passes(s)
    <3>1. n \in 0..LastPass
      BY <1>12, <1>17, <2>3
    <3> QED BY <1>12, <1>16, <2>3, <3>1
  <2>5. n * R >= head
    BY <1>15, <2>3
  <2>6. \A m \in Passes(s) : m * R >= head => m >= n
    <3>1. \A m \in Passes(s) : m \in Nat /\ m % S = s % S
      BY <1>16, <1>17
    <3>2. \A m \in Passes(s) : m * R >= head => a <= m
      BY <1>15, <3>1
    <3>3. \A m \in Passes(s) : a <= m => n <= m
      BY <1>12, <2>3, <3>1
    <3> QED BY <2>3, <3>1, <3>2, <3>3
  <2>7. T + ComputeLatency(s, w) = (n + 1) * R
    BY <2>2, <2>3
  <2>8. EndsAt(r, T + ComputeLatency(s, w))
    BY <1>1, <1>9, <1>14, <1>22, <2>4, <2>5, <2>6, <2>7 DEF EndsAt
  <2> QED BY <1>1, <1>9, <1>18, <2>8
<1> QED BY <1>21, <1>22

-----------------------------------------------------------------------------
(* The list of pending interrupts *)

\* The elements of the list have keys.
LEMMA InterruptsKeyed ==
  /\ Keyed(Interrupts)
  /\ \A type \in Types, key \in Nat :
       /\ ListElement(type, key) \in Interrupts
       /\ ListElement(type, key).key = key /\ ListElement(type, key).item = type
BY DEF Keyed, Interrupts, ListElement

\* What it means that new is the list with one more interrupt.
Added(list, new, type, key) ==
  /\ new \in Seq(Interrupts)
  /\ \A m \in Members(new) : m \in Members(list) \/ (m.item = type /\ m.key = key)
  /\ \A x : Occurs(new, x) <=> Occurs(list, x) \/ x = type
  /\ \A x : Single(list, x) /\ (x = type => ~Occurs(list, x)) => Single(new, x)
  /\ InOrder(list) => InOrder(new)

\* Schedule adds an interrupt.
LEMMA ScheduleEffect ==
  ASSUME NEW list \in Seq(Interrupts), NEW now \in Nat, NEW fromNow \in Nat, NEW type \in Types
  PROVE  Added(list, Schedule(list, now, fromNow, type), type, now + fromNow)
<1>1. now + fromNow \in Nat /\ now + fromNow \in Int
  OBVIOUS
<1>2. Keyed(Interrupts) /\ ListElement(type, now + fromNow) \in Interrupts
  BY <1>1, InterruptsKeyed
<1> DEFINE new == Schedule(list, now, fromNow, type)
<1>3. /\ new \in Seq(Interrupts)
      /\ Members(new) = Members(list) \cup {ListElement(type, now + fromNow)}
      /\ \A x : Occurs(new, x) <=> Occurs(list, x) \/ x = type
      /\ \A x : Single(list, x) /\ (x = type => ~Occurs(list, x)) => Single(new, x)
      /\ InOrder(list) => InOrder(new)
  BY <1>1, <1>2, SortedInsertItems, SortedInsertInOrder DEF Schedule
<1>4. \A m \in Members(new) :
        m \in Members(list) \/ (m.item = type /\ m.key = now + fromNow)
  BY <1>1, <1>3, InterruptsKeyed
<1> QED BY <1>3, <1>4 DEF Added

\* CheckIfDue takes the first interrupt off the list.
LEMMA OthersEffect ==
  ASSUME pending \in Seq(Interrupts), pending # <<>>
  PROVE  /\ toOccur \in Interrupts /\ toOccur.key \in Nat /\ toOccur.item \in Types
         /\ Others \in Seq(Interrupts)
         /\ Members(pending) = Members(Others) \cup {toOccur}
         /\ \A x : Occurs(pending, x) <=> Occurs(Others, x) \/ x = toOccur.item
         /\ \A x : Single(pending, x) =>
              Single(Others, x) /\ (x = toOccur.item => ~Occurs(Others, x))
         /\ InOrder(pending) => /\ InOrder(Others)
                                /\ \A m \in Members(pending) : toOccur.key <= m.key
<1>1. toOccur \in Interrupts
  BY LeftItems DEF toOccur
<1>2. toOccur.key \in Nat /\ toOccur.item \in Types
  BY <1>1 DEF Interrupts
<1> QED BY <1>1, <1>2, LeftItems DEF toOccur, Others

\* The interrupt that is not due goes back: the same interrupts are pending.
LEMMA PutBackEffect ==
  ASSUME pending \in Seq(Interrupts)
  PROVE  /\ PutBack \in Seq(Interrupts)
         /\ Members(PutBack) = Members(pending)
         /\ \A x : Occurs(PutBack, x) <=> Occurs(pending, x)
         /\ \A x : Single(pending, x) => Single(PutBack, x)
         /\ InOrder(pending) => InOrder(PutBack)
<1>1. CASE pending = <<>>
  BY <1>1 DEF PutBack, IsEmpty
<1>2. CASE pending # <<>>
  <2>1. PutBack = SortedInsert(Others, toOccur.item, toOccur.key)
    BY <1>2 DEF PutBack, IsEmpty
  <2>2. /\ toOccur \in Interrupts /\ toOccur.key \in Int
        /\ Others \in Seq(Interrupts)
        /\ Members(pending) = Members(Others) \cup {toOccur}
        /\ \A x : Occurs(pending, x) <=> Occurs(Others, x) \/ x = toOccur.item
        /\ \A x : Single(pending, x) =>
              Single(Others, x) /\ (x = toOccur.item => ~Occurs(Others, x))
        /\ InOrder(pending) => InOrder(Others)
    BY <1>2, OthersEffect
  <2>3. ListElement(toOccur.item, toOccur.key) = toOccur
    BY <2>2 DEF ListElement, Interrupts
  <2>4. Keyed(Interrupts)
    BY InterruptsKeyed
  <2>5. /\ PutBack \in Seq(Interrupts)
        /\ Members(PutBack) = Members(Others) \cup {toOccur}
        /\ \A x : Occurs(PutBack, x) <=> Occurs(Others, x) \/ x = toOccur.item
        /\ \A x : Single(Others, x) /\ (x = toOccur.item => ~Occurs(Others, x)) =>
             Single(PutBack, x)
    BY <2>1, <2>2, <2>3, <2>4, SortedInsertItems
  <2>6. InOrder(pending) => InOrder(PutBack)
    BY <2>1, <2>2, <2>3, <2>4, SortedInsertInOrder
  <2> QED BY <2>2, <2>5, <2>6
<1> QED BY <1>1, <1>2

-----------------------------------------------------------------------------
(* Kinds of steps *)

\* The delivery of an interrupt, in a tick or in the idle loop.
Delivery ==
  \/ at = "tick" /\ CheckIfDue(FALSE, "tick") /\ UNCHANGED status
  \/ at = "idle" /\ CheckIfDue(TRUE, "idling") /\ UNCHANGED status
  \/ at = "idling" /\ CheckIfDue(FALSE, "idling") /\ UNCHANGED status

\* The steps that leave the devices and the list of interrupts alone.
ThreadOnly ==
  \/ WaitDisk \/ Finish
  \/ SetStatusOff \/ SetStatusOn \/ UserInstruction \/ SyscallEnter \/ SyscallReturn
  \/ GetStateReg

\* Every step is of one of these kinds.
LEMMA Kinds ==
  ASSUME [Next]_vars
  PROVE  \/ Delivery
         \/ Return \/ YieldNow \/ IdleReturn \/ Halt
         \/ ThreadOnly
         \/ \E sector \in machine.sectors, writing \in BOOLEAN : Request(sector, writing)
         \/ SetWorkingMode \/ GetChar \/ PutChar \/ Arrive
         \/ UNCHANGED vars
BY DEF Next, Delivery, Fire, IdleFirst, IdleMore, ThreadOnly, ReadRequest, WriteRequest

\* An interrupt is delivered from a list that is not empty, no later than the
\* bound on time.
LEMMA DeliveryEffect ==
  ASSUME ClockType, Delivery
  PROVE  /\ pending # <<>>
         /\ at \in {"tick", "idle", "idling"}
         /\ totalTicks' = IF toOccur.key > totalTicks THEN toOccur.key ELSE totalTicks
         /\ totalTicks' \in Nat /\ totalTicks' <= MaxTicks
         /\ UNCHANGED <<level, status, old, machine>>
         /\ \E next \in {"tick", "idling"} :
              /\ next = (IF at = "tick" THEN "tick" ELSE "idling")
              /\ Handler(Others, next)
<1>1. PICK adv \in BOOLEAN, next \in {"tick", "idling"} :
        /\ CheckIfDue(adv, next) /\ UNCHANGED status
        /\ at \in {"tick", "idle", "idling"}
        /\ next = (IF at = "tick" THEN "tick" ELSE "idling")
  <2>1. CASE at = "tick" /\ CheckIfDue(FALSE, "tick") /\ UNCHANGED status
    BY <2>1
  <2>2. CASE at = "idle" /\ CheckIfDue(TRUE, "idling") /\ UNCHANGED status
    BY <2>2
  <2>3. CASE at = "idling" /\ CheckIfDue(FALSE, "idling") /\ UNCHANGED status
    BY <2>3
  <2> QED BY <2>1, <2>2, <2>3 DEF Delivery
<1>2. /\ pending # <<>>
      /\ totalTicks' = IF toOccur.key > totalTicks THEN toOccur.key ELSE totalTicks
      /\ totalTicks' <= MaxTicks
      /\ Handler(Others, next)
      /\ UNCHANGED <<level, old, machine>>
  BY <1>1 DEF CheckIfDue, NotFired, IsEmpty
<1>3. toOccur.key \in Nat
  BY <1>2, OthersEffect DEF ClockType
<1>4. totalTicks' \in Nat
  BY <1>2, <1>3 DEF ClockType
<1> QED BY <1>1, <1>2, <1>4

\* A handler goes on where the loop is, or the driver's placeholder exits.
LEMMA HandlerPlace ==
  ASSUME NEW p, NEW next, Handler(p, next)
  PROVE  at' \in {next, "exited"}
BY DEF Handler, HandleInterrupt, TimerExpired, InterruptRec, InterruptEm, DriverCalled

\* The steps of the thread alone.
LEMMA ThreadOnlyEffect ==
  ASSUME ClockType, ThreadOnly
  PROVE  /\ at = "run" /\ at' \in {"tick", "idle", "run"}
         /\ totalTicks' \in Nat /\ totalTicks' <= MaxTicks
         /\ at' = "run" => totalTicks' = totalTicks
         /\ UNCHANGED <<pending, yieldOnReturn, diskVars, lineVars, machine>>
<1> USE Constants
<1>1. totalTicks \in Nat /\ (at = "run" => totalTicks <= MaxTicks)
  BY DEF ClockType
<1>2. ASSUME WaitDisk \/ Finish
      PROVE  at = "run" /\ at' = "idle" /\ UNCHANGED <<totalTicks, pending, yieldOnReturn,
               diskVars, lineVars, machine>>
  BY <1>2 DEF WaitDisk, Finish, Sleep, clock
<1>3. ASSUME SetStatusOff \/ SyscallEnter
      PROVE  at = "run" /\ at' = "run" /\ UNCHANGED <<totalTicks, pending, yieldOnReturn,
               diskVars, lineVars, machine>>
  BY <1>3 DEF SetStatusOff, SyscallEnter, InKernel, clock
<1>4. ASSUME SetStatusOn
      PROVE  /\ at = "run" /\ at' = "tick"
             /\ totalTicks' = totalTicks + 1 /\ totalTicks' <= MaxTicks
             /\ UNCHANGED <<pending, yieldOnReturn, diskVars, lineVars, machine>>
  BY <1>1, <1>4 DEF SetStatusOn, InKernel, SYSTEM_TICK
<1>5. ASSUME UserInstruction \/ SyscallReturn \/ GetStateReg
      PROVE  /\ at = "run" /\ at' = "tick"
             /\ totalTicks' \in Nat /\ totalTicks' <= MaxTicks
             /\ UNCHANGED <<pending, yieldOnReturn, diskVars, lineVars, machine>>
  <2>1. PICK mode \in Modes, n \in Nat : OneTick(mode, n) /\ at = "run"
    <3>1. CASE UserInstruction
      <4>1. PICK cycles \in Accesses : OneTick("USER_MODE", cycles + 1) /\ at = "run"
        BY <3>1 DEF UserInstruction, USER_TICK
      <4>2. cycles + 1 \in Nat
        BY <4>1
      <4> QED BY <4>1, <4>2 DEF Modes
    <3>2. CASE SyscallReturn
      BY <3>2 DEF SyscallReturn, InKernel, Modes, USER_TICK
    <3>3. CASE GetStateReg
      BY <3>3 DEF GetStateReg, InKernel, Modes, SYSTEM_TICK
    <3> QED BY <1>5, <3>1, <3>2, <3>3
  <2>2. totalTicks' \in Nat /\ totalTicks' <= MaxTicks /\ at' = "tick"
    BY <1>1, <2>1 DEF OneTick
  <2> QED BY <1>5, <2>1, <2>2 DEF UserInstruction, SyscallReturn, GetStateReg
<1> QED BY <1>1, <1>2, <1>3, <1>4, <1>5 DEF ThreadOnly

-----------------------------------------------------------------------------
(* The clock and the list *)

\* What a handler leaves of the list.
LEMMA HandlerList ==
  ASSUME ClockType, Delivery
  PROVE  \/ /\ pending' = Others
            /\ toOccur.item \in {"DISK_INT", "ACIA_SEND_INT"}
         \/ \E fromNow \in 1..(2 * TimerTime) :
              /\ toOccur.item = "TIMER_INT"
              /\ pending' = Schedule(Others, totalTicks', fromNow, "TIMER_INT")
         \/ /\ toOccur.item = "ACIA_RECEIVE_INT"
            /\ pending' = Schedule(Others, totalTicks', CheckTime, "ACIA_RECEIVE_INT")
<1>1. PICK next \in {"tick", "idling"} : Handler(Others, next)
  BY DeliveryEffect
<1>2. \A kind : TimeOfNextInterrupt(kind) \subseteq 1..(2 * TimerTime)
  BY Constants DEF TimeOfNextInterrupt
<1> QED BY <1>1, <1>2 DEF Handler, HandleInterrupt, TimerExpired, InterruptRec, InterruptEm

\* The clock, the list and the disk stay typed.
LEMMA StepClock ==
  ASSUME ClockType, CpuType, [Next]_vars
  PROVE  ClockType'
<1> USE Constants
<1> DEFINE Timed(list) == \A m \in Members(list) : m.item = "TIMER_INT" => m.key <= LastTick
<1>1. /\ totalTicks \in Nat
      /\ totalTicks <= IF at = "halted" THEN LastTick ELSE MaxTicks
      /\ pending \in Seq(Interrupts)
      /\ Timed(pending)
      /\ disk \in DiskStates
      /\ machine \in Machines
  BY DEF ClockType
<1> HIDE DEF Timed
<1>2. ASSUME totalTicks' \in Nat, totalTicks' <= MaxTicks \/ (at' = "halted" /\ totalTicks' <= LastTick),
             pending' \in Seq(Interrupts), Timed(pending'), disk' \in DiskStates, machine' = machine
      PROVE  ClockType'
  BY <1>1, <1>2 DEF ClockType, Timed
<1>3. CASE Delivery
  <2>1. /\ pending # <<>> /\ totalTicks' \in Nat /\ totalTicks' <= MaxTicks
        /\ machine' = machine
    BY <1>3, DeliveryEffect
  <2>2. /\ Others \in Seq(Interrupts) /\ toOccur.key \in Nat
        /\ Members(pending) = Members(Others) \cup {toOccur}
    BY <1>1, <2>1, OthersEffect
  <2>3. Timed(Others)
    BY <1>1, <2>2 DEF Timed
  <2>4. pending' \in Seq(Interrupts) /\ Timed(pending')
    <3>1. CASE pending' = Others
      BY <2>2, <2>3, <3>1
    <3>2. CASE pending' = Schedule(Others, totalTicks', CheckTime, "ACIA_RECEIVE_INT")
      <4>1. Added(Others, pending', "ACIA_RECEIVE_INT", totalTicks' + CheckTime)
        BY <2>1, <2>2, <3>2, ScheduleEffect DEF Types
      <4> QED BY <2>3, <4>1 DEF Timed, Added
    <3>3. ASSUME NEW fromNow \in 1..(2 * TimerTime),
                 pending' = Schedule(Others, totalTicks', fromNow, "TIMER_INT")
          PROVE  pending' \in Seq(Interrupts) /\ Timed(pending')
      <4>1. Added(Others, pending', "TIMER_INT", totalTicks' + fromNow)
        BY <2>1, <2>2, <3>3, ScheduleEffect DEF Types
      <4>2. totalTicks' + fromNow <= LastTick
        BY ONLY <2>1, <3>3, TimerBound
      <4> QED BY <2>3, <4>1, <4>2 DEF Timed, Added
    <3> QED BY <1>3, <3>1, <3>2, <3>3, HandlerList
  <2>5. disk' \in DiskStates
    BY <1>1, <1>3, DeliveryEffect
       DEF Handler, HandleInterrupt, TimerExpired, InterruptRec, InterruptEm, DiskStates
  <2> QED BY <1>2, <2>1, <2>4, <2>5
<1>4. CASE Return \/ YieldNow \/ IdleReturn \/ Halt
  <2>1. /\ pending' = PutBack /\ disk' = disk /\ machine' = machine
    BY <1>4 DEF Return, YieldNow, IdleReturn, Halt, diskVars
  <2>2. pending' \in Seq(Interrupts) /\ Timed(pending')
    BY <1>1, <2>1, PutBackEffect DEF Timed
  <2>3. CASE Return \/ IdleReturn
    BY <1>1, <1>2, <2>1, <2>2, <2>3 DEF Return, IdleReturn
  <2>4. CASE YieldNow
    <3>1. totalTicks' = totalTicks + 1 /\ totalTicks' <= MaxTicks
      BY <1>1, <2>4 DEF YieldNow, SYSTEM_TICK
    <3> QED BY <1>1, <1>2, <2>1, <2>2, <3>1
  <2>5. CASE Halt
    <3>1. /\ at = "idle" /\ at' = "halted" /\ NotFired(TRUE)
          /\ totalTicks' = IF ~IsEmpty(pending) /\ toOccur.key > totalTicks THEN toOccur.key
                           ELSE totalTicks
      BY <2>5 DEF Halt
    <3>2. CASE pending = <<>>
      BY <1>1, <1>2, <2>1, <2>2, <3>1, <3>2 DEF IsEmpty
    <3>3. CASE pending # <<>>
      <4>1. toOccur.item = "TIMER_INT"
        BY <3>1, <3>3 DEF NotFired, NothingMoreToDo, IsEmpty
      <4>2. toOccur.key \in Nat /\ toOccur \in Members(pending)
        BY <1>1, <3>3, OthersEffect
      <4>3. toOccur.key <= LastTick
        BY <1>1, <4>1, <4>2 DEF Timed
      <4> QED BY <1>1, <1>2, <2>1, <2>2, <3>1, <4>2, <4>3
    <3> QED BY <3>2, <3>3
  <2> QED BY <1>4, <2>3, <2>4, <2>5
<1>5. CASE ThreadOnly
  <2>1. /\ totalTicks' \in Nat /\ totalTicks' <= MaxTicks
        /\ UNCHANGED <<pending, diskVars, machine>>
    BY <1>5, ThreadOnlyEffect
  <2> QED BY <1>1, <1>2, <2>1 DEF diskVars
<1>6. ASSUME NEW sector \in machine.sectors, NEW writing \in BOOLEAN, Request(sector, writing)
      PROVE  ClockType'
  <2>1. sector \in Sectors
    BY <1>1
  <2>2. /\ ComputeLatency(sector, writing) \in Nat
        /\ TimeToSeek(sector) \in Nat /\ TimeAfter(sector) \in Nat
    BY <1>1, <2>1, Latency
  <2>3. /\ at = "run" /\ UNCHANGED <<totalTicks, machine>>
        /\ pending' = Schedule(pending, totalTicks, ComputeLatency(sector, writing), "DISK_INT")
        /\ disk' = UpdateLast(sector)
    BY <1>6 DEF Request, InKernel
  <2>4. Added(pending, pending', "DISK_INT", totalTicks + ComputeLatency(sector, writing))
    BY <1>1, <2>2, <2>3, ScheduleEffect DEF Types
  <2>5. pending' \in Seq(Interrupts) /\ Timed(pending')
    BY <1>1, <2>4 DEF Timed, Added
  <2>6. disk' \in DiskStates
    BY <1>1, <2>1, <2>2, <2>3 DEF UpdateLast, DiskStates
  <2> QED BY <1>1, <1>2, <2>3, <2>4, <2>5, <2>6
<1>7. CASE PutChar
  <2>1. /\ at = "run" /\ UNCHANGED <<totalTicks, machine, disk>>
        /\ pending' = Schedule(pending, totalTicks, SendTime, "ACIA_SEND_INT")
    BY <1>7 DEF PutChar, SendChar, InKernel, diskVars
  <2>2. Added(pending, pending', "ACIA_SEND_INT", totalTicks + SendTime)
    BY <1>1, <2>1, ScheduleEffect DEF Types
  <2>3. pending' \in Seq(Interrupts) /\ Timed(pending')
    BY <1>1, <2>2 DEF Timed, Added
  <2> QED BY <1>1, <1>2, <2>1, <2>2, <2>3
<1>8. CASE SetWorkingMode \/ GetChar \/ Arrive \/ UNCHANGED vars
  <2>1. UNCHANGED <<totalTicks, pending, at, disk, machine>>
    BY <1>8 DEF SetWorkingMode, GetChar, Arrive, clock, cpu, diskVars, vars
  <2> QED BY <1>1, <2>1 DEF ClockType, Timed
<1> QED BY <1>3, <1>4, <1>5, <1>6, <1>7, <1>8, Kinds

-----------------------------------------------------------------------------
(* The processor *)

\* The mode, the level and the thread agree with the place in the code.
LEMMA StepCpu ==
  ASSUME ClockType, CpuType, Places, [Next]_vars
  PROVE  CpuType' /\ Places'
<1>1. CASE Delivery
  <2>1. PICK next \in {"tick", "idling"} :
          /\ next = (IF at = "tick" THEN "tick" ELSE "idling")
          /\ Handler(Others, next)
          /\ at \in {"tick", "idle", "idling"}
          /\ UNCHANGED <<level, status, old>>
    BY <1>1, DeliveryEffect
  <2>2. CASE HandleInterrupt(Others, next)
    <3>1. /\ at' = next /\ yieldOnReturn' = yieldOnReturn
          /\ thread' = IF thread = "waiting" THEN "ready" ELSE thread
      BY <2>2 DEF HandleInterrupt
    <3>2. CpuType'
      BY <2>1, <3>1 DEF CpuType
    <3>3. Places'
      BY <2>1, <3>1 DEF CpuType, Places
    <3> QED BY <3>2, <3>3
  <2>3. CASE ~HandleInterrupt(Others, next)
    <3>1. /\ at' \in {next, "exited"} /\ yieldOnReturn' \in {yieldOnReturn, TRUE}
          /\ UNCHANGED <<thread, disk>>
      BY <2>1, <2>3, HandlerPlace
         DEF Handler, TimerExpired, YieldOnReturn, InterruptRec, InterruptEm
    <3>2. CpuType'
      BY <2>1, <3>1 DEF CpuType
    <3>3. Places'
      BY <2>1, <3>1 DEF CpuType, Places
    <3> QED BY <3>2, <3>3
  <2> QED BY <2>2, <2>3
<1>2. CASE Return \/ YieldNow
  <2>1. /\ at = "tick" /\ at' \in {"tick", "run"} /\ level' \in {level, "ON"}
        /\ at' = "tick" => level' = level
        /\ status' \in {old, "SYSTEM_MODE"} /\ yieldOnReturn' \in {yieldOnReturn, FALSE}
        /\ UNCHANGED <<old, thread, disk>>
    BY <1>2 DEF Return, YieldNow, diskVars
  <2>2. CpuType'
    BY <2>1 DEF CpuType, Modes
  <2> QED BY <2>1, <2>2 DEF CpuType, Places
<1>3. CASE IdleReturn
  <2>1. /\ at = "idling" /\ yieldOnReturn' = FALSE
        /\ UNCHANGED <<level, old, disk>>
        /\ \/ thread = "ready" /\ at' = "run" /\ thread' = "running" /\ status' = "SYSTEM_MODE"
           \/ thread # "ready" /\ at' = "idle" /\ status' = "IDLE_MODE" /\ thread' = thread
    BY <1>3 DEF IdleReturn, diskVars
  <2> QED BY <2>1 DEF CpuType, Places, Modes
<1>4. CASE Halt
  <2>1. at' = "halted" /\ UNCHANGED <<level, status, yieldOnReturn, old, thread, disk>>
    BY <1>4 DEF Halt, diskVars
  <2> QED BY <2>1 DEF CpuType, Places
<1>5. CASE WaitDisk \/ Finish
  <2>1. /\ at = "run" /\ at' = "idle" /\ status' = "IDLE_MODE" /\ level = "OFF"
        /\ UNCHANGED <<level, yieldOnReturn, old, disk>>
        /\ thread' = "gone" \/ (thread' = "waiting" /\ disk.active)
    BY <1>5 DEF WaitDisk, Finish, Sleep, diskVars
  <2> QED BY <2>1 DEF CpuType, Places, Modes
<1>6. CASE SetStatusOff \/ SyscallEnter
  <2>1. /\ at = "run" /\ at' = "run" /\ status' \in {status, "SYSTEM_MODE"}
        /\ level' \in {level, "OFF"}
        /\ UNCHANGED <<yieldOnReturn, old, thread, disk>>
    BY <1>6 DEF SetStatusOff, SyscallEnter, InKernel, diskVars
  <2> QED BY <2>1 DEF CpuType, Places, Modes
<1>7. CASE SetStatusOn \/ UserInstruction \/ SyscallReturn \/ GetStateReg
  <2>1. /\ at = "run" /\ at' = "tick" /\ level' = "OFF"
        /\ status' \in {"SYSTEM_MODE", "USER_MODE"} /\ old' = status'
        /\ UNCHANGED <<yieldOnReturn, thread, disk>>
    BY <1>7 DEF SetStatusOn, UserInstruction, SyscallReturn, GetStateReg, InKernel, OneTick,
                diskVars
  <2> QED BY <2>1 DEF CpuType, Places, Modes
<1>8. ASSUME NEW sector \in machine.sectors, NEW writing \in BOOLEAN, Request(sector, writing)
      PROVE  CpuType' /\ Places'
  <2>1. /\ UNCHANGED <<level, status, yieldOnReturn, old, at, thread>>
        /\ disk'.active = TRUE
    BY <1>8 DEF Request, cpu, UpdateLast
  <2> QED BY <2>1 DEF CpuType, Places
<1>9. CASE SetWorkingMode \/ GetChar \/ PutChar \/ Arrive \/ UNCHANGED vars
  <2>1. UNCHANGED <<level, status, yieldOnReturn, old, at, thread, disk>>
    BY <1>9 DEF SetWorkingMode, GetChar, PutChar, Arrive, cpu, diskVars, vars
  <2> QED BY <2>1 DEF CpuType, Places
<1> QED BY <1>1, <1>2, <1>3, <1>4, <1>5, <1>6, <1>7, <1>8, <1>9, Kinds DEF ThreadOnly

-----------------------------------------------------------------------------
(* The list agrees with the devices *)

\* The devices a type of interrupt belongs to, one by one, before and after a step.
LEMMA ExpectedCases ==
  /\ Expected("DISK_INT") <=> disk.active
  /\ Expected("ACIA_SEND_INT") <=> acia.outputStateRegister = "FULL"
  /\ Expected("ACIA_RECEIVE_INT") <=> machine.acia
  /\ Expected("TIMER_INT") <=> machine.timer # "none"
  /\ Expected("DISK_INT")' <=> disk'.active
  /\ Expected("ACIA_SEND_INT")' <=> acia'.outputStateRegister = "FULL"
  /\ Expected("ACIA_RECEIVE_INT")' <=> machine'.acia
  /\ Expected("TIMER_INT")' <=> machine'.timer # "none"
BY DEF Expected

\* A step after which the same interrupts are expected and pending.
LEMMA SamePending ==
  ASSUME PendingInv, InOrder(pending'),
         \A x \in Types : Single(pending', x) /\ (Occurs(pending', x) <=> Occurs(pending, x)),
         disk'.active = disk.active, machine' = machine,
         acia'.outputStateRegister = acia.outputStateRegister
  PROVE  PendingInv'
<1>1. \A x \in Types : Expected(x)' <=> Expected(x)
  BY ExpectedCases DEF Types
<1> QED BY <1>1 DEF PendingInv

\* The list stays in order and agrees with the devices.
LEMMA StepPending ==
  ASSUME ClockType, PendingInv, LineType, [Next]_vars
  PROVE  PendingInv'
<1> USE Constants
<1>1. pending \in Seq(Interrupts) /\ totalTicks \in Nat /\ disk \in DiskStates /\ machine \in Machines
  BY DEF ClockType
<1>2. /\ InOrder(pending)
      /\ \A x \in Types : Single(pending, x) /\ (Occurs(pending, x) <=> Expected(x))
  BY DEF PendingInv
<1>3. CASE Delivery
  <2>1. /\ pending # <<>> /\ totalTicks' \in Nat /\ machine' = machine
    BY <1>3, DeliveryEffect
  <2>2. PICK next \in {"tick", "idling"} : Handler(Others, next)
    BY <1>3, DeliveryEffect
  <2>3. Others \in Seq(Interrupts) /\ InOrder(Others) /\ toOccur.item \in Types
    BY <1>1, <1>2, <2>1, OthersEffect
  <2>4. \A x \in Types :
          /\ Single(Others, x)
          /\ Occurs(Others, x) <=> Occurs(pending, x) /\ x # toOccur.item
    BY <1>1, <1>2, <2>1, OthersEffect
  <2>5. Occurs(pending, toOccur.item)
    BY <1>1, <2>1, OthersEffect
  <2>6. CASE toOccur.item = "DISK_INT"
    <3>1. /\ pending' = Others /\ disk'.active = FALSE /\ acia' = acia
      BY <1>1, <2>2, <2>6 DEF Handler, HandleInterrupt, lineVars, DiskStates
    <3>2. \A x \in Types : Expected(x)' <=> Expected(x) /\ x # "DISK_INT"
      BY <2>1, <3>1, ExpectedCases DEF Types
    <3>3. InOrder(pending')
      BY <2>3, <3>1
    <3>4. \A x \in Types : Single(pending', x)
      BY <2>4, <3>1
    <3>5. \A x \in Types : Occurs(pending', x) <=> Expected(x)'
      BY <1>2, <2>4, <2>6, <3>1, <3>2
    <3> QED BY <3>3, <3>4, <3>5 DEF PendingInv
  <2>7. CASE toOccur.item = "ACIA_SEND_INT"
    <3>1. /\ pending' = Others /\ disk' = disk /\ acia'.outputStateRegister = "EMPTY"
      BY <2>2, <2>7 DEF Handler, InterruptEm, LineType
    <3>2. \A x \in Types : Expected(x)' <=> Expected(x) /\ x # "ACIA_SEND_INT"
      BY <2>1, <3>1, ExpectedCases DEF Types
    <3>3. InOrder(pending')
      BY <2>3, <3>1
    <3>4. \A x \in Types : Single(pending', x)
      BY <2>4, <3>1
    <3>5. \A x \in Types : Occurs(pending', x) <=> Expected(x)'
      BY <1>2, <2>4, <2>7, <3>1, <3>2
    <3> QED BY <3>3, <3>4, <3>5 DEF PendingInv
  <2>8. CASE toOccur.item \in {"TIMER_INT", "ACIA_RECEIVE_INT"}
    <3>1. PICK fromNow \in Nat : pending' = Schedule(Others, totalTicks', fromNow, toOccur.item)
      BY <1>3, <2>8, HandlerList
    <3>2. Added(Others, pending', toOccur.item, totalTicks' + fromNow)
      BY <2>1, <2>3, <3>1, ScheduleEffect
    <3>3. InOrder(pending')
      BY <2>3, <3>2 DEF Added
    <3>4. \A x \in Types : Single(pending', x)
      BY <2>4, <3>2 DEF Added
    <3>5. \A x \in Types : Occurs(pending', x) <=> Occurs(pending, x)
      BY <2>4, <2>5, <3>2 DEF Added
    <3>6. disk' = disk /\ acia'.outputStateRegister = acia.outputStateRegister
      BY <2>2, <2>8 DEF Handler, TimerExpired, InterruptRec, lineVars, LineType
    <3> QED BY <2>1, <3>3, <3>4, <3>5, <3>6, SamePending
  <2> QED BY <2>3, <2>6, <2>7, <2>8 DEF Types
<1>4. CASE Return \/ YieldNow \/ IdleReturn \/ Halt
  <2>1. /\ pending' = PutBack /\ disk' = disk /\ machine' = machine /\ acia' = acia
    BY <1>4 DEF Return, YieldNow, IdleReturn, Halt, diskVars, lineVars
  <2>2. InOrder(pending') /\ \A x \in Types : Single(pending', x) /\ (Occurs(pending', x) <=> Occurs(pending, x))
    BY <1>1, <1>2, <2>1, PutBackEffect
  <2> QED BY <2>1, <2>2, SamePending
<1>5. CASE ThreadOnly
  <2>1. UNCHANGED <<pending, disk, machine, acia>>
    BY <1>5, ThreadOnlyEffect DEF diskVars, lineVars
  <2> QED BY <1>2, <2>1, SamePending
<1>6. ASSUME NEW sector \in machine.sectors, NEW writing \in BOOLEAN, Request(sector, writing)
      PROVE  PendingInv'
  <2>1. sector \in Sectors
    BY <1>1
  <2>2. ComputeLatency(sector, writing) \in Nat
    BY <1>1, <2>1, Latency
  <2>3. /\ ~disk.active /\ disk'.active = TRUE /\ UNCHANGED <<machine, acia>>
        /\ pending' = Schedule(pending, totalTicks, ComputeLatency(sector, writing), "DISK_INT")
    BY <1>6 DEF Request, UpdateLast, lineVars
  <2>4. Added(pending, pending', "DISK_INT", totalTicks + ComputeLatency(sector, writing))
    BY <1>1, <2>2, <2>3, ScheduleEffect DEF Types
  <2>5. ~Occurs(pending, "DISK_INT")
    BY <1>2, <2>3, ExpectedCases DEF Types
  <2>6. \A x \in Types : Expected(x)' <=> Expected(x) \/ x = "DISK_INT"
    BY <2>3, ExpectedCases DEF Types
  <2> QED BY <1>2, <2>4, <2>5, <2>6 DEF Added, PendingInv
<1>7. CASE PutChar
  <2>1. /\ UNCHANGED <<machine, disk>>
        /\ acia.outputStateRegister = "EMPTY" /\ acia'.outputStateRegister = "FULL"
        /\ pending' = Schedule(pending, totalTicks, SendTime, "ACIA_SEND_INT")
    BY <1>7 DEF PutChar, SendChar, diskVars, LineType
  <2>2. Added(pending, pending', "ACIA_SEND_INT", totalTicks + SendTime)
    BY <1>1, <2>1, ScheduleEffect DEF Types
  <2>3. ~Occurs(pending, "ACIA_SEND_INT")
    BY <1>2, <2>1, ExpectedCases DEF Types
  <2>4. \A x \in Types : Expected(x)' <=> Expected(x) \/ x = "ACIA_SEND_INT"
    BY <2>1, ExpectedCases DEF Types
  <2> QED BY <1>2, <2>2, <2>3, <2>4 DEF Added, PendingInv
<1>8. CASE SetWorkingMode \/ GetChar \/ Arrive \/ UNCHANGED vars
  <2>1. UNCHANGED <<pending, disk, machine>>
    BY <1>8 DEF SetWorkingMode, GetChar, Arrive, clock, diskVars, vars
  <2>2. acia'.outputStateRegister = acia.outputStateRegister
    BY <1>8 DEF SetWorkingMode, GetChar, Arrive, Drain, vars, lineVars, LineType
  <2> QED BY <1>2, <2>1, <2>2, SamePending
<1> QED BY <1>3, <1>4, <1>5, <1>6, <1>7, <1>8, Kinds

-----------------------------------------------------------------------------
(* The serial line *)

\* A character goes from the line into the input register.
Received ==
  /\ line # <<>>
  /\ acia' = [acia EXCEPT !.inputRegister = Head(line), !.inputStateRegister = "FULL"]
  /\ line' = Tail(line)
  /\ UNCHANGED <<arrived, put, got, sent>>

\* The character in the output register goes out.
Emitted ==
  /\ acia.outputStateRegister = "FULL"
  /\ sent' = Append(sent, acia.outputRegister)
  /\ acia' = [acia EXCEPT !.outputRegister = 0, !.outputStateRegister = "EMPTY"]
  /\ UNCHANGED <<line, arrived, put, got>>

\* What a step does to the serial line; a character is sent only from a full
\* register, since the interrupt was in the list.
LEMMA LineKinds ==
  ASSUME ClockType, PendingInv, [Next]_vars
  PROVE  \/ Received \/ Emitted \/ SetWorkingMode \/ GetChar \/ PutChar \/ Arrive
         \/ UNCHANGED lineVars
<1>1. CASE Delivery
  <2>1. PICK next \in {"tick", "idling"} : Handler(Others, next) /\ pending # <<>>
    BY <1>1, DeliveryEffect
  <2>2. CASE toOccur.item = "ACIA_SEND_INT" /\ InterruptEm(Others, next)
    <3>1. Occurs(pending, "ACIA_SEND_INT")
      BY <2>1, <2>2, OthersEffect DEF ClockType
    <3>2. acia.outputStateRegister = "FULL"
      BY <3>1, ExpectedCases DEF PendingInv, Types
    <3> QED BY <2>2, <3>2 DEF InterruptEm, Emitted
  <2>3. CASE InterruptRec(Others, next)
    BY <2>3 DEF InterruptRec, Received, lineVars
  <2>4. CASE HandleInterrupt(Others, next) \/ TimerExpired(Others, next)
    BY <2>4 DEF HandleInterrupt, TimerExpired
  <2> QED BY <2>1, <2>2, <2>3, <2>4 DEF Handler
<1>2. CASE Return \/ YieldNow \/ IdleReturn \/ Halt
  BY <1>2 DEF Return, YieldNow, IdleReturn, Halt
<1>3. CASE ThreadOnly
  BY <1>3, ThreadOnlyEffect
<1>4. ASSUME NEW sector \in machine.sectors, NEW writing \in BOOLEAN, Request(sector, writing)
      PROVE  UNCHANGED lineVars
  BY <1>4 DEF Request
<1>5. CASE UNCHANGED vars
  BY <1>5 DEF vars
<1> QED BY <1>1, <1>2, <1>3, <1>4, <1>5, Kinds

\* The line and the registers stay typed.
LEMMA StepLineType ==
  ASSUME ClockType, PendingInv, LineType, OutputInv, InputInv, [Next]_vars
  PROVE  LineType'
<1> USE Constants
<1> DEFINE Registers == [inputRegister : Nat, inputStateRegister : {"EMPTY", "FULL"},
                         outputRegister : Nat, outputStateRegister : {"EMPTY", "FULL"},
                         mode : SUBSET {"REC_INTERRUPT", "SEND_INTERRUPT"}]
<1>1. /\ acia \in Registers
      /\ line \in Seq(Characters) /\ got \in Seq(Characters) /\ sent \in Seq(Characters)
      /\ arrived \in 0..MaxChars /\ put \in 0..MaxChars
  BY DEF LineType
<1>2. ASSUME acia' \in Registers,
             line' \in Seq(Characters), got' \in Seq(Characters), sent' \in Seq(Characters),
             arrived' \in 0..MaxChars, put' \in 0..MaxChars
      PROVE  LineType'
  BY <1>2 DEF LineType
<1> HIDE DEF Registers
<1>3. CASE Received
  <2>1. Head(line) \in Characters /\ Tail(line) \in Seq(Characters)
    BY <1>1, <1>3 DEF Received
  <2>2. PICK c \in Nat : c = Head(line)
    BY <2>1 DEF Characters
  <2>3. acia' = [acia EXCEPT !.inputRegister = c, !.inputStateRegister = "FULL"]
    BY <1>3, <2>2 DEF Received
  <2>4. acia' \in Registers
    BY ONLY <1>1, <2>3, c \in Nat DEF Registers
  <2> QED BY <1>1, <1>2, <1>3, <2>1, <2>4 DEF Received
<1>4. CASE Emitted
  <2>1. acia.outputRegister = put /\ put = Len(sent) + 1
    BY <1>4 DEF Emitted, OutputInv
  <2>2. acia.outputRegister \in Characters
    BY <1>1, <2>1 DEF Characters
  <2>3. acia' \in Registers
    BY <1>1, <1>4 DEF Emitted, Registers
  <2> QED BY <1>1, <1>2, <1>4, <2>2, <2>3 DEF Emitted
<1>5. CASE SetWorkingMode
  <2>1. acia' \in Registers
    BY <1>1, <1>5 DEF SetWorkingMode, Registers
  <2> QED BY <1>1, <1>2, <1>5, <2>1 DEF SetWorkingMode
<1>6. CASE GetChar
  <2>1. acia.inputRegister \in Characters
    BY <1>1, <1>6 DEF GetChar, InputInv, Characters
  <2>2. acia' \in Registers
    BY <1>1, <1>6 DEF GetChar, Drain, Registers
  <2> QED BY <1>1, <1>2, <1>6, <2>1, <2>2 DEF GetChar
<1>7. CASE PutChar
  <2>1. put' = put + 1 /\ put' \in 0..MaxChars
    BY <1>1, <1>7 DEF PutChar
  <2>2. PICK c \in Nat : c = put'
    BY <2>1
  <2>3. acia' = [[acia EXCEPT !.outputRegister = c] EXCEPT !.outputStateRegister = "FULL"]
    BY <1>7, <2>2 DEF PutChar, SendChar
  <2>4. acia' \in Registers
    BY ONLY <1>1, <2>3, c \in Nat DEF Registers
  <2> QED BY <1>1, <1>2, <1>7, <2>1, <2>4 DEF PutChar
<1>8. CASE Arrive
  <2>1. arrived' = arrived + 1 /\ arrived' \in Characters
    BY <1>1, <1>8 DEF Arrive, Characters
  <2> QED BY <1>1, <1>2, <1>8, <2>1 DEF Arrive, Characters
<1>9. CASE UNCHANGED lineVars
  BY <1>1, <1>2, <1>9 DEF lineVars
<1> QED BY <1>3, <1>4, <1>5, <1>6, <1>7, <1>8, <1>9, LineKinds

\* The characters sent are those put, in order.
LEMMA StepOutput ==
  ASSUME ClockType, PendingInv, LineType, OutputInv, [Next]_vars
  PROVE  OutputInv'
<1>1. /\ sent \in Seq(Characters) /\ Len(sent) \in Nat /\ put \in Nat
      /\ put = Len(sent) + (IF acia.outputStateRegister = "FULL" THEN 1 ELSE 0)
      /\ \A i \in 1..Len(sent) : sent[i] = i
      /\ acia.outputRegister = IF acia.outputStateRegister = "FULL" THEN put ELSE 0
      /\ acia \in [inputRegister : Nat, inputStateRegister : {"EMPTY", "FULL"},
                   outputRegister : Nat, outputStateRegister : {"EMPTY", "FULL"},
                   mode : SUBSET {"REC_INTERRUPT", "SEND_INTERRUPT"}]
  BY DEF LineType, OutputInv
<1>2. CASE Emitted
  <2>1. /\ acia.outputRegister = put /\ put = Len(sent) + 1
        /\ put' = put /\ sent' = Append(sent, put)
    BY <1>1, <1>2 DEF Emitted
  <2>2. acia'.outputRegister = 0 /\ acia'.outputStateRegister = "EMPTY"
    BY <1>1, <1>2 DEF Emitted
  <2>3. Len(sent') = Len(sent) + 1
    BY <1>1, <2>1
  <2>4. \A i \in 1..Len(sent') : sent'[i] = i
    BY <1>1, <2>1, <2>3
  <2> QED BY <2>1, <2>2, <2>3, <2>4 DEF OutputInv
<1>3. CASE PutChar
  <2>1. put' = put + 1 /\ sent' = sent /\ acia.outputStateRegister = "EMPTY"
    BY <1>3 DEF PutChar
  <2>2. acia'.outputRegister = put' /\ acia'.outputStateRegister = "FULL"
    BY <1>1, <1>3 DEF PutChar, SendChar
  <2> QED BY <1>1, <2>1, <2>2 DEF OutputInv
<1>4. CASE Received \/ SetWorkingMode \/ GetChar \/ Arrive \/ UNCHANGED lineVars
  <2>1. UNCHANGED <<put, sent>>
    BY <1>4 DEF Received, SetWorkingMode, GetChar, Arrive, lineVars
  <2>2. /\ acia'.outputRegister = acia.outputRegister
        /\ acia'.outputStateRegister = acia.outputStateRegister
    BY <1>1, <1>4 DEF Received, SetWorkingMode, GetChar, Drain, Arrive, lineVars
  <2> QED BY <1>1, <2>1, <2>2 DEF OutputInv
<1> QED BY <1>2, <1>3, <1>4, LineKinds

\* The characters that arrived are taken in order, none of them twice.
LEMMA StepInput ==
  ASSUME ClockType, PendingInv, LineType, InputInv, [Next]_vars
  PROVE  InputInv'
<1>1. /\ line \in Seq(Nat) /\ got \in Seq(Nat) /\ arrived \in Nat
      /\ acia \in [inputRegister : Nat, inputStateRegister : {"EMPTY", "FULL"},
                   outputRegister : Nat, outputStateRegister : {"EMPTY", "FULL"},
                   mode : SUBSET {"REC_INTERRUPT", "SEND_INTERRUPT"}]
      /\ \A j \in 1..Len(line) : line[j] \in Nat /\ line[j] >= 1
  BY Constants DEF LineType, Characters
<1>2. /\ acia.inputStateRegister = "FULL" => acia.inputRegister \in 1..arrived
      /\ acia.inputStateRegister = "EMPTY" => acia.inputRegister = 0
      /\ \A i \in 1..Len(got) : got[i] <= arrived
      /\ \A j \in 1..Len(line) : line[j] <= arrived
      /\ \A i, j \in 1..Len(got) : i < j => got[i] < got[j]
      /\ \A i, j \in 1..Len(line) : i < j => line[i] < line[j]
      /\ \A i \in 1..Len(got), j \in 1..Len(line) : got[i] < line[j]
      /\ acia.inputStateRegister = "FULL" =>
           /\ \A i \in 1..Len(got) : got[i] < acia.inputRegister
           /\ \A j \in 1..Len(line) : acia.inputRegister < line[j]
  BY DEF InputInv
<1>3. CASE Received
  <2>1. Len(line) >= 1 /\ Len(line) \in Nat /\ Head(line) = line[1] /\ 1 \in 1..Len(line)
    BY <1>1, <1>3 DEF Received
  <2>2. /\ Len(line') = Len(line) - 1
        /\ \A j \in 1..Len(line') : j + 1 \in 1..Len(line) /\ line'[j] = line[j + 1]
    BY <1>1, <1>3, <2>1 DEF Received
  <2>3. /\ acia'.inputRegister = line[1] /\ acia'.inputStateRegister = "FULL"
        /\ got' = got /\ arrived' = arrived
    BY <1>1, <1>3, <2>1 DEF Received
  <2>4. line[1] \in 1..arrived
    BY <1>1, <1>2, <2>1
  <2>5. \A j \in 1..Len(line') : line'[j] <= arrived
    BY <1>2, <2>2
  <2>6. \A i, j \in 1..Len(line') : i < j => line'[i] < line'[j]
    <3> TAKE i, j \in 1..Len(line')
    <3> HAVE i < j
    <3>1. PICK a, b \in 1..Len(line) : a = i + 1 /\ b = j + 1
      BY <2>2
    <3>2. a < b
      BY <2>1, <2>2, <3>1
    <3> QED BY <1>2, <2>2, <3>1, <3>2
  <2>7. \A i \in 1..Len(got), j \in 1..Len(line') : got[i] < line'[j]
    BY <1>2, <2>2
  <2>8. \A i \in 1..Len(got) : got[i] < line[1]
    BY <1>2, <2>1
  <2>9. \A j \in 1..Len(line') : line[1] < line'[j]
    <3> TAKE j \in 1..Len(line')
    <3>1. PICK b \in 1..Len(line) : b = j + 1
      BY <2>2
    <3>2. 1 < b
      BY <2>1, <2>2, <3>1
    <3> QED BY <1>2, <2>1, <2>2, <3>1, <3>2
  <2> QED BY <1>2, <2>3, <2>4, <2>5, <2>6, <2>7, <2>8, <2>9 DEF InputInv
<1>4. CASE GetChar
  <2>1. acia.inputStateRegister = "FULL" /\ got' = Append(got, acia.inputRegister)
    BY <1>4 DEF GetChar
  <2>2. /\ acia'.inputRegister = 0 /\ acia'.inputStateRegister = "EMPTY"
        /\ line' = line /\ arrived' = arrived
    BY <1>1, <1>4 DEF GetChar, Drain
  <2>3. PICK c \in Nat : c = acia.inputRegister
    BY <1>1
  <2>4. /\ c \in 1..arrived
        /\ \A i \in 1..Len(got) : got[i] < c
        /\ \A j \in 1..Len(line) : c < line[j]
    BY <1>2, <2>1, <2>3
  <2>5. got' = Append(got, c) /\ Len(got') = Len(got) + 1 /\ Len(got) \in Nat
    BY <1>1, <2>1, <2>3
  <2>6. /\ \A i \in 1..Len(got') : i = Len(got') \/ i \in 1..Len(got)
        /\ \A i \in 1..Len(got) : got'[i] = got[i]
        /\ got'[Len(got')] = c
    BY <1>1, <2>5
  <2>7. \A i \in 1..Len(got') : got'[i] <= arrived
    <3>1. c <= arrived
      BY <1>1, <2>4
    <3> QED BY ONLY <1>2, <2>6, <3>1
  <2>8. \A i, j \in 1..Len(got') : i < j => got'[i] < got'[j]
    <3> TAKE i, j \in 1..Len(got')
    <3> HAVE i < j
    <3>1. i \in 1..Len(got)
      BY <2>5
    <3> QED BY <1>2, <2>4, <2>6, <3>1
  <2>9. \A i \in 1..Len(got'), j \in 1..Len(line) : got'[i] < line[j]
    BY <1>2, <2>4, <2>6
  <2> QED BY <1>2, <2>2, <2>7, <2>8, <2>9 DEF InputInv
<1>5. CASE Arrive
  <2>1. PICK n \in Nat : n = arrived + 1
    BY <1>1
  <2>2. /\ arrived' = n /\ line' = Append(line, n)
        /\ UNCHANGED <<acia, got>>
    BY <1>5, <2>1 DEF Arrive
  <2>3. Len(line') = Len(line) + 1 /\ Len(line) \in Nat /\ Len(got) \in Nat
    BY <1>1, <2>2
  <2>4. /\ \A j \in 1..Len(line') : j = Len(line') \/ j \in 1..Len(line)
        /\ \A j \in 1..Len(line) : line'[j] = line[j]
        /\ line'[Len(line')] = n
    BY <1>1, <2>2, <2>3
  <2>5. /\ \A i \in 1..Len(got) : got[i] <= n /\ got[i] < n
        /\ \A j \in 1..Len(line) : line[j] <= n /\ line[j] < n
        /\ acia.inputStateRegister = "FULL" => acia.inputRegister \in 1..n /\ acia.inputRegister < n
    <3>1. \A a \in Nat : a <= arrived => a <= n /\ a < n
      BY <1>1, <2>1
    <3>2. \A i \in 1..Len(got) : got[i] \in Nat
      BY <1>1
    <3>3. \A i \in 1..Len(got) : got[i] <= n /\ got[i] < n
      BY ONLY <1>2, <3>1, <3>2
    <3>4. \A j \in 1..Len(line) : line[j] <= n /\ line[j] < n
      BY ONLY <1>1, <1>2, <3>1
    <3>5. ASSUME acia.inputStateRegister = "FULL"
          PROVE  acia.inputRegister \in 1..n /\ acia.inputRegister < n
      BY <1>1, <1>2, <2>1, <3>5
    <3> QED BY <3>3, <3>4, <3>5
  <2>6. \A j \in 1..Len(line') : line'[j] <= n
    BY <2>4, <2>5
  <2>7. \A i, j \in 1..Len(line') : i < j => line'[i] < line'[j]
    <3> TAKE i, j \in 1..Len(line')
    <3> HAVE i < j
    <3>1. i \in 1..Len(line)
      BY <2>3
    <3> QED BY <1>2, <2>4, <2>5, <3>1
  <2>8. \A i \in 1..Len(got), j \in 1..Len(line') : got[i] < line'[j]
    BY <1>2, <2>4, <2>5
  <2>9. acia.inputStateRegister = "FULL" => \A j \in 1..Len(line') : acia.inputRegister < line'[j]
    BY <1>2, <2>4, <2>5
  <2> QED BY <1>2, <2>2, <2>5, <2>6, <2>7, <2>8, <2>9 DEF InputInv
<1>6. CASE Emitted \/ SetWorkingMode \/ PutChar \/ UNCHANGED lineVars
  <2>1. UNCHANGED <<line, arrived, got>>
    BY <1>6 DEF Emitted, SetWorkingMode, PutChar, lineVars
  <2>2. /\ acia'.inputRegister = acia.inputRegister
        /\ acia'.inputStateRegister = acia.inputStateRegister
    BY <1>1, <1>6 DEF Emitted, SetWorkingMode, PutChar, SendChar, lineVars
  <2> QED BY <1>2, <2>1, <2>2 DEF InputInv
<1> QED BY <1>3, <1>4, <1>5, <1>6, LineKinds

-----------------------------------------------------------------------------
(* No interrupt is overdue, and the machine stops only when all is quiet *)

\* A tick ends when the first interrupt, and so every interrupt, lies ahead.
LEMMA NotFiredAhead ==
  ASSUME ClockType, PendingInv, NotFired(FALSE), status # "IDLE_MODE"
  PROVE  \A m \in Members(pending) : m.key > totalTicks
<1>1. CASE pending = <<>>
  BY <1>1 DEF Members
<1>2. CASE pending # <<>>
  <2>1. toOccur.key > totalTicks
    BY <1>2 DEF NotFired, NothingMoreToDo, IsEmpty
  <2>2. toOccur.key \in Nat /\ \A m \in Members(pending) : toOccur.key <= m.key
    BY <1>2, OthersEffect DEF ClockType, PendingInv
  <2>3. \A m \in Members(pending) : m.key \in Nat
    <3>1. \A i \in 1..Len(pending) : pending[i] \in Interrupts
      BY DEF ClockType
    <3>2. \A m \in Interrupts : m.key \in Nat
      BY DEF Interrupts
    <3> QED BY <3>1, <3>2 DEF Members
  <2> QED BY <2>1, <2>2, <2>3 DEF ClockType
<1> QED BY <1>1, <1>2

\* A new interrupt lies ahead.
LEMMA StepTime ==
  ASSUME ClockType, CpuType, Places, PendingInv, InTime, [Next]_vars
  PROVE  InTime'
<1> USE Constants
<1> DEFINE Ahead == \A m \in Members(pending) : m.key > totalTicks
<1>1. /\ pending \in Seq(Interrupts) /\ totalTicks \in Nat
      /\ at = "run" /\ level = "ON" => Ahead /\ ~yieldOnReturn
  BY DEF ClockType, InTime
<1>2. ASSUME at' = "run" /\ level' = "ON" => Ahead' /\ ~yieldOnReturn'
      PROVE  InTime'
  BY <1>2 DEF InTime
<1>3. ASSUME NEW n \in Nat, n > 0, NEW type,
             Added(pending, pending', type, totalTicks + n), totalTicks' = totalTicks, Ahead
      PROVE  Ahead'
  <2>1. totalTicks + n > totalTicks
    BY <1>1, <1>3
  <2> QED BY <1>3, <2>1 DEF Added
<1> HIDE DEF Ahead
<1>4. CASE Delivery
  <2>1. PICK next \in {"tick", "idling"} : Handler(Others, next)
    BY <1>4, DeliveryEffect
  <2>2. at' # "run"
    BY <2>1, HandlerPlace
  <2> QED BY <1>2, <2>2
<1>5. CASE Return
  <2>1. /\ at = "tick" /\ NotFired(FALSE) /\ pending' = PutBack
        /\ UNCHANGED <<totalTicks, yieldOnReturn>> /\ ~yieldOnReturn
    BY <1>5 DEF Return
  <2>2. status # "IDLE_MODE"
    BY <2>1 DEF Places
  <2>3. Ahead
    BY <2>1, <2>2, NotFiredAhead DEF Ahead
  <2>4. Members(pending') = Members(pending)
    BY <1>1, <2>1, PutBackEffect
  <2> QED BY <1>2, <2>1, <2>3, <2>4 DEF Ahead
<1>6. CASE YieldNow \/ Halt
  <2>1. at' # "run"
    BY <1>6 DEF YieldNow, Halt
  <2> QED BY <1>2, <2>1
<1>7. CASE IdleReturn
  <2>1. level' # "ON"
    BY <1>7 DEF IdleReturn, Places
  <2> QED BY <1>2, <2>1
<1>8. CASE ThreadOnly
  <2>1. /\ at = "run" /\ UNCHANGED <<pending, yieldOnReturn>>
        /\ at' = "run" => totalTicks' = totalTicks
    BY <1>8, ThreadOnlyEffect
  <2>2. at' = "run" /\ level' = "ON" => level = "ON"
    BY <1>8 DEF ThreadOnly, WaitDisk, Finish, Sleep, SetStatusOff, SetStatusOn, SyscallEnter,
                UserInstruction, SyscallReturn, GetStateReg, OneTick
  <2> QED BY <1>1, <1>2, <2>1, <2>2 DEF Ahead
<1>9. ASSUME NEW sector \in machine.sectors, NEW writing \in BOOLEAN, Request(sector, writing)
      PROVE  InTime'
  <2>1. sector \in Sectors
    BY DEF ClockType
  <2>2. PICK n \in Nat : n = ComputeLatency(sector, writing) /\ n > 0
    BY <1>1, <2>1, Latency DEF ClockType
  <2>3. /\ pending' = Schedule(pending, totalTicks, n, "DISK_INT")
        /\ UNCHANGED <<totalTicks, at, level, yieldOnReturn>>
    BY <1>9, <2>2 DEF Request, cpu
  <2>4. Added(pending, pending', "DISK_INT", totalTicks + n)
    BY <1>1, <2>3, ScheduleEffect DEF Types
  <2> QED BY <1>1, <1>2, <1>3, <2>2, <2>3, <2>4
<1>10. CASE PutChar
  <2>1. /\ pending' = Schedule(pending, totalTicks, SendTime, "ACIA_SEND_INT")
        /\ UNCHANGED <<totalTicks, at, level, yieldOnReturn>>
    BY <1>10 DEF PutChar, SendChar, cpu
  <2>2. Added(pending, pending', "ACIA_SEND_INT", totalTicks + SendTime)
    BY <1>1, <2>1, ScheduleEffect DEF Types
  <2> QED BY <1>1, <1>2, <1>3, <2>1, <2>2
<1>11. CASE SetWorkingMode \/ GetChar \/ Arrive \/ UNCHANGED vars
  <2>1. UNCHANGED <<pending, totalTicks, at, level, yieldOnReturn>>
    BY <1>11 DEF SetWorkingMode, GetChar, Arrive, clock, cpu, vars
  <2> QED BY <1>1, <1>2, <2>1 DEF Ahead
<1> QED BY <1>4, <1>5, <1>6, <1>7, <1>8, <1>9, <1>10, <1>11, Kinds

\* The machine stops with an empty list, or with the timer alone in it: then no
\* device is at work, there is no line to poll and the thread waits for nothing.
LEMMA StepHalt ==
  ASSUME ClockType, CpuType, LineType, Places, PendingInv, HaltOnlyWhenQuiet, [Next]_vars
  PROVE  HaltOnlyWhenQuiet'
<1>1. CASE Halt
  <2>1. /\ at = "idle" /\ NotFired(TRUE)
        /\ UNCHANGED <<thread, disk, acia, machine>>
    BY <1>1 DEF Halt, diskVars, lineVars
  <2>2. \A x \in Types : Occurs(pending, x) => x = "TIMER_INT"
    <3>1. CASE pending = <<>>
      BY <3>1 DEF Occurs
    <3>2. CASE pending # <<>>
      <4>1. toOccur.item = "TIMER_INT" /\ Others = <<>>
        BY <2>1, <3>2 DEF NotFired, NothingMoreToDo, IsEmpty
      <4>2. \A x : Occurs(pending, x) <=> Occurs(Others, x) \/ x = toOccur.item
        BY <3>2, OthersEffect DEF ClockType
      <4>3. \A x : ~Occurs(<<>>, x)
        BY DEF Occurs
      <4> QED BY <4>1, <4>2, <4>3
    <3> QED BY <3>1, <3>2
  <2>3. ~Expected("DISK_INT") /\ ~Expected("ACIA_SEND_INT") /\ ~Expected("ACIA_RECEIVE_INT")
    BY <2>2 DEF PendingInv, Types
  <2>4. ~disk.active /\ acia.outputStateRegister # "FULL" /\ ~machine.acia
    BY <2>3, ExpectedCases
  <2>5. thread = "gone"
    BY <2>1, <2>4 DEF Places
  <2>6. acia.outputStateRegister = "EMPTY"
    BY <2>4 DEF LineType
  <2> QED BY <2>1, <2>4, <2>5, <2>6 DEF HaltOnlyWhenQuiet
<1>2. CASE at # "halted" /\ ~Halt
  <2>1. at' # "halted"
    <3>1. CASE Delivery
      BY <3>1, DeliveryEffect, HandlerPlace
    <3>2. CASE ThreadOnly
      BY <3>2, ThreadOnlyEffect
    <3>3. ASSUME NEW sector \in machine.sectors, NEW writing \in BOOLEAN, Request(sector, writing)
          PROVE  at' # "halted"
      BY <1>2, <3>3 DEF Request, cpu
    <3>4. CASE Return \/ YieldNow \/ IdleReturn
      BY <1>2, <3>4 DEF Return, YieldNow, IdleReturn
    <3>5. CASE SetWorkingMode \/ GetChar \/ PutChar \/ Arrive \/ UNCHANGED vars
      BY <1>2, <3>5 DEF SetWorkingMode, GetChar, PutChar, Arrive, cpu, vars
    <3> QED BY <1>2, <3>1, <3>2, <3>3, <3>4, <3>5, Kinds
  <2> QED BY <2>1 DEF HaltOnlyWhenQuiet
<1>3. CASE at = "halted" /\ ~Halt
  <2>1. UNCHANGED vars
    <3>1. ~Delivery
      BY <1>3, DeliveryEffect
    <3>2. ~ThreadOnly
      BY <1>3, ThreadOnlyEffect
    <3>3. /\ ~(Return \/ YieldNow \/ IdleReturn)
          /\ ~\E sector \in machine.sectors, writing \in BOOLEAN : Request(sector, writing)
          /\ ~(SetWorkingMode \/ GetChar \/ PutChar \/ Arrive)
      BY <1>3 DEF Return, YieldNow, IdleReturn, Request, InKernel, SetWorkingMode, GetChar,
                  PutChar, Arrive
    <3> QED BY <1>3, <3>1, <3>2, <3>3, Kinds
  <2> QED BY <2>1 DEF HaltOnlyWhenQuiet, vars, cpu, diskVars, lineVars
<1> QED BY <1>1, <1>2, <1>3

-----------------------------------------------------------------------------
(* The disk *)

\* A step that leaves the request and the geometry of the disk alone and
\* schedules no disk interrupt.
LEMMA SameDisk ==
  ASSUME DiskInv, request' = request,
         disk'.lastSector = disk.lastSector, disk'.bufferInit = disk.bufferInit,
         \A m \in Members(pending') : m.item = "DISK_INT" => m \in Members(pending)
  PROVE  DiskInv'
<1>1. /\ SeekEnd(request)' = SeekEnd(request)
      /\ \A m : EndsAt(request, m.key)' <=> EndsAt(request, m.key)
  BY DEF SeekEnd, EndsAt, Seen, Passes, LastPass, Track
<1>2. NextBoundary(SeekEnd(request), disk.bufferInit)'
  BY <1>1 DEF DiskInv, NextBoundary
<1>3. \A m \in Members(pending') : m.item = "DISK_INT" => EndsAt(request, m.key)'
  BY <1>1 DEF DiskInv
<1> QED BY <1>2, <1>3 DEF DiskInv

\* Only a request moves the head, and its interrupt is the only one of the disk.
LEMMA StepDisk ==
  ASSUME ClockType, CpuType, PendingInv, DiskInv, [Next]_vars
  PROVE  DiskInv'
<1> USE Constants
<1>1. /\ totalTicks \in Nat /\ (at # "halted" => totalTicks <= MaxTicks)
      /\ pending \in Seq(Interrupts) /\ disk \in DiskStates /\ machine \in Machines
  BY DEF ClockType
<1>2. ASSUME NEW list \in Seq(Interrupts), NEW type \in Types \ {"DISK_INT"}, NEW key,
             Members(list) \subseteq Members(pending), Added(list, pending', type, key)
      PROVE  \A m \in Members(pending') : m.item = "DISK_INT" => m \in Members(pending)
  BY <1>2 DEF Added
<1>3. CASE Delivery
  <2>1. pending # <<>> /\ totalTicks' \in Nat
    BY <1>3, DeliveryEffect
  <2>2. Others \in Seq(Interrupts) /\ Members(pending) = Members(Others) \cup {toOccur}
    BY <1>1, <2>1, OthersEffect
  <2>3. \A m \in Members(pending') : m.item = "DISK_INT" => m \in Members(pending)
    <3>1. CASE pending' = Others
      BY <2>2, <3>1
    <3>2. CASE pending' = Schedule(Others, totalTicks', CheckTime, "ACIA_RECEIVE_INT")
      <4>1. Added(Others, pending', "ACIA_RECEIVE_INT", totalTicks' + CheckTime)
        BY <2>1, <2>2, <3>2, ScheduleEffect DEF Types
      <4> QED BY <1>2, <2>2, <4>1 DEF Types
    <3>3. ASSUME NEW fromNow \in 1..(2 * TimerTime),
                 pending' = Schedule(Others, totalTicks', fromNow, "TIMER_INT")
          PROVE  \A m \in Members(pending') : m.item = "DISK_INT" => m \in Members(pending)
      <4>1. Added(Others, pending', "TIMER_INT", totalTicks' + fromNow)
        BY <2>1, <2>2, <3>3, ScheduleEffect DEF Types
      <4> QED BY <1>2, <2>2, <4>1 DEF Types
    <3> QED BY <1>3, <3>1, <3>2, <3>3, HandlerList
  <2>4. request' = request
    BY <1>3 DEF Delivery, CheckIfDue
  <2>5. disk' \in {disk, [disk EXCEPT !.active = FALSE]}
    BY <1>3, DeliveryEffect DEF Handler, HandleInterrupt, TimerExpired, InterruptRec, InterruptEm
  <2>6. disk'.lastSector = disk.lastSector /\ disk'.bufferInit = disk.bufferInit
    BY <1>1, <2>5 DEF DiskStates
  <2> QED BY <2>3, <2>4, <2>6, SameDisk
<1>4. CASE Return \/ YieldNow \/ IdleReturn \/ Halt
  <2>1. pending' = PutBack /\ disk' = disk /\ request' = request
    BY <1>4 DEF Return, YieldNow, IdleReturn, Halt, diskVars
  <2>2. Members(pending') = Members(pending)
    BY <1>1, <2>1, PutBackEffect
  <2> QED BY <2>1, <2>2, SameDisk
<1>5. CASE ThreadOnly
  <2>1. UNCHANGED <<pending, disk, request>>
    BY <1>5, ThreadOnlyEffect DEF diskVars
  <2> QED BY <2>1, SameDisk
<1>6. ASSUME NEW sector \in machine.sectors, NEW writing \in BOOLEAN, Request(sector, writing)
      PROVE  DiskInv'
  <2>1. sector \in Sectors
    BY <1>1
  <2>2. PICK n : n = ComputeLatency(sector, writing)
    OBVIOUS
  <2>3. n \in Nat
    BY <1>1, <2>1, <2>2, Latency
  <2>4. /\ at = "run" /\ ~disk.active
        /\ pending' = Schedule(pending, totalTicks, n, "DISK_INT")
        /\ disk' = UpdateLast(sector)
        /\ request' = [issued |-> totalTicks, sector |-> sector, writing |-> writing,
                       from |-> Track(request.sector), since |-> SeekEnd(request)]
    BY <1>6, <2>2 DEF Request, InKernel
  <2>5. PICK r : r = request'
    OBVIOUS
  <2>6. /\ r \in Requests
        /\ NextBoundary(SeekEnd(r), UpdateLast(sector).bufferInit)
        /\ EndsAt(r, totalTicks + n)
    <3>1. /\ request \in Requests /\ disk.lastSector = request.sector
          /\ NextBoundary(SeekEnd(request), disk.bufferInit)
      BY DEF DiskInv
    <3>2. totalTicks <= MaxTicks
      BY <1>1, <2>4
    <3>3. r = [issued |-> totalTicks, sector |-> sector, writing |-> writing,
               from |-> Track(request.sector), since |-> SeekEnd(request)]
      BY <2>4, <2>5
    <3> QED BY ONLY <1>1, <1>6, <2>1, <2>2, <3>1, <3>2, <3>3, RequestTiming
  <2>7. Added(pending, pending', "DISK_INT", totalTicks + n)
    BY <1>1, <2>3, <2>4, ScheduleEffect DEF Types
  <2>8. ~Occurs(pending, "DISK_INT")
    BY <2>4, ExpectedCases DEF PendingInv, Types
  <2>9. \A m \in Members(pending) : m.item # "DISK_INT"
    BY <2>8 DEF Members, Occurs
  <2>10. \A m \in Members(pending') : m.item = "DISK_INT" => m.key = totalTicks + n
    BY <2>7, <2>9 DEF Added
  <2>11. \A m \in Members(pending') : m.item = "DISK_INT" => EndsAt(r, m.key)
    BY <2>6, <2>10
  <2>12. /\ disk'.lastSector = sector /\ r.sector = sector
         /\ disk'.bufferInit = UpdateLast(sector).bufferInit
    BY <2>4, <2>5 DEF UpdateLast
  <2>13. SeekEnd(request)' = SeekEnd(r) /\ \A t : EndsAt(request, t)' <=> EndsAt(r, t)
    BY <2>5 DEF SeekEnd, EndsAt, Seen, Passes, LastPass, Track
  <2>14. NextBoundary(SeekEnd(request), disk.bufferInit)'
    BY <2>6, <2>12, <2>13 DEF NextBoundary
  <2>15. \A m \in Members(pending') : m.item = "DISK_INT" => EndsAt(request, m.key)'
    BY <2>11, <2>13
  <2> QED BY <2>5, <2>6, <2>12, <2>14, <2>15 DEF DiskInv
<1>7. CASE PutChar
  <2>1. /\ UNCHANGED <<disk, request>>
        /\ pending' = Schedule(pending, totalTicks, SendTime, "ACIA_SEND_INT")
    BY <1>7 DEF PutChar, SendChar, diskVars
  <2>2. Added(pending, pending', "ACIA_SEND_INT", totalTicks + SendTime)
    BY <1>1, <2>1, ScheduleEffect DEF Types
  <2> QED BY <1>1, <1>2, <2>1, <2>2, SameDisk DEF Types
<1>8. CASE SetWorkingMode \/ GetChar \/ Arrive \/ UNCHANGED vars
  <2>1. UNCHANGED <<pending, disk, request>>
    BY <1>8 DEF SetWorkingMode, GetChar, Arrive, clock, diskVars, vars
  <2> QED BY <2>1, SameDisk
<1> QED BY <1>3, <1>4, <1>5, <1>6, <1>7, <1>8, Kinds

-----------------------------------------------------------------------------
(* The invariant and what follows from it *)

\* The machine starts with a poll of the line and a time slice in the list, as
\* far as it has them.
LEMMA InitInvariant ==
  ASSUME Init
  PROVE  IInv
<1> USE Constants
<1>1. /\ totalTicks = 0 /\ level = "OFF" /\ status = "SYSTEM_MODE" /\ old = "SYSTEM_MODE"
      /\ yieldOnReturn = FALSE /\ at = "run" /\ thread = "running"
      /\ disk = [active |-> FALSE, lastSector |-> 0, bufferInit |-> 0]
      /\ line = <<>> /\ arrived = 0 /\ put = 0 /\ got = <<>> /\ sent = <<>>
      /\ acia = ACIA /\ machine \in Machines
      /\ Timer
  BY DEF Init
<1>2. CpuType /\ Places /\ InTime /\ HaltOnlyWhenQuiet
  BY <1>1 DEF CpuType, Places, InTime, HaltOnlyWhenQuiet, Modes
<1>3. LineType /\ OutputInv /\ InputInv
  BY <1>1 DEF LineType, OutputInv, InputInv, ACIA
<1>4. disk \in DiskStates
  <2>1. SectorsPerTrack * NumTracks \in Nat /\ SectorsPerTrack * NumTracks > 0
    OBVIOUS
  <2> QED BY <1>1, <2>1 DEF DiskStates, Sectors
<1> DEFINE Timed(list) == \A m \in Members(list) : m.item = "TIMER_INT" => m.key <= LastTick
<1> DEFINE Right(list) ==
      /\ list \in Seq(Interrupts) /\ Timed(list) /\ InOrder(list)
      /\ \A x : Single(list, x)
<1>5. /\ Right(ACIA_sysdep)
      /\ \A x : Occurs(ACIA_sysdep, x) <=> x = "ACIA_RECEIVE_INT" /\ machine.acia
  <2>1. Right(<<>>) /\ \A x : ~Occurs(<<>>, x)
    BY DEF Members, InOrder, Single, Occurs
  <2>2. CASE machine.acia
    <3>1. ACIA_sysdep = Schedule(<<>>, 0, CheckTime, "ACIA_RECEIVE_INT")
      BY <2>2 DEF ACIA_sysdep
    <3>2. Added(<<>>, ACIA_sysdep, "ACIA_RECEIVE_INT", 0 + CheckTime)
      BY <2>1, <3>1, ScheduleEffect DEF Types
    <3> QED BY <2>1, <2>2, <3>2 DEF Added
  <2>3. CASE ~machine.acia
    BY <2>1, <2>3 DEF ACIA_sysdep
  <2> QED BY <2>2, <2>3
<1>6. /\ Right(pending)
      /\ \A x : Occurs(pending, x) <=>
           (x = "ACIA_RECEIVE_INT" /\ machine.acia) \/ (x = "TIMER_INT" /\ machine.timer # "none")
  <2>1. CASE machine.timer = "none"
    BY <1>1, <1>5, <2>1 DEF Timer
  <2>2. CASE machine.timer # "none"
    <3>1. \A kind : TimeOfNextInterrupt(kind) \subseteq 1..(2 * TimerTime)
      BY DEF TimeOfNextInterrupt
    <3>2. PICK n \in 1..(2 * TimerTime) : pending = Schedule(ACIA_sysdep, 0, n, "TIMER_INT")
      BY <1>1, <2>2, <3>1 DEF Timer
    <3>3. Added(ACIA_sysdep, pending, "TIMER_INT", 0 + n)
      <4>1. ACIA_sysdep \in Seq(Interrupts) /\ n \in Nat /\ 0 \in Nat /\ "TIMER_INT" \in Types
        BY <1>5 DEF Types
      <4> QED BY ONLY <3>2, <4>1, ScheduleEffect
    <3>4. 0 + n <= LastTick
      <4>1. 0 \in Nat /\ 0 <= MaxTicks
        OBVIOUS
      <4> QED BY ONLY <3>2, <4>1, TimerBound
    <3>5. Timed(pending)
      BY <1>5, <3>3, <3>4 DEF Added
    <3> HIDE DEF Timed
    <3>6. Right(pending)
      BY <1>5, <3>3, <3>5 DEF Added
    <3> QED BY <1>5, <2>2, <3>3, <3>6 DEF Added
  <2> QED BY <2>1, <2>2
<1>7. ClockType
  BY <1>1, <1>4, <1>6 DEF ClockType
<1>8. Expected("DISK_INT") = FALSE /\ Expected("ACIA_SEND_INT") = FALSE
  BY <1>1 DEF Expected, ACIA
<1>9. PendingInv
  <2>1. \A x \in Types : Occurs(pending, x) <=> Expected(x)
    BY <1>6, <1>8, ExpectedCases DEF Types
  <2> QED BY <1>6, <2>1 DEF PendingInv
<1>10. DiskInv
  <2>1. PICK r : r = request /\ r = [issued |-> 0, sector |-> 0, writing |-> FALSE,
                                    from |-> 0, since |-> 0]
    BY DEF Init
  <2>2. 0 \in Sectors
    BY <1>1, <1>4 DEF DiskStates
  <2>3. request \in Requests /\ disk.lastSector = request.sector
    BY <1>1, <2>1, <2>2 DEF Requests
  <2>4. Track(0) = 0
    <3>1. \A n \in Nat : n > 0 => 0 \div n = 0
      OBVIOUS
    <3> QED BY <3>1 DEF Track
  <2>5. SeekEnd(request) = 0
    BY <2>1, <2>4 DEF SeekEnd
  <2>6. NextBoundary(0, 0)
    <3>1. RotationTime * 0 = 0 /\ 0 < 0 + RotationTime
      OBVIOUS
    <3> QED BY <3>1 DEF NextBoundary
  <2>7. ~Occurs(pending, "DISK_INT")
    BY <1>8, <1>9 DEF PendingInv, Types
  <2>8. \A m \in Members(pending) : m.item # "DISK_INT"
    BY <2>7 DEF Members, Occurs
  <2>9. disk.bufferInit = 0
    BY <1>1
  <2> QED BY <2>3, <2>5, <2>6, <2>8, <2>9 DEF DiskInv
<1> QED BY <1>2, <1>3, <1>7, <1>9, <1>10 DEF IInv

\* Every step keeps the invariant.
LEMMA StepInvariant ==
  ASSUME IInv, [Next]_vars
  PROVE  IInv'
<1>1. /\ ClockType /\ CpuType /\ LineType /\ Places /\ PendingInv
      /\ OutputInv /\ InputInv /\ DiskInv /\ InTime /\ HaltOnlyWhenQuiet
  BY DEF IInv
<1>2. ClockType'
  BY <1>1, StepClock
<1>3. CpuType' /\ Places'
  BY <1>1, StepCpu
<1>4. PendingInv'
  BY <1>1, StepPending
<1>5. LineType' /\ OutputInv' /\ InputInv'
  BY <1>1, StepLineType, StepOutput, StepInput
<1>6. InTime' /\ HaltOnlyWhenQuiet'
  BY <1>1, StepTime, StepHalt
<1>7. DiskInv'
  BY <1>1, StepDisk
<1> QED BY <1>2, <1>3, <1>4, <1>5, <1>6, <1>7 DEF IInv

\* The invariant holds in every reachable state.
THEOREM Invariant == Spec => []IInv
<1>1. Init => IInv
  BY InitInvariant
<1>2. IInv /\ [Next]_vars => IInv'
  BY StepInvariant
<1> QED BY <1>1, <1>2, PTL DEF Spec

\* The state stays typed; a register of the serial line is FULL exactly when it
\* holds a character, and only characters go over the line.
THEOREM TypeCorrect == Spec => []TypeOK
<1>1. IInv => TypeOK
  <2> SUFFICES ASSUME IInv PROVE TypeOK
    OBVIOUS
  <2> USE Constants
  <2>1. /\ ClockType /\ CpuType /\ LineType /\ OutputInv /\ InputInv
    BY DEF IInv
  <2>2. totalTicks \in 0..(MaxTicks + 2 * TimerTime)
    BY <2>1 DEF ClockType, LastTick
  <2>3. \A i \in DOMAIN pending : pending[i].key \in Nat /\ pending[i].item \in Types
    <3>1. \A i \in DOMAIN pending : pending[i] \in Interrupts
      BY <2>1 DEF ClockType
    <3> QED BY <3>1 DEF Interrupts
  <2>4. /\ level \in {"ON", "OFF"} /\ yieldOnReturn \in BOOLEAN
        /\ {status, old} \subseteq {"SYSTEM_MODE", "USER_MODE", "IDLE_MODE"}
        /\ at \in {"run", "tick", "idle", "idling", "halted", "exited"}
        /\ thread \in {"running", "waiting", "ready", "gone"}
    BY <2>1 DEF CpuType, Modes
  <2>5. disk.active \in BOOLEAN /\ disk.lastSector \in Sectors /\ disk.bufferInit \in Nat
    BY <2>1 DEF ClockType, DiskStates
  <2>6. machine \in Machines /\ machine.sectors \subseteq Sectors
    BY <2>1 DEF ClockType
  <2>7. {got[i] : i \in DOMAIN got} \cup {sent[i] : i \in DOMAIN sent} \subseteq Characters
    <3>1. got \in Seq(Characters) /\ sent \in Seq(Characters)
      BY <2>1 DEF LineType
    <3>2. (\A i \in DOMAIN got : got[i] \in Characters) /\ (\A i \in DOMAIN sent : sent[i] \in Characters)
      BY <3>1
    <3> QED BY <3>2
  <2>8. (acia.inputStateRegister = "FULL") <=> acia.inputRegister \in Characters
    BY <2>1 DEF LineType, InputInv, Characters
  <2>9. (acia.outputStateRegister = "FULL") <=> acia.outputRegister \in Characters
    <3>1. Len(sent) \in Nat
      BY <2>1 DEF LineType
    <3> QED BY <2>1, <3>1 DEF LineType, OutputInv, Characters
  <2> QED BY <2>2, <2>3, <2>4, <2>5, <2>6, <2>7, <2>8, <2>9 DEF TypeOK
<1> QED BY <1>1, Invariant, PTL

\* The list of pending interrupts is sorted and holds the interrupt of every
\* device at work exactly once, whatever CheckIfDue takes off and puts back.
THEOREM InterruptsPendingCorrect == Spec => []InterruptsPending
<1>1. IInv => InterruptsPending
  <2> SUFFICES ASSUME IInv PROVE InterruptsPending
    OBVIOUS
  <2>1. pending \in Seq(Interrupts) /\ machine.acia \in BOOLEAN /\ disk.active \in BOOLEAN
    BY Constants DEF IInv, ClockType, DiskStates
  <2>2. InOrder(pending) /\ \A x \in Types : Single(pending, x) /\ (Occurs(pending, x) <=> Expected(x))
    BY DEF IInv, PendingInv
  <2>3. DOMAIN pending = 1..Len(pending) /\ Len(pending) \in Nat
    BY <2>1
  <2>4. \A i \in 1..(Len(pending) - 1) : pending[i].key <= pending[i + 1].key
    <3> TAKE i \in 1..(Len(pending) - 1)
    <3>1. PICK j \in 1..Len(pending) : j = i + 1 /\ i <= j /\ i \in 1..Len(pending)
      BY <2>3
    <3> QED BY <2>2, <3>1 DEF InOrder
  <2>5. \A x \in Types : Count(x) = IF Expected(x) THEN 1 ELSE 0
    <3> TAKE x \in Types
    <3>1. Cardinality({i \in 1..Len(pending) : pending[i].item = x}) = IF Occurs(pending, x) THEN 1 ELSE 0
      BY <2>2, ItemCount
    <3> QED BY <2>2, <2>3, <3>1 DEF Count
  <2>6. /\ Count("DISK_INT") = IF disk.active THEN 1 ELSE 0
        /\ Count("ACIA_SEND_INT") = IF acia.outputStateRegister = "FULL" THEN 1 ELSE 0
        /\ Count("ACIA_RECEIVE_INT") = IF machine.acia THEN 1 ELSE 0
        /\ Count("TIMER_INT") = IF machine.timer = "none" THEN 0 ELSE 1
    BY <2>5, ExpectedCases DEF Types
  <2> QED BY <2>4, <2>6 DEF InterruptsPending
<1> QED BY <1>1, Invariant, PTL

\* A thread that runs with interrupts on has no overdue interrupt and no
\* context switch owed to it.
THEOREM OnTimeCorrect == Spec => []OnTime
<1>1. IInv => OnTime
  <2> SUFFICES ASSUME IInv, at = "run", level = "ON"
               PROVE  /\ \A i \in DOMAIN pending : pending[i].key > totalTicks
                      /\ status # "IDLE_MODE" /\ thread = "running" /\ ~yieldOnReturn
    BY DEF OnTime
  <2>1. status # "IDLE_MODE" /\ thread = "running" /\ ~yieldOnReturn
    BY DEF IInv, Places, InTime
  <2>2. \A m \in Members(pending) : m.key > totalTicks
    BY DEF IInv, InTime
  <2>3. DOMAIN pending = 1..Len(pending)
    BY DEF IInv, ClockType
  <2>4. \A i \in DOMAIN pending : pending[i] \in Members(pending)
    BY <2>3 DEF Members
  <2> QED BY <2>1, <2>2, <2>4
<1> QED BY <1>1, Invariant, PTL

\* A disk request ends when its sector has next passed under the head, or one
\* sector time after it was made if the track buffer holds the sector, for every
\* geometry and speed of the disk and every sequence of requests.
THEOREM DiskTimingCorrect == Spec => []DiskTiming
<1>1. IInv => DiskTiming
  <2> SUFFICES ASSUME IInv, NEW i \in DOMAIN pending, pending[i].item = "DISK_INT"
               PROVE  EndsAt(request, pending[i].key)
    BY DEF DiskTiming
  <2>1. pending \in Seq(Interrupts)
    BY DEF IInv, ClockType
  <2>2. pending[i] \in Members(pending)
    BY <2>1 DEF Members
  <2> QED BY <2>2 DEF IInv, DiskInv
<1> QED BY <1>1, Invariant, PTL

\* The characters put are sent once and in order; those the program gets came
\* in their order, none of them twice.
THEOREM CharsKeptCorrect == Spec => []CharsKept
<1>1. IInv => CharsKept
  <2> SUFFICES ASSUME IInv PROVE CharsKept
    OBVIOUS
  <2>1. LineType /\ OutputInv /\ InputInv
    BY DEF IInv
  <2>2. /\ line \in Seq(Nat) /\ got \in Seq(Nat) /\ sent \in Seq(Nat)
        /\ acia.inputRegister \in Nat
    BY <2>1, Constants DEF LineType, Characters
  <2>3. /\ Len(got) \in Nat /\ DOMAIN sent = 1..Len(sent)
        /\ DOMAIN got = 1..Len(got) /\ DOMAIN line = 1..Len(line)
    BY <2>2
  <2>4. /\ put = Len(sent) + (IF acia.outputStateRegister = "FULL" THEN 1 ELSE 0)
        /\ \A i \in DOMAIN sent : sent[i] = i
        /\ acia.outputStateRegister = "FULL" => acia.outputRegister = put
    BY <2>1, <2>3 DEF OutputInv
  <2>5. CASE acia.inputStateRegister # "FULL"
    <3>1. \A i \in 1..(Len(got) - 1) : got[i] < got[i + 1]
      <4> TAKE i \in 1..(Len(got) - 1)
      <4>1. PICK j \in 1..Len(got) : j = i + 1 /\ i < j /\ i \in 1..Len(got)
        BY <2>3
      <4> QED BY <2>1, <4>1 DEF InputInv
    <3>2. \A i \in DOMAIN got, j \in DOMAIN line : got[i] < line[j]
      BY <2>1, <2>3 DEF InputInv
    <3> QED BY <2>4, <2>5, <3>1, <3>2 DEF CharsKept
  <2>6. CASE acia.inputStateRegister = "FULL"
    <3>1. PICK c \in Nat : c = acia.inputRegister
      BY <2>2
    <3>2. PICK taken : taken = Append(got, c)
      OBVIOUS
    <3>3. /\ Len(taken) = Len(got) + 1 /\ DOMAIN taken = 1..Len(taken)
          /\ \A i \in 1..Len(got) : taken[i] = got[i]
          /\ taken[Len(got) + 1] = c
      BY <2>2, <3>2
    <3>4. /\ \A i \in 1..Len(got) : got[i] < c
          /\ \A j \in 1..Len(line) : c < line[j]
          /\ \A i, j \in 1..Len(got) : i < j => got[i] < got[j]
          /\ \A i \in 1..Len(got), j \in 1..Len(line) : got[i] < line[j]
      BY <2>1, <2>6, <3>1 DEF InputInv
    <3>5. \A i \in 1..(Len(taken) - 1) : taken[i] < taken[i + 1]
      <4>0. \A n \in Nat : \A i \in 1..n : i # n => i + 1 \in 1..n /\ i < i + 1
        OBVIOUS
      <4> TAKE i \in 1..(Len(taken) - 1)
      <4>1. i \in 1..Len(got)
        BY <2>3, <3>3
      <4>2. CASE i = Len(got)
        BY <3>3, <3>4, <4>1, <4>2
      <4>3. CASE i # Len(got)
        <5>1. i + 1 \in 1..Len(got) /\ i < i + 1
          BY <2>3, <4>0, <4>1, <4>3, Zenon
        <5> QED BY <3>3, <3>4, <4>1, <5>1
      <4> QED BY <4>2, <4>3
    <3>6. \A i \in DOMAIN taken, j \in DOMAIN line : taken[i] < line[j]
      <4>1. \A i \in DOMAIN taken : i \in 1..Len(got) \/ i = Len(got) + 1
        BY <2>3, <3>3
      <4> QED BY <2>3, <3>3, <3>4, <4>1
    <3> QED BY <2>4, <2>6, <3>1, <3>2, <3>5, <3>6 DEF CharsKept
  <2> QED BY <2>5, <2>6
<1> QED BY <1>1, Invariant, PTL

\* The machine stops by itself only when the last thread is gone and no device
\* is at work.
THEOREM HaltOnlyWhenQuietCorrect == Spec => []HaltOnlyWhenQuiet
<1>1. IInv => HaltOnlyWhenQuiet
  BY DEF IInv
<1> QED BY <1>1, Invariant, PTL

=============================================================================
