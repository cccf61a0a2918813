--------------------------- MODULE ConsoleService ---------------------------
(***************************************************************************)
(* What drivers/drvConsole.h promises of a synchronous console: writers    *)
(* exclude each other, and so do readers; a string is displayed whole, and *)
(* its writer leaves only when the device has displayed all of it; a       *)
(* reader gets the characters in the order they were typed, each once,     *)
(* up to the end of a line or of its buffer.                               *)
(***************************************************************************)
EXTENDS Naturals, Sequences

CONSTANTS Threads, Keys, NewLine, None, MaxString

VARIABLES
  writer,    \* the thread whose string is being displayed, or None
  toSend,    \* the characters it has still to send
  busy,      \* whether the device is displaying one
  screen,    \* per displayed character, the thread that sent it
  reader,    \* the thread whose buffer is being filled, or None
  room,      \* the characters it has still room for
  typed,     \* the characters typed
  received   \* those put into the buffers of the readers

output == <<writer, toSend, busy, screen>>
input == <<reader, room, typed, received>>
serviceVars == <<output, input>>

ServiceInit ==
  /\ writer = None /\ toSend = 0 /\ busy = FALSE /\ screen = <<>>
  /\ reader = None /\ room = 0 /\ typed = <<>> /\ received = <<>>

BeginPut(t, n) ==
  /\ writer = None
  /\ writer' = t /\ toSend' = n
  /\ UNCHANGED <<busy, screen, input>>

Send(t) ==
  /\ writer = t /\ toSend > 0 /\ ~busy
  /\ screen' = Append(screen, t)
  /\ toSend' = toSend - 1 /\ busy' = TRUE
  /\ UNCHANGED <<writer, input>>

Displayed ==
  /\ busy
  /\ busy' = FALSE
  /\ UNCHANGED <<writer, toSend, screen, input>>

EndPut(t) ==
  /\ writer = t /\ toSend = 0 /\ ~busy
  /\ writer' = None
  /\ UNCHANGED <<toSend, busy, screen, input>>

BeginGet(t, n) ==
  /\ reader = None
  /\ reader' = t /\ room' = n
  /\ UNCHANGED <<typed, received, output>>

\* A buffer without room is complete.
EndGet(t) ==
  /\ reader = t /\ room = 0
  /\ reader' = None
  /\ UNCHANGED <<room, typed, received, output>>

\* The next character typed; the call ends with its line or its buffer.
Receive(t) ==
  /\ reader = t /\ room > 0 /\ Len(received) < Len(typed)
  /\ LET c == typed[Len(received) + 1] IN
     /\ received' = Append(received, c)
     /\ IF c = NewLine \/ room = 1
        THEN reader' = None /\ room' = 0
        ELSE reader' = reader /\ room' = room - 1
  /\ UNCHANGED <<typed, output>>

Typing(c) ==
  /\ typed' = Append(typed, c)
  /\ UNCHANGED <<reader, room, received, output>>

ServiceNext ==
  \/ \E t \in Threads :
       \/ \E n \in 0..MaxString : BeginPut(t, n)
       \/ Send(t) \/ EndPut(t)
       \/ \E n \in 0..MaxString : BeginGet(t, n)
       \/ Receive(t) \/ EndGet(t)
  \/ Displayed
  \/ \E c \in Keys : Typing(c)

ServiceSpec == ServiceInit /\ [][ServiceNext]_serviceVars

=============================================================================
