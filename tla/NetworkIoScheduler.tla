-------------------------- MODULE NetworkIoScheduler --------------------------
(***************************************************************************)
(* NetworkIoScheduler (src/src/network/network_io_scheduler.h, .cc) with   *)
(* its NetworkIoSignaler and the socket of one UdpNetworkTranceiver: Wait  *)
(* sleeps on two events, one for the sockets and one for WaitUp, and reads *)
(* the socket while it sleeps.                                             *)
(*                                                                         *)
(* The events and the socket are Winsock's and modelled from its rules:    *)
(* events stay set until they are reset; WSAEventSelect and a recvfrom     *)
(* that leaves data behind record FD_READ and set the event; while FD_READ *)
(* is not re-enabled by a recvfrom, arriving data sets nothing. Wait is    *)
(* called without a time limit, as the network thread has no delayed       *)
(* tasks; a failing WSAWaitForMultipleEvents is left out.                  *)
(***************************************************************************)
EXTENDS Naturals

CONSTANT MaxDatagrams  \* bound on the datagrams that arrive

VARIABLES
  wait_pc,        \* where the thread is in Wait, "out" outside
  wait_break,
  wakeup_event,   \* wsa_event_ of the signaler is set
  socket_event,   \* socket_event_ is set
  handler_added,  \* the tranceiver is in handlers_
  selected,       \* WSAEventSelect was called for its socket
  fd_read,        \* FD_READ is recorded
  fd_armed,       \* arriving data is recorded
  readable,       \* datagrams in the socket
  received        \* datagrams read

waitVars == <<wait_pc, wait_break>>
socketVars == <<socket_event, selected, fd_read, fd_armed, readable, received>>
vars == <<waitVars, wakeup_event, handler_added, socketVars>>

\* WaitUp.
Signal == wakeup_event' = TRUE /\ UNCHANGED <<waitVars, handler_added, socketVars>>

\* BuildSocketAndConnect ends in AddHandler, which wakes nobody up.
AddHandler ==
  /\ ~handler_added
  /\ handler_added' = TRUE
  /\ UNCHANGED <<waitVars, wakeup_event, socketVars>>

\* A datagram comes in.
Arrive ==
  /\ handler_added
  /\ readable + received < MaxDatagrams
  /\ readable' = readable + 1
  /\ IF selected /\ fd_armed
     THEN fd_read' = TRUE /\ socket_event' = TRUE /\ fd_armed' = FALSE
     ELSE UNCHANGED <<fd_read, socket_event, fd_armed>>
  /\ UNCHANGED <<waitVars, wakeup_event, handler_added, selected, received>>

-----------------------------------------------------------------------------
(* Wait *)

\* Mutant of BeginWait: a signal from before the wait is cleared.
BeginWaitAfresh ==
  /\ wait_pc = "out"
  /\ wait_pc' = "select"
  /\ wait_break' = FALSE
  /\ wakeup_event' = FALSE
  /\ UNCHANGED <<handler_added, socketVars>>

BeginWait ==
  /\ wait_pc = "out"
  /\ wait_pc' = "select"
  /\ wait_break' = FALSE
  /\ UNCHANGED <<wakeup_event, handler_added, socketVars>>

\* Mutant of Select: the socket is selected when it is new and not again.
SelectOnce ==
  /\ wait_pc = "select"
  /\ wait_pc' = "blocked"
  /\ IF handler_added /\ ~selected
     THEN /\ selected' = TRUE
          /\ fd_read' = (readable > 0)
          /\ socket_event' = (socket_event \/ readable > 0)
          /\ fd_armed' = (readable = 0)
     ELSE UNCHANGED <<selected, fd_read, socket_event, fd_armed>>
  /\ UNCHANGED <<wait_break, wakeup_event, handler_added, readable, received>>

\* The handlers known now take part in the wait. WSAEventSelect forgets what
\* was recorded and looks at the socket.
Select ==
  /\ wait_pc = "select"
  /\ wait_pc' = "blocked"
  /\ IF handler_added
     THEN /\ selected' = TRUE
          /\ fd_read' = (readable > 0)
          /\ socket_event' = (socket_event \/ readable > 0)
          /\ fd_armed' = (readable = 0)
     ELSE UNCHANGED <<selected, fd_read, socket_event, fd_armed>>
  /\ UNCHANGED <<wait_break, wakeup_event, handler_added, readable, received>>

\* The socket event is the first in the list and wins. WSAEnumNetworkEvents
\* takes the record and resets the event.
WakeBySocket ==
  /\ wait_pc = "blocked" /\ socket_event
  /\ wait_pc' = IF fd_read THEN "reading" ELSE "reset"
  /\ socket_event' = FALSE
  /\ fd_read' = FALSE
  /\ UNCHANGED <<wait_break, wakeup_event, handler_added, selected, fd_armed, readable,
                 received>>

\* OnEvent of the tranceiver: recvfrom until it fails.
Read ==
  /\ wait_pc = "reading" /\ readable > 0
  /\ readable' = readable - 1
  /\ received' = received + 1
  /\ IF readable > 1
     THEN fd_read' = TRUE /\ socket_event' = TRUE /\ fd_armed' = FALSE
     ELSE fd_armed' = TRUE /\ UNCHANGED <<fd_read, socket_event>>
  /\ UNCHANGED <<waitVars, wakeup_event, handler_added, selected>>

ReadNothing ==
  /\ wait_pc = "reading" /\ readable = 0
  /\ wait_pc' = "reset"
  /\ fd_armed' = TRUE
  /\ UNCHANGED <<wait_break, wakeup_event, handler_added, selected, socket_event, fd_read,
                 readable, received>>

\* Mutant of WakeBySignal: the event is reset but the flag not set.
WakeBySignalWithoutFlag ==
  /\ wait_pc = "blocked" /\ ~socket_event /\ wakeup_event
  /\ wakeup_event' = FALSE
  /\ wait_pc' = "reset"
  /\ UNCHANGED <<wait_break, handler_added, socketVars>>

\* OnEvent of the signaler.
WakeBySignal ==
  /\ wait_pc = "blocked" /\ ~socket_event /\ wakeup_event
  /\ wakeup_event' = FALSE
  /\ wait_break' = TRUE
  /\ wait_pc' = "reset"
  /\ UNCHANGED <<handler_added, socketVars>>

\* The socket event is reset, whatever came in since the socket was read.
ResetSocketEvent ==
  /\ wait_pc = "reset"
  /\ socket_event' = FALSE
  /\ wait_pc' = IF wait_break THEN "done" ELSE "select"
  /\ UNCHANGED <<wait_break, wakeup_event, handler_added, selected, fd_read, fd_armed,
                 readable, received>>

EndWait ==
  /\ wait_pc = "done"
  /\ wait_pc' = "out"
  /\ UNCHANGED <<wait_break, wakeup_event, handler_added, socketVars>>

WaitStep == \/ Select \/ WakeBySocket \/ Read \/ ReadNothing \/ WakeBySignal
            \/ ResetSocketEvent

Init ==
  /\ wait_pc = "out" /\ wait_break = FALSE
  /\ wakeup_event = FALSE /\ socket_event = FALSE
  /\ handler_added = FALSE /\ selected = FALSE
  /\ fd_read = FALSE /\ fd_armed = FALSE
  /\ readable = 0 /\ received = 0

\* A signal that no Wait has answered yet.
Signaled == wakeup_event \/ (wait_pc # "out" /\ wait_break)
===============================================================================
